-------------------------- MODULE CoreServerProofs --------------------------
(***************************************************************************)
(* Proofs about CoreServer, for any number of requests, configurations,    *)
(* upstream statuses and failing INSERTs.  The server restricts what the   *)
(* requests of AnthropicProxy may do and adds nothing to it, so that every *)
(* invariant of the proxy is one of the server; and each way out of Run    *)
(* leaves the requests as its exit code says.                              *)
(***************************************************************************)
EXTENDS CoreServer, TLAPS

PP == INSTANCE AnthropicProxyProofs

-----------------------------------------------------------------------------
(* A step of the server is a step of the requests, or does not touch them. *)
LEMMA StepOfRequests == [Next]_vars => [Proxy!Next]_(Proxy!vars)
<1> SUFFICES ASSUME [Next]_vars PROVE [Proxy!Next]_(Proxy!vars)
  OBVIOUS
<1>1. CASE Server \/ Signal \/ ListenerFails \/ Rest
  BY <1>1
     DEF proxyVars, Proxy!vars, Server, Listen, BeginShutdown, Drained, DrainTimesOut, CloseStore, Exit,
         Signal, ListenerFails, Rest, vars
<1>2. ASSUME NEW r \in Req, Handling(r)
      PROVE  Proxy!Next
  BY <1>2 DEF Handling, Handle, Proxy!Next, Proxy!Advance
<1>3. ASSUME NEW r \in Req, TimingOut(r)
      PROVE  Proxy!Next
  BY <1>3 DEF TimingOut, Proxy!Next
<1>4. ASSUME NEW r \in Req, Arriving(r)
      PROVE  Proxy!Next
  BY <1>4 DEF Arriving, Proxy!Next, Proxy!Outside
<1>5. ASSUME NEW r \in Req, Outside(r)
      PROVE  Proxy!Next
  BY <1>5 DEF Outside, Proxy!Next, Proxy!Outside
<1>6. ASSUME NEW r \in Req, Processing(r)
      PROVE  Proxy!Next
  BY <1>6 DEF Processing, Proxy!Next, Proxy!Outside
<1>7. CASE UNCHANGED vars
  BY <1>7 DEF vars, proxyVars, Proxy!vars
<1> QED BY <1>1, <1>2, <1>3, <1>4, <1>5, <1>6, <1>7 DEF Next

(* The requests of a server behave as AnthropicProxy says, whenever it is  *)
(* told to stop, however it fails and however long the drain lasts.        *)
THEOREM Implements == Spec => ImplementsProxy
<1>1. Init => Proxy!Init
  BY DEF Init
<1> QED BY <1>1, StepOfRequests, PTL DEF Spec, ImplementsProxy, Proxy!Spec

(* PP is AnthropicProxy once more, with the proofs about it: its operators *)
(* have the same definitions under other names.                            *)
LEMMA SameSteps ==
  (Proxy!Init <=> PP!Init) /\ ([Proxy!Next]_(Proxy!vars) <=> [PP!Next]_(PP!vars))
<1>1. Proxy!Init <=> PP!Init
  BY DEF Proxy!Init, PP!Init, Proxy!NoReply, PP!NoReply, Proxy!NoOutcome,
     PP!NoOutcome, Proxy!NoError, PP!NoError
<1>2. Proxy!Next <=> PP!Next
  BY DEF Proxy!Send, PP!Send, Proxy!Leave, PP!Leave, Proxy!Auth, PP!Auth,
     Proxy!Validate, PP!Validate, Proxy!ReadClock, PP!ReadClock,
     Proxy!MarkAttempt, PP!MarkAttempt, Proxy!Refuse, PP!Refuse, Proxy!Call,
     PP!Call, Proxy!Sent, PP!Sent, Proxy!Serve, PP!Serve, Proxy!HeadersArrive, PP!HeadersArrive,
     Proxy!CallFails, PP!CallFails, Proxy!CallTimesOut, PP!CallTimesOut,
     Proxy!BodyArrives, PP!BodyArrives, Proxy!BodyFails, PP!BodyFails,
     Proxy!BodyTimesOut, PP!BodyTimesOut, Proxy!MarkFailure, PP!MarkFailure,
     Proxy!MarkSuccess, PP!MarkSuccess, Proxy!TrackNothing, PP!TrackNothing,
     Proxy!TrackUsage, PP!TrackUsage, Proxy!TrackCancelled,
     PP!TrackCancelled, Proxy!TrackFails, PP!TrackFails, Proxy!Reply,
     PP!Reply, Proxy!Advance, PP!Advance, Proxy!Timeout, PP!Timeout,
     Proxy!Outside, PP!Outside, Proxy!Rest, PP!Rest, Proxy!Next, PP!Next,
     Proxy!vars, PP!vars, Proxy!Go, PP!Go, Proxy!Answer, PP!Answer,
     Proxy!Fails, PP!Fails, Proxy!request, PP!request, Proxy!provider,
     PP!provider, Proxy!store, PP!store, Proxy!time, PP!time, Proxy!Cred,
     PP!Cred, Proxy!Authorized, PP!Authorized, Proxy!clientTimeout,
     PP!clientTimeout, Proxy!NoError, PP!NoError, Proxy!Success, PP!Success,
     Proxy!toHTTPStatus, PP!toHTTPStatus,
     Proxy!proxyErrorFromUpstreamStatus, PP!proxyErrorFromUpstreamStatus
<1>3. Proxy!vars = PP!vars
  BY DEF Proxy!vars, PP!vars
<1> QED BY <1>1, <1>2, <1>3 DEF Proxy!vars, PP!vars

(* ... and so has its invariant. *)
LEMMA SameInvariant == Proxy!IndInv <=> PP!IndInv
  BY DEF Proxy!IndInv, PP!IndInv, Proxy!TypeOK, PP!TypeOK, Proxy!Untouched,
     PP!Untouched, Proxy!Guarded, PP!Guarded, Proxy!Decided, PP!Decided,
     Proxy!Sent, PP!Sent, Proxy!Told, PP!Told, Proxy!toHTTPStatus, PP!toHTTPStatus,
     Proxy!Accounted, PP!Accounted, Proxy!Attempted, PP!Attempted,
     Proxy!SpendingIsAuthorized, PP!SpendingIsAuthorized,
     Proxy!RefusalsSpendNothing, PP!RefusalsSpendNothing, Proxy!UsageIsReal,
     PP!UsageIsReal, Proxy!SuccessIsAccounted, PP!SuccessIsAccounted,
     Proxy!DiagnosticsAreOneOutcome, PP!DiagnosticsAreOneOutcome,
     Proxy!DiagnosticsConsistent, PP!DiagnosticsConsistent, Proxy!Stage,
     PP!Stage, Proxy!Cred, PP!Cred, Proxy!Code, PP!Code, Proxy!Status0,
     PP!Status0, Proxy!Outcome, PP!Outcome, Proxy!Diagnostics,
     PP!Diagnostics, Proxy!Answers, PP!Answers, Proxy!NoReply, PP!NoReply,
     Proxy!NoOutcome, PP!NoOutcome, Proxy!NoError, PP!NoError,
     Proxy!Success, PP!Success, Proxy!Codes, PP!Codes, Proxy!Early, PP!Early,
     Proxy!Engaged, PP!Engaged, Proxy!Finished, PP!Finished

(* So the invariants of the proxy hold in the server.                      *)
THEOREM ProxyInvariant == Spec => []Proxy!IndInv
<1>1. Proxy!Spec => []Proxy!IndInv
  <2>1. PP!Spec => []PP!IndInv
    BY PP!Inductive, ConfigsAreConfigs, StatusesAreHTTP, BoundIsNatural
       DEF Proxy!Config, PP!Config
  <2> QED BY <2>1, SameSteps, SameInvariant, PTL DEF Proxy!Spec, PP!Spec
<1> QED BY <1>1, Implements, PTL DEF ImplementsProxy

(* Metering sees the same of both. *)
LEMMA SameBooks ==
  (Proxy!Meter!Init <=> PP!Meter!Init)
  /\ ([Proxy!Meter!Next]_(Proxy!Meter!vars) <=> [PP!Meter!Next]_(PP!Meter!vars))
  BY DEF Proxy!Meter!Init, PP!Meter!Init, Proxy!Meter!Next, PP!Meter!Next,
     Proxy!Meter!Charge, PP!Meter!Charge, Proxy!Meter!Record, PP!Meter!Record,
     Proxy!Meter!Refuse, PP!Meter!Refuse, Proxy!Meter!Fail, PP!Meter!Fail,
     Proxy!Meter!Deliver, PP!Meter!Deliver, Proxy!Meter!Tell, PP!Meter!Tell,
     Proxy!Meter!vars, PP!Meter!vars, Proxy!Tale, PP!Tale,
     Proxy!Refusals, PP!Refusals, Proxy!NoError, PP!NoError

(* So the books agree across a shutdown: a drain that times out, a store   *)
(* closed under a request and the end of the process lose rows, but leave  *)
(* none that is wrong, and charge nobody who was refused.                  *)
THEOREM ServerKeepsTheBooks == Spec => Proxy!ImplementsMetering
<1>1. PP!Spec => PP!ImplementsMetering
  BY PP!KeepsTheBooks, ConfigsAreConfigs, StatusesAreHTTP, BoundIsNatural
     DEF Proxy!Config, PP!Config
<1> QED
  BY <1>1, Implements, SameSteps, SameBooks, PTL
     DEF ImplementsProxy, Proxy!Spec, PP!Spec, Proxy!ImplementsMetering,
         PP!ImplementsMetering, Proxy!Meter!Spec, PP!Meter!Spec

-----------------------------------------------------------------------------
(* Only a request that is being handled takes a step, once it has arrived. *)
LEMMA OnlyBusyRequestsStep ==
  ASSUME NEW r \in Req, Handling(r) \/ TimingOut(r) \/ Outside(r)
  PROVE  ~ Quiet
<1>1. CASE Handling(r)
  BY <1>1
     DEF Quiet, Handling, Handle, Proxy!Go, Proxy!Fails, Proxy!Auth,
         Proxy!ReadClock, Proxy!MarkAttempt, Proxy!Refuse, Proxy!Call,
         Proxy!MarkFailure, Proxy!MarkSuccess, Proxy!TrackNothing,
         Proxy!TrackCancelled, Proxy!TrackUsage, Proxy!TrackFails
<1>2. CASE TimingOut(r)
  BY <1>2 DEF Quiet, TimingOut, Proxy!Timeout, Proxy!CallTimesOut,
              Proxy!BodyTimesOut, Proxy!Go, Proxy!Fails
<1>3. CASE Outside(r)
  BY <1>3 DEF Quiet, Outside, Proxy!Leave, Proxy!Validate,
              Proxy!HeadersArrive, Proxy!CallFails, Proxy!BodyArrives,
              Proxy!BodyFails, Proxy!Reply, Proxy!Go, Proxy!Fails
<1> QED BY <1>1, <1>2, <1>3

ServerType == /\ run \in Runs /\ signalled \in BOOLEAN
              /\ cause \in Causes \cup {"none"}
              /\ db \in {"open", "closed"} /\ exit \in Exits
ServerInv == ServerType /\ RunIsOrderly /\ WaysOut

(* Every step of the server keeps what is known of it. *)
LEMMA ServerStep == ServerInv /\ [Next]_vars => ServerInv'
<1> SUFFICES ASSUME ServerInv, [Next]_vars PROVE ServerInv'
  OBVIOUS
<1> USE DEF ServerInv, ServerType, RunIsOrderly, WaysOut, Waiting, Runs, Exits,
            Causes, BindCauses
<1>1. CASE Listen \/ Signal \/ BeginShutdown \/ CloseStore \/ Exit
  BY <1>1 DEF Listen, Signal, BeginShutdown, CloseStore, Exit, Quiet, proxyVars
<1>2. CASE Drained \/ DrainTimesOut
  BY <1>2 DEF Drained, DrainTimesOut, Quiet, proxyVars
<1>3. CASE ListenerFails
  BY <1>3 DEF ListenerFails, listenerCode, Quiet, proxyVars
<1>4. ASSUME NEW r \in Req, Handling(r) \/ TimingOut(r) \/ Outside(r)
      PROVE  ServerInv'
  <2>1. ~ Quiet /\ UNCHANGED serverVars
    BY <1>4, OnlyBusyRequestsStep DEF Handling, TimingOut, Outside
  <2> QED BY <2>1 DEF serverVars
<1>5. ASSUME NEW r \in Req, Arriving(r)
      PROVE  ServerInv'
  BY <1>5 DEF Arriving, serverVars
<1>6. ASSUME NEW r \in Req, Processing(r)
      PROVE  ServerInv'
  BY <1>6 DEF Processing, Proxy!Serve, serverVars, Quiet
<1>7. CASE Rest \/ UNCHANGED vars
  BY <1>7 DEF Rest, vars, serverVars, proxyVars, Quiet
<1> QED BY <1>1, <1>2, <1>3, <1>4, <1>5, <1>6, <1>7 DEF Next, Server

(* The inductive invariant of the server, its types included. *)
THEOREM Inductive == Spec => []IndInv
<1>1. Init => ServerInv
  BY DEF Init, ServerInv, ServerType, RunIsOrderly, WaysOut, Waiting, Runs, Exits,
         Quiet, Proxy!Init
<1>2. Proxy!IndInv /\ ServerInv => IndInv
  BY DEF Proxy!IndInv, IndInv, TypeOK, ServerInv, ServerType
<1> QED BY <1>1, <1>2, ServerStep, ProxyInvariant, PTL DEF Spec

(* The variables have their types. *)
THEOREM TypeCorrect == Spec => []TypeOK
<1>1. IndInv => TypeOK
  BY DEF IndInv
<1> QED BY <1>1, Inductive, PTL

(* A process that ends with success has answered every request.            *)
THEOREM SuccessMeansAnswered == Spec => []CleanExitIsComplete
<1>1. IndInv => CleanExitIsComplete
  BY DEF IndInv, WaysOut, CleanExitIsComplete
<1> QED BY <1>1, Inductive, PTL

(* The database is closed under a request only after a drain that timed    *)
(* out or by a listener that broke down.                                   *)
THEOREM StoreClosesLast == Spec => []StoreOutlivesRequests
<1>1. IndInv => StoreOutlivesRequests
  BY DEF IndInv, TypeOK, RunIsOrderly, WaysOut, Waiting, Exits, StoreOutlivesRequests
<1> QED BY <1>1, Inductive, PTL
=============================================================================
