------------------------------ MODULE CoreServer ------------------------------
(***************************************************************************)
(* One run of `serve`, from the opened store to the end of the process:    *)
(* Run in internal/api/server/server.go, buildServeCommand and             *)
(* signalContext in internal/cli/commands.go, around the requests of       *)
(* AnthropicProxy.  The listener is a goroutine; Run waits for a signal or *)
(* for the listener's error, drains the requests for ten seconds at most   *)
(* after a signal, and the deferred store.Close ends every run.            *)
(***************************************************************************)
EXTENDS Naturals, CoreErrors

CONSTANTS Req, Configs, UpstreamStatus, MaxStoreErrors   \* see AnthropicProxy

VARIABLES
    cfg, stage, cred, gone, served, answer, usage, late, outcome, stamp, clock,
    status, rows, storeErrors, reply,                    \* see AnthropicProxy
    run,       \* where Run and the deferred Close are
    signalled, \* SIGINT or SIGTERM has arrived: the context of Run is cancelled
    cause,     \* why the listener failed, if it did
    db,        \* is the database open?
    exit       \* what the process ends with

proxyVars == <<cfg, stage, cred, gone, served, answer, usage, late, outcome,
               stamp, clock, status, rows, storeErrors, reply>>
serverVars == <<run, signalled, cause, db, exit>>
vars == <<proxyVars, serverVars>>

Proxy == INSTANCE AnthropicProxy

ASSUME ConfigsAreConfigs == Configs \subseteq Proxy!Config
ASSUME StatusesAreHTTP == UpstreamStatus \subseteq 100..599
ASSUME BoundIsNatural == MaxStoreErrors \in Nat

(* What net.Listen or Accept may report.  Go words the failures of the     *)
(* bind system call alike: "listen tcp <address>: bind: <reason>".         *)
BindCauses == {"address already in use", "permission denied", "cannot assign address"}
Causes == BindCauses \cup {"bad address", "accept failed"}
Runs == {"starting", "listening", "draining", "closing", "closed", "exited"}
Exits == {"none", "ok", "PORT_IN_USE", "INTERNAL_SERVER_ERROR"}

Init ==
    /\ Proxy!Init
    /\ run = "starting" /\ signalled = FALSE
    /\ cause = "none" /\ db = "open" /\ exit = "none"

-----------------------------------------------------------------------------
(* ListenAndServe binds the address. *)
Listen ==
    /\ run = "starting" /\ run' = "listening"
    /\ UNCHANGED <<proxyVars, signalled, cause, db, exit>>

(* signalContext: the first signal cancels the context, later ones find    *)
(* nobody listening.                                                       *)
Signal ==
    /\ run \in {"starting", "listening"} /\ ~ signalled
    /\ signalled' = TRUE
    /\ UNCHANGED <<proxyVars, run, cause, db, exit>>

(* Mutant of BeginShutdown: Close instead of Shutdown, which drops the     *)
(* connections of the requests that are being handled.                     *)
BeginClose ==
    /\ signalled /\ run \in {"starting", "listening"}
    /\ run' = "draining"
    /\ stage' = [r \in Req |-> IF stage[r] = "idle" THEN "idle" ELSE "done"]
    /\ UNCHANGED <<cfg, cred, gone, served, answer, usage, late, outcome, stamp,
                   clock, status, rows, storeErrors, reply, signalled, cause, db, exit>>

(* Run sees the cancelled context, listening or not: Shutdown closes the   *)
(* listener, and a listener that comes later stops by itself.              *)
BeginShutdown ==
    /\ signalled /\ run \in {"starting", "listening"}
    /\ run' = "draining"
    /\ UNCHANGED <<proxyVars, signalled, cause, db, exit>>

Quiet == \A r \in Req : stage[r] \in {"idle", "done"}

(* Mutant of Drained: Run does not wait for Shutdown. *)
DrainedAtOnce ==
    /\ run = "draining"
    /\ run' = "closing" /\ exit' = "ok"
    /\ UNCHANGED <<proxyVars, signalled, cause, db>>

(* Shutdown has found every connection idle. *)
Drained ==
    /\ run = "draining" /\ Quiet
    /\ run' = "closing" /\ exit' = "ok"
    /\ UNCHANGED <<proxyVars, signalled, cause, db>>

(* Mutant of DrainTimesOut: Shutdown is called with no deadline. *)
DrainWaitsOn == run = "draining" /\ ~ Quiet /\ UNCHANGED vars

(* Ten seconds are over and a request is still being handled. *)
DrainTimesOut ==
    /\ run = "draining" /\ ~ Quiet
    /\ run' = "closing" /\ exit' = "INTERNAL_SERVER_ERROR"
    /\ UNCHANGED <<proxyVars, signalled, cause, db>>

(* Mutant of listenerCode: Run returns the error of the listener bare. *)
listenerCause(c) == c

(* The test of Run on the wording of the error. *)
listenerCode(c) == IF c \in BindCauses THEN "PORT_IN_USE" ELSE "INTERNAL_SERVER_ERROR"

(* The listener fails before it accepts anything, or gives up accepting:   *)
(* Run returns at once and drains nothing.                                 *)
ListenerFails ==
    /\ \/ run = "starting" /\ cause' \in Causes \ {"accept failed"}
       \/ run = "listening" /\ cause' = "accept failed"
    /\ run' = "closing"
    /\ exit' = listenerCode(cause')
    /\ UNCHANGED <<proxyVars, signalled, db>>

(* The deferred store.Close; requests that are still being handled go on.  *)
CloseStore ==
    /\ run = "closing" /\ run' = "closed"
    /\ db' = "closed"
    /\ UNCHANGED <<proxyVars, signalled, cause, exit>>

(* main returns, and takes every goroutine with it. *)
Exit ==
    /\ run = "closed" /\ run' = "exited"
    /\ UNCHANGED <<proxyVars, signalled, cause, db, exit>>

-----------------------------------------------------------------------------
(* The requests.  A row needs the database: the INSERT fails when it is    *)
(* closed.                                                                 *)
Handle(r) ==
    \/ Proxy!Auth(r) \/ Proxy!ReadClock(r) \/ Proxy!MarkAttempt(r)
    \/ Proxy!Refuse(r) \/ Proxy!Call(r) \/ Proxy!MarkFailure(r)
    \/ Proxy!MarkSuccess(r) \/ Proxy!TrackNothing(r) \/ Proxy!TrackCancelled(r)
    \/ db = "open" /\ Proxy!TrackUsage(r)
    \/ Proxy!TrackFails(r)

Handling(r) ==
    /\ run # "exited"
    /\ Handle(r)
    /\ UNCHANGED serverVars

TimingOut(r) == run # "exited" /\ Proxy!Timeout(r) /\ UNCHANGED serverVars

(* A request comes in on a connection that has been accepted: while Run    *)
(* listens, in the first seconds of a drain - Shutdown waits for the first *)
(* request of a new connection - and when only accepting is broken.        *)
Arriving(r) ==
    /\ run # "exited"
    /\ run \in {"listening", "draining"} \/ cause = "accept failed"
    /\ Proxy!Send(r)
    /\ UNCHANGED serverVars

Outside(r) ==
    /\ run # "exited"
    /\ \/ Proxy!Leave(r) \/ Proxy!Validate(r)
       \/ Proxy!HeadersArrive(r) \/ Proxy!CallFails(r)
       \/ Proxy!BodyArrives(r) \/ Proxy!BodyFails(r) \/ Proxy!Reply(r)
    /\ UNCHANGED serverVars

(* The provider does not stop when the process does: it may still process  *)
(* what has been sent.                                                     *)
Processing(r) == Proxy!Serve(r) /\ UNCHANGED serverVars

Server == Listen \/ BeginShutdown \/ Drained \/ DrainTimesOut \/ CloseStore \/ Exit

Rest == run = "exited" /\ UNCHANGED vars

Next ==
    \/ Server \/ Signal \/ ListenerFails \/ Rest
    \/ \E r \in Req : Handling(r) \/ TimingOut(r) \/ Arriving(r) \/ Outside(r)
                    \/ Processing(r)

Spec == Init /\ [][Next]_vars

(* Run, Shutdown's timer, the scheduler and the timer of the HTTP client.  *)
FairSpec ==
    /\ Spec /\ WF_vars(Server)
    /\ \A r \in Req : WF_vars(Handling(r)) /\ WF_vars(TimingOut(r))

-----------------------------------------------------------------------------
TypeOK ==
    /\ Proxy!TypeOK
    /\ run \in Runs /\ signalled \in BOOLEAN
    /\ cause \in Causes \cup {"none"}
    /\ db \in {"open", "closed"} /\ exit \in Exits

(* A process that reports success has answered every request it accepted. *)
CleanExitIsComplete == exit = "ok" => Quiet

(* Only a drain that timed out, or a listener that broke down while        *)
(* requests were handled, closes the database under a request.             *)
StoreOutlivesRequests ==
    db = "closed" /\ ~ Quiet =>
        exit = "INTERNAL_SERVER_ERROR" /\ (signalled \/ cause = "accept failed")

(* The inductive invariant behind these: while Run waits nothing has been  *)
(* decided, and each way out of it has left the requests as it had to.     *)
Waiting == {"starting", "listening", "draining"}

RunIsOrderly ==
    /\ run \in Waiting => cause = "none" /\ exit = "none"
    /\ run \notin Waiting => exit # "none"
    /\ run = "draining" => signalled
    /\ run = "starting" => Quiet
    /\ db = "closed" <=> run \in {"closed", "exited"}
WaysOut ==
    /\ exit = "ok" => Quiet /\ cause = "none"
    /\ exit = "PORT_IN_USE" => Quiet /\ cause \in BindCauses
    /\ exit = "INTERNAL_SERVER_ERROR" =>
          signalled \/ cause = "accept failed" \/ (Quiet /\ cause = "bad address")

IndInv == TypeOK /\ RunIsOrderly /\ WaysOut

(* The requests behave as AnthropicProxy says, whatever the server does.   *)
ImplementsProxy == Proxy!Spec

(* A signal ends the process, whatever clients and provider do: no timeout *)
(* limits a client that sends its body slowly or does not read its answer, *)
(* but the drain does.                                                     *)
SignalStops == signalled ~> run = "exited"
=============================================================================
