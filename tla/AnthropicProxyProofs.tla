------------------------- MODULE AnthropicProxyProofs -------------------------
(***************************************************************************)
(* Proofs about AnthropicProxy, for any number of concurrent requests, any *)
(* set of configurations and of upstream statuses, and any number of       *)
(* failing INSERTs: IndInv is inductive, and the safety properties of the  *)
(* module are among its conjuncts.                                         *)
(***************************************************************************)
EXTENDS AnthropicProxy, TLAPS

USE DEF Go, request, provider, store, time

(* The codes that Forward and the handler use. *)
LEMMA KnownCodes ==
  {NoError, "UNAUTHORIZED", "VALIDATION_FAILED", "PROXY_DISABLED",
   "PROXY_NOT_CONFIGURED", "PROXY_UPSTREAM_ERROR", "PROXY_TIMEOUT"} \subseteq Code
  BY DEF Code, Codes

(* The statuses of the error envelope; a refusal of the core itself is the *)
(* only way to 401 and 503.                                                *)
LEMMA EnvelopeStatus ==
  ASSUME NEW code \in Code
  PROVE  /\ toHTTPStatus(code) \in {400, 401, 409, 500, 502, 503, 504}
         /\ toHTTPStatus(code) = 401 => code = "UNAUTHORIZED"
         /\ toHTTPStatus(code) = 503 =>
               code \in {"PROXY_DISABLED", "PROXY_NOT_CONFIGURED"}
  BY DEF toHTTPStatus

(* Well-typed arguments make well-typed records. *)
LEMMA FailsType ==
  ASSUME TypeOK, NEW r \in Req, NEW from, NEW code \in Code, NEW up \in Status0,
         Fails(r, from, code, up)
  PROVE  stage' \in [Req -> Stage] /\ outcome' \in [Req -> Outcome]
<1>1. [code |-> code, upstream |-> up] \in Outcome
  BY DEF Outcome
<1> QED BY <1>1 DEF TypeOK, Fails, Stage

(* An answer is well-typed if its status and its code are. *)
LEMMA AnswerType ==
  ASSUME TypeOK, NEW r \in Req, NEW code \in Code,
         NEW s \in Status0 \cup {400, 401, 409, 500, 502, 503, 504}, Answer(r, s,
         code)
  PROVE  reply' \in [Req -> Answers]
<1>1. [status |-> s, code |-> code] \in Answers
  BY DEF Answers
<1> QED BY <1>1 DEF TypeOK, Answer

(* The fields of an outcome have their types. *)
LEMMA OutcomeFields ==
  ASSUME TypeOK, NEW r \in Req
  PROVE  outcome[r].code \in Code /\ outcome[r].upstream \in Status0
  BY DEF TypeOK, Outcome

(* A core that starts is well-typed. *)
LEMMA InitType == Init => TypeOK
<1>1. NoOutcome \in Outcome /\ NoReply \in Answers
  BY KnownCodes DEF NoOutcome, NoReply, Outcome, Answers, Status0
<1>2. [attempt |-> 0, success |-> 0, code |-> NoError,
            upstream |-> 0] \in Diagnostics
  BY KnownCodes DEF Diagnostics, Status0
<1> QED
  BY <1>1, <1>2, BoundIsNatural DEF Init, TypeOK, Stage, Cred, Status0

(* Every step keeps the types. *)
LEMMA TypePreserved == TypeOK /\ [Next]_vars => TypeOK'
<1> USE KnownCodes
<1> SUFFICES ASSUME TypeOK, [Next]_vars PROVE TypeOK'
  OBVIOUS
<1>1. ASSUME NEW r \in Req, Send(r) PROVE TypeOK'
  BY <1>1 DEF TypeOK, Send, Stage, Cred
<1>2. ASSUME NEW r \in Req, Leave(r) PROVE TypeOK'
  BY <1>2 DEF TypeOK, Leave
<1>3. ASSUME NEW r \in Req, Auth(r) PROVE TypeOK'
  <2>1. ASSUME Answer(r, 401, "UNAUTHORIZED") PROVE reply' \in [Req -> Answers]
    BY <2>1, AnswerType
  <2>2. reply' \in [Req -> Answers]
    BY <1>3, <2>1 DEF TypeOK, Auth
  <2>3. stage' \in [Req -> Stage]
    BY <1>3 DEF TypeOK, Auth, Stage
  <2> QED BY <1>3, <2>2, <2>3 DEF TypeOK, Auth
<1>4. ASSUME NEW r \in Req, Validate(r) PROVE TypeOK'
  <2>1. toHTTPStatus("VALIDATION_FAILED") \in {400, 401, 409, 500, 502, 503, 504}
    BY EnvelopeStatus
  <2>2. reply' \in [Req -> Answers]
    BY <1>4, <2>1, AnswerType DEF TypeOK, Validate
  <2>3. stage' \in [Req -> Stage]
    BY <1>4 DEF TypeOK, Validate, Stage
  <2> QED BY <1>4, <2>2, <2>3 DEF TypeOK, Validate
<1>5. ASSUME NEW r \in Req, ReadClock(r) PROVE TypeOK'
  <2>1. clock' \in Nat /\ stamp' \in [Req -> Nat]
    BY <1>5 DEF TypeOK, ReadClock
  <2>2. stage' \in [Req -> Stage]
    BY <1>5 DEF TypeOK, ReadClock, Stage
  <2> QED BY <1>5, <2>1, <2>2 DEF TypeOK, ReadClock
<1>6. ASSUME NEW r \in Req, MarkAttempt(r) PROVE TypeOK'
  <2>1. status' \in Diagnostics
    BY <1>6 DEF TypeOK, MarkAttempt, Diagnostics
  <2>2. stage' \in [Req -> Stage] /\ stamp' \in [Req -> Nat]
    BY <1>6 DEF TypeOK, MarkAttempt, Stage
  <2> QED BY <1>6, <2>1, <2>2 DEF TypeOK, MarkAttempt
<1>7. ASSUME NEW r \in Req, Refuse(r) PROVE TypeOK'
  <2>1. stage' \in [Req -> Stage] /\ outcome' \in [Req -> Outcome]
    BY <1>7, FailsType DEF Refuse, Status0
  <2> QED BY <1>7, <2>1 DEF TypeOK, Refuse
<1>8. ASSUME NEW r \in Req, Call(r) PROVE TypeOK'
  BY <1>8 DEF TypeOK, Call, Stage
<1>9. ASSUME NEW r \in Req, Serve(r) PROVE TypeOK'
  BY <1>9 DEF TypeOK, Serve, Status0
<1>10. ASSUME NEW r \in Req, HeadersArrive(r) PROVE TypeOK'
  BY <1>10 DEF TypeOK, HeadersArrive, Stage
<1>11. ASSUME NEW r \in Req, CallFails(r) PROVE TypeOK'
  <2>1. stage' \in [Req -> Stage] /\ outcome' \in [Req -> Outcome]
    BY <1>11, FailsType DEF CallFails, Status0
  <2> QED BY <1>11, <2>1 DEF TypeOK, CallFails
<1>12. ASSUME NEW r \in Req, CallTimesOut(r) PROVE TypeOK'
  <2>1. stage' \in [Req -> Stage] /\ outcome' \in [Req -> Outcome]
    BY <1>12, FailsType DEF CallTimesOut, Status0
  <2> QED BY <1>12, <2>1 DEF TypeOK, CallTimesOut
<1>13. ASSUME NEW r \in Req, BodyArrives(r) PROVE TypeOK'
  <2>1. CASE Success(answer[r])
    <3>1. [outcome[r] EXCEPT !.upstream = answer[r]] \in Outcome
      BY <1>13 DEF TypeOK, Outcome
    <3>2. stage' \in [Req -> Stage] /\ outcome' \in [Req -> Outcome]
      BY <1>13, <2>1, <3>1 DEF TypeOK, BodyArrives, Stage
    <3> QED BY <1>13, <3>2 DEF TypeOK, BodyArrives
  <2>2. CASE ~ Success(answer[r])
    <3>1. proxyErrorFromUpstreamStatus(answer[r]) \in Code
      BY DEF proxyErrorFromUpstreamStatus
    <3>2. stage' \in [Req -> Stage] /\ outcome' \in [Req -> Outcome]
      BY <1>13, <2>2, <3>1, FailsType DEF TypeOK, BodyArrives
    <3> QED BY <1>13, <3>2 DEF TypeOK, BodyArrives
  <2> QED BY <2>1, <2>2
<1>14. ASSUME NEW r \in Req, BodyFails(r) PROVE TypeOK'
  <2>1. stage' \in [Req -> Stage] /\ outcome' \in [Req -> Outcome]
    BY <1>14, FailsType DEF TypeOK, BodyFails
  <2> QED BY <1>14, <2>1 DEF TypeOK, BodyFails
<1>15. ASSUME NEW r \in Req, BodyTimesOut(r) PROVE TypeOK'
  <2>1. stage' \in [Req -> Stage] /\ outcome' \in [Req -> Outcome]
    BY <1>15, FailsType DEF TypeOK, BodyTimesOut
  <2> QED BY <1>15, <2>1 DEF TypeOK, BodyTimesOut
<1>16. ASSUME NEW r \in Req, MarkFailure(r) PROVE TypeOK'
  <2>1. status' \in Diagnostics
    BY <1>16, OutcomeFields DEF TypeOK, MarkFailure, Diagnostics
  <2>2. stage' \in [Req -> Stage] /\ stamp' \in [Req -> Nat]
    BY <1>16 DEF TypeOK, MarkFailure, Stage
  <2> QED BY <1>16, <2>1, <2>2 DEF TypeOK, MarkFailure
<1>17. ASSUME NEW r \in Req, MarkSuccess(r) PROVE TypeOK'
  <2>1. status' \in Diagnostics
    BY <1>17, OutcomeFields DEF TypeOK, MarkSuccess, Diagnostics
  <2>2. stage' \in [Req -> Stage] /\ stamp' \in [Req -> Nat]
    BY <1>17 DEF TypeOK, MarkSuccess, Stage
  <2> QED BY <1>17, <2>1, <2>2 DEF TypeOK, MarkSuccess
<1>18. ASSUME NEW r \in Req, TrackNothing(r) PROVE TypeOK'
  BY <1>18 DEF TypeOK, TrackNothing, Stage
<1>19. ASSUME NEW r \in Req, TrackUsage(r) PROVE TypeOK'
  BY <1>19 DEF TypeOK, TrackUsage, Stage
<1>20. ASSUME NEW r \in Req, TrackCancelled(r) PROVE TypeOK'
  BY <1>20 DEF TypeOK, TrackCancelled, Stage
<1>21. ASSUME NEW r \in Req, TrackFails(r) PROVE TypeOK'
  BY <1>21, BoundIsNatural DEF TypeOK, TrackFails, Stage
<1>22. ASSUME NEW r \in Req, Reply(r) PROVE TypeOK'
  <2>1. reply' \in [Req -> Answers]
    BY <1>22, OutcomeFields, EnvelopeStatus, AnswerType DEF Reply
  <2>2. stage' \in [Req -> Stage]
    BY <1>22 DEF TypeOK, Reply, Stage
  <2> QED BY <1>22, <2>1, <2>2 DEF TypeOK, Reply
<1>23. CASE UNCHANGED vars
  BY <1>23 DEF TypeOK, vars
<1> QED
  BY <1>1, <1>2, <1>3, <1>4, <1>5, <1>6, <1>7, <1>8, <1>9, <1>10, <1>11, <1>12,
     <1>13, <1>14, <1>15, <1>16, <1>17, <1>18, <1>19, <1>20, <1>21, <1>22, <1>23
     DEF Next, Advance, Timeout, Outside, Rest

(* The variables have their types. *)
THEOREM TypeCorrect == Spec => []TypeOK
  BY InitType, TypePreserved, PTL DEF Spec

Access    == Untouched /\ Guarded /\ SpendingIsAuthorized
Decisions == Decided /\ Told /\ RefusalsSpendNothing
Usage     == Accounted /\ UsageIsReal /\ SuccessIsAccounted
Reported  == Attempted /\ DiagnosticsAreOneOutcome /\ DiagnosticsConsistent

(* Who gets to the provider: only what Auth has let through is in the      *)
(* handler, only what Refuse has not stopped is calling.                   *)
LEMMA AccessPreserved == TypeOK /\ Access /\ [Next]_vars => Access'
<1> USE DEF Access, Untouched, Guarded, SpendingIsAuthorized, Early, Engaged, Sent,
            NoError, NoOutcome
<1> SUFFICES ASSUME TypeOK, Access, [Next]_vars PROVE Access'
  OBVIOUS
<1>1. ASSUME NEW r \in Req, Send(r) PROVE Access'
  BY <1>1 DEF TypeOK, Send
<1>2. ASSUME NEW r \in Req, Leave(r) PROVE Access'
  BY <1>2 DEF TypeOK, Leave
<1>3. ASSUME NEW r \in Req, Auth(r) PROVE Access'
  BY <1>3 DEF TypeOK, Auth, Answer, Authorized
<1>4. ASSUME NEW r \in Req, Validate(r) PROVE Access'
  BY <1>4 DEF TypeOK, Validate, Answer
<1>5. ASSUME NEW r \in Req,
              \/ ReadClock(r) \/ MarkAttempt(r) \/ Call(r)
              \/ HeadersArrive(r) \/ MarkFailure(r) \/ MarkSuccess(r)
      PROVE Access'
  BY <1>5
     DEF TypeOK, ReadClock, MarkAttempt, Call, HeadersArrive, MarkFailure,
      MarkSuccess
<1>6. ASSUME NEW r \in Req,
              \/ Refuse(r) \/ CallFails(r) \/ CallTimesOut(r)
              \/ BodyFails(r) \/ BodyTimesOut(r)
      PROVE Access'
  BY <1>6
     DEF TypeOK, Refuse, CallFails, CallTimesOut, BodyFails, BodyTimesOut, Fails,
      NoOutcome
<1>7. ASSUME NEW r \in Req, BodyArrives(r) PROVE Access'
  BY <1>7 DEF TypeOK, BodyArrives, Fails, NoOutcome
<1>8. ASSUME NEW r \in Req, Serve(r) PROVE Access'
  BY <1>8 DEF TypeOK, Serve
<1>9. ASSUME NEW r \in Req,
              \/ TrackNothing(r) \/ TrackCancelled(r)
              \/ TrackFails(r) \/ TrackUsage(r)
      PROVE Access'
  BY <1>9 DEF TypeOK, TrackNothing, TrackCancelled, TrackFails, TrackUsage
<1>10. ASSUME NEW r \in Req, Reply(r) PROVE Access'
  BY <1>10 DEF TypeOK, Reply, Answer
<1>11. CASE UNCHANGED vars
  BY <1>11 DEF vars
<1> QED
  BY <1>1, <1>2, <1>3, <1>4, <1>5, <1>6, <1>7, <1>8, <1>9, <1>10, <1>11
     DEF Next, Advance, Timeout, Outside, Rest

(* An error of Forward: a code of the proxy, and a refusal only when the    *)
(* provider has not been called.                                           *)
LEMMA FailsDecides ==
  ASSUME TypeOK, Decisions, NEW r \in Req,
         NEW from \in {"route", "calling", "reading"},
         NEW code \in Code, NEW up, Fails(r, from, code, up),
         code \notin {"UNAUTHORIZED", NoError},
         code \in {"PROXY_DISABLED", "PROXY_NOT_CONFIGURED"} => served[r] = 0,
         UNCHANGED <<served, answer, rows, reply>>
  PROVE  Decisions'
<1> USE DEF Decisions, Decided, Told, RefusalsSpendNothing
<1>1. stage'[r] = "failed" /\ rows'[r] = 0 /\ outcome'[r].code = code
  BY DEF TypeOK, Fails
<1>2. \A q \in Req \ {r} : stage'[q] = stage[q] /\ outcome'[q] = outcome[q]
  BY DEF TypeOK, Fails
<1> QED BY <1>1, <1>2 DEF TypeOK

(* What Forward decides says what the provider has done. *)
LEMMA DecisionsPreserved == TypeOK /\ Access /\ Decisions /\ [Next]_vars => Decisions'
<1> USE DEF Decisions, Decided, Told, RefusalsSpendNothing
<1> SUFFICES ASSUME TypeOK, Access, Decisions, [Next]_vars PROVE Decisions'
  OBVIOUS
<1>1. ASSUME NEW r \in Req, Send(r) PROVE Decisions'
  BY <1>1, OutcomeFields
     DEF TypeOK, Send, Access, Untouched, Early, Engaged, NoError, NoOutcome
<1>2. ASSUME NEW r \in Req, Leave(r) PROVE Decisions'
  BY <1>2, OutcomeFields
     DEF TypeOK, Leave, Access, Untouched, Early, Engaged, NoError, NoOutcome
<1>3. ASSUME NEW r \in Req, Auth(r) PROVE Decisions'
  <2>1. \A q \in Req : reply'[q].status \in {401, 503} => served'[q] = 0
    BY <1>3
       DEF TypeOK, Auth, Answer, Access, Untouched, Early, Decisions,
        RefusalsSpendNothing, Authorized
  <2>2. Decided'
    BY <1>3 DEF TypeOK, Auth, Authorized, Answer
  <2>3. Told'
    <3>1. stage'[r] = "done" => reply'[r] = [status |-> 401, code |-> "UNAUTHORIZED"]
      BY <1>3 DEF TypeOK, Auth, Answer
    <3>2. toHTTPStatus("UNAUTHORIZED") = 401
      BY DEF toHTTPStatus
    <3>3. outcome[r] = NoOutcome /\ served[r] = 0
      BY <1>3 DEF Auth, Access, Untouched, Early
    <3>4. \A q \in Req \ {r} : stage'[q] = stage[q] /\ reply'[q] = reply[q]
      BY <1>3 DEF TypeOK, Auth, Answer
    <3>5. UNCHANGED <<outcome, served>>
      BY <1>3 DEF Auth
    <3> QED BY <3>1, <3>2, <3>3, <3>4, <3>5 DEF NoError
  <2> QED BY <2>1, <2>2, <2>3
<1>4. ASSUME NEW r \in Req, Validate(r) PROVE Decisions'
  <2>1. \A q \in Req : reply'[q].status \in {401, 503} => served'[q] = 0
    BY <1>4
       DEF TypeOK, Validate, Answer, Access, Untouched, Early, Decisions,
        RefusalsSpendNothing, toHTTPStatus
  <2>2. Decided'
    BY <1>4 DEF TypeOK, Validate
  <2>3. Told'
    BY <1>4 DEF TypeOK, Validate, Answer, Access, Untouched, Early, NoError
  <2> QED BY <2>1, <2>2, <2>3
<1>5. ASSUME NEW r \in Req,
              \/ ReadClock(r) \/ MarkAttempt(r) \/ Call(r)
              \/ HeadersArrive(r) \/ MarkFailure(r) \/ MarkSuccess(r)
      PROVE Decisions'
  BY <1>5, OutcomeFields
     DEF TypeOK, ReadClock, MarkAttempt, Call, HeadersArrive, MarkFailure,
      MarkSuccess, Access, Untouched, Early, Engaged, NoError, NoOutcome
<1>6. ASSUME NEW r \in Req, Refuse(r) PROVE Decisions'
  <2>1. served[r] = 0
    BY <1>6 DEF Refuse, Fails, Access, Untouched, Early
  <2>2. PICK code \in {"PROXY_DISABLED", "PROXY_NOT_CONFIGURED",
                      "PROXY_UPSTREAM_ERROR"} : Fails(r, "route", code, 0)
    BY <1>6 DEF Refuse
  <2> QED BY <1>6, <2>1, <2>2, FailsDecides, KnownCodes DEF Refuse, NoError
<1>7. ASSUME NEW r \in Req, CallFails(r) PROVE Decisions'
  BY <1>7, FailsDecides, KnownCodes DEF CallFails, NoError
<1>8. ASSUME NEW r \in Req, CallTimesOut(r) PROVE Decisions'
  BY <1>8, FailsDecides, KnownCodes DEF CallTimesOut, NoError
<1>9. ASSUME NEW r \in Req, BodyFails(r) PROVE Decisions'
  BY <1>9, FailsDecides, KnownCodes DEF BodyFails, NoError
<1>10. ASSUME NEW r \in Req, BodyTimesOut(r) PROVE Decisions'
  BY <1>10, FailsDecides, KnownCodes DEF BodyTimesOut, NoError
<1>11. ASSUME NEW r \in Req, BodyArrives(r) PROVE Decisions'
  <2>1. CASE Success(answer[r])
    <3>1. /\ outcome'[r].code = NoError /\ outcome'[r].upstream = answer[r]
          /\ stage'[r] = "okNow" /\ served[r] = 1 /\ rows[r] = 0
      BY <1>11, <2>1 DEF TypeOK, BodyArrives, Access, Untouched, NoOutcome, Outcome
    <3>2. \A q \in Req \ {r} : stage'[q] = stage[q] /\ outcome'[q] = outcome[q]
      BY <1>11, <2>1 DEF TypeOK, BodyArrives
    <3> QED BY <1>11, <2>1, <3>1, <3>2 DEF TypeOK, BodyArrives, NoError
  <2>2. CASE ~ Success(answer[r])
    <3>1. proxyErrorFromUpstreamStatus(answer[r]) \in
            {"VALIDATION_FAILED", "PROXY_UPSTREAM_ERROR"}
      BY DEF proxyErrorFromUpstreamStatus
    <3> QED BY <1>11, <2>2, <3>1, FailsDecides, KnownCodes DEF BodyArrives, NoError
  <2> QED BY <2>1, <2>2
<1>12. ASSUME NEW r \in Req, Serve(r) PROVE Decisions'
  <2>1. \/ outcome[r].code = NoError /\ stage[r] = "calling" /\ reply[r] = NoReply
        \/ outcome[r].code \in {"PROXY_TIMEOUT", "PROXY_UPSTREAM_ERROR"}
    BY <1>12 DEF Serve, Sent, Access, Untouched, NoOutcome
  <2>2. \A q \in Req \ {r} : served'[q] = served[q] /\ answer'[q] = answer[q]
    BY <1>12 DEF TypeOK, Serve
  <2>3. stage[r] = "done" => reply[r].status \in {502, 504}
    BY <2>1 DEF NoOutcome, toHTTPStatus, NoError
  <2>4. stage[r] # "done" => reply[r].status = 0
    BY DEF Access, Untouched, NoReply
  <2>5. UNCHANGED <<stage, outcome, rows, reply>> /\ served[r] = 0
    BY <1>12 DEF Serve
  <2>6. Decided'
    BY <2>1, <2>2, <2>5 DEF NoError
  <2>7. Told'
    BY <2>1, <2>2, <2>5 DEF NoError, NoOutcome
  <2> QED BY <2>2, <2>3, <2>4, <2>5, <2>6, <2>7
<1>13. ASSUME NEW r \in Req,
              \/ TrackNothing(r) \/ TrackCancelled(r)
              \/ TrackFails(r)
      PROVE Decisions'
  BY <1>13, OutcomeFields
     DEF TypeOK, TrackNothing, TrackCancelled, TrackFails, Access, Untouched,
      Early, Engaged, NoError, NoOutcome
<1>14. ASSUME NEW r \in Req, TrackUsage(r) PROVE Decisions'
  BY <1>14, OutcomeFields
     DEF TypeOK, TrackUsage, Access, Untouched, Early, Engaged, NoError, NoOutcome
<1>15. ASSUME NEW r \in Req, Reply(r) PROVE Decisions'
  <2>1. Decided'
    BY <1>15 DEF TypeOK, Reply
  <2>3. Told'
    <3>1. outcome[r] # NoOutcome
      BY <1>15 DEF Reply, Success, NoOutcome
    <3> QED BY <1>15, <3>1 DEF TypeOK, Reply, Answer
  <2>2. RefusalsSpendNothing'
    <3>1. CASE outcome[r].code = NoError
      <4>1. reply'[r].status = answer[r] /\ Success(answer[r])
        BY <1>15, <3>1 DEF TypeOK, Reply, Answer
      <4> QED BY <1>15, <4>1 DEF TypeOK, Reply, Answer, Success
    <3>2. CASE outcome[r].code # NoError
      <4>1. reply'[r].status = toHTTPStatus(outcome[r].code)
        BY <1>15, <3>2 DEF TypeOK, Reply, Answer
      <4>2. reply'[r].status \in {401, 503} => served[r] = 0
        BY <4>1, OutcomeFields, EnvelopeStatus
      <4> QED BY <1>15, <4>2 DEF TypeOK, Reply, Answer
    <3> QED BY <3>1, <3>2
  <2> QED BY <2>1, <2>2, <2>3
<1>16. CASE UNCHANGED vars
  BY <1>16 DEF vars
<1> QED
  BY <1>1, <1>2, <1>3, <1>4, <1>5, <1>6, <1>7, <1>8, <1>9, <1>10, <1>11, <1>12,
     <1>13, <1>14, <1>15, <1>16
     DEF Next, Advance, Timeout, Outside, Rest

(* The usage table agrees with what the provider has done and with what    *)
(* the clients are told.                                                   *)
LEMMA UsagePreserved == TypeOK /\ Access /\ Decisions /\ Usage /\ [Next]_vars => Usage'
<1> USE DEF Usage, Accounted, UsageIsReal, SuccessIsAccounted
<1> SUFFICES ASSUME TypeOK, Access, Decisions, Usage, [Next]_vars PROVE Usage'
  OBVIOUS
<1>1. ASSUME NEW r \in Req, Send(r) PROVE Usage'
  BY <1>1 DEF TypeOK, Send, Access, Untouched, Early, Engaged, Decisions, Decided
<1>2. ASSUME NEW r \in Req, Leave(r) PROVE Usage'
  BY <1>2 DEF TypeOK, Leave, Access, Untouched, Early, Engaged, Decisions, Decided
<1>3. ASSUME NEW r \in Req, Auth(r) PROVE Usage'
  BY <1>3
     DEF TypeOK, Auth, Access, Untouched, Early, Engaged, Decisions, Decided,
      Answer, Authorized, NoError
<1>4. ASSUME NEW r \in Req, Validate(r) PROVE Usage'
  BY <1>4
     DEF TypeOK, Validate, Access, Untouched, Early, Engaged, Decisions, Decided,
      Answer, toHTTPStatus, NoError
<1>5. ASSUME NEW r \in Req,
              \/ ReadClock(r) \/ MarkAttempt(r) \/ Call(r)
              \/ HeadersArrive(r) \/ MarkFailure(r) \/ MarkSuccess(r)
      PROVE Usage'
  BY <1>5
     DEF TypeOK, ReadClock, MarkAttempt, Call, HeadersArrive, MarkFailure,
      MarkSuccess, Access, Untouched, Early, Engaged, Decisions, Decided
<1>6. ASSUME NEW r \in Req,
              \/ Refuse(r) \/ CallFails(r) \/ CallTimesOut(r)
              \/ BodyFails(r) \/ BodyTimesOut(r)
      PROVE Usage'
  BY <1>6
     DEF TypeOK, Refuse, CallFails, CallTimesOut, BodyFails, BodyTimesOut,
      Access, Untouched, Early, Engaged, Decisions, Decided, Fails, NoError
<1>7. ASSUME NEW r \in Req, BodyArrives(r) PROVE Usage'
  BY <1>7
     DEF TypeOK, BodyArrives, Access, Untouched, Early, Engaged, Decisions,
      Decided, Fails, NoError
<1>8. ASSUME NEW r \in Req, Serve(r) PROVE Usage'
  <2>1. stage[r] # "done" => reply[r] = NoReply
    BY DEF Access, Untouched
  <2>2. stage[r] = "done" => reply[r].code # NoError
    BY <1>8 DEF Serve, Sent, Decisions, Told, NoOutcome, NoError
  <2>3. stage[r] = "reply" => outcome[r].code # NoError
    BY <1>8 DEF Serve, Sent, NoError
  <2>4. \A q \in Req \ {r} : /\ served'[q] = served[q] /\ answer'[q] = answer[q]
                            /\ usage'[q] = usage[q]
    BY <1>8 DEF TypeOK, Serve
  <2>5. UNCHANGED <<stage, gone, outcome, rows, storeErrors, reply>> /\ served[r] = 0
    BY <1>8 DEF Serve
  <2> QED BY <2>1, <2>2, <2>3, <2>4, <2>5 DEF TypeOK, NoReply
<1>9. ASSUME NEW r \in Req,
              \/ TrackNothing(r) \/ TrackCancelled(r)
              \/ TrackFails(r)
      PROVE Usage'
  BY <1>9
     DEF TypeOK, TrackNothing, TrackCancelled, TrackFails, Access, Untouched,
      Early, Engaged, Decisions, Decided
<1>10. ASSUME NEW r \in Req, TrackUsage(r) PROVE Usage'
  BY <1>10
     DEF TypeOK, TrackUsage, Access, Untouched, Early, Engaged, Decisions, Decided
<1>11. ASSUME NEW r \in Req, Reply(r) PROVE Usage'
  BY <1>11
     DEF TypeOK, Reply, Access, Untouched, Early, Engaged, Decisions, Decided,
      Answer, NoError
<1>12. CASE UNCHANGED vars
  BY <1>12 DEF vars
<1> QED
  BY <1>1, <1>2, <1>3, <1>4, <1>5, <1>6, <1>7, <1>8, <1>9, <1>10, <1>11, <1>12
     DEF Next, Advance, Timeout, Outside, Rest

(* The diagnostics show an attempt before any outcome, and one request's   *)
(* outcome at a time.                                                      *)
LEMMA ReportsPreserved == TypeOK /\ Access /\ Decisions /\ Reported /\ [Next]_vars => Reported'
<1> USE DEF Reported, Attempted, DiagnosticsAreOneOutcome, DiagnosticsConsistent,
            Finished, Engaged
<1> SUFFICES ASSUME TypeOK, Access, Decisions, Reported, [Next]_vars PROVE Reported'
  OBVIOUS
<1>1. ASSUME NEW r \in Req, Send(r) PROVE Reported'
  BY <1>1 DEF TypeOK, Send
<1>2. ASSUME NEW r \in Req, Leave(r) PROVE Reported'
  BY <1>2 DEF TypeOK, Leave
<1>3. ASSUME NEW r \in Req, Auth(r) PROVE Reported'
  BY <1>3 DEF TypeOK, Auth, Authorized, Answer
<1>4. ASSUME NEW r \in Req, Validate(r) PROVE Reported'
  BY <1>4 DEF TypeOK, Validate
<1>5. ASSUME NEW r \in Req, ReadClock(r) PROVE Reported'
  BY <1>5 DEF TypeOK, ReadClock
<1>6. ASSUME NEW r \in Req, MarkAttempt(r) PROVE Reported'
  BY <1>6 DEF TypeOK, MarkAttempt, Diagnostics
<1>7. ASSUME NEW r \in Req, Call(r) \/ HeadersArrive(r) PROVE Reported'
  BY <1>7 DEF TypeOK, Call, HeadersArrive
<1>8. ASSUME NEW r \in Req,
              \/ Refuse(r) \/ CallFails(r) \/ CallTimesOut(r)
              \/ BodyFails(r) \/ BodyTimesOut(r)
      PROVE Reported'
  BY <1>8
     DEF TypeOK, Refuse, CallFails, CallTimesOut, BodyFails, BodyTimesOut, Fails,
      Diagnostics
<1>9. ASSUME NEW r \in Req, BodyArrives(r) PROVE Reported'
  BY <1>9 DEF TypeOK, BodyArrives, Fails, Diagnostics
<1>10. ASSUME NEW r \in Req, Serve(r) PROVE Reported'
  BY <1>10 DEF TypeOK, Serve
<1>11. ASSUME NEW r \in Req, MarkFailure(r) PROVE Reported'
  BY <1>11 DEF TypeOK, MarkFailure, Diagnostics, Outcome
<1>12. ASSUME NEW r \in Req, MarkSuccess(r) PROVE Reported'
  BY <1>12 DEF TypeOK, MarkSuccess, Diagnostics, Outcome, Decisions, Decided
<1>13. ASSUME NEW r \in Req,
              \/ TrackNothing(r) \/ TrackCancelled(r)
              \/ TrackFails(r)
      PROVE Reported'
  BY <1>13 DEF TypeOK, TrackNothing, TrackCancelled, TrackFails
<1>14. ASSUME NEW r \in Req, TrackUsage(r) PROVE Reported'
  BY <1>14 DEF TypeOK, TrackUsage
<1>15. ASSUME NEW r \in Req, Reply(r) PROVE Reported'
  BY <1>15 DEF TypeOK, Reply
<1>16. CASE UNCHANGED vars
  BY <1>16 DEF vars
<1> QED
  BY <1>1, <1>2, <1>3, <1>4, <1>5, <1>6, <1>7, <1>8, <1>9, <1>10, <1>11, <1>12,
     <1>13, <1>14, <1>15, <1>16
     DEF Next, Advance, Timeout, Outside, Rest

(* The inductive invariant holds in every behaviour: what Auth and Forward *)
(* let through, what they decide, what is stored and what is shown.        *)
THEOREM Inductive == Spec => []IndInv
<1>1. Init => IndInv
  <2> SUFFICES ASSUME Init PROVE IndInv
    OBVIOUS
  <2>1. TypeOK
    BY InitType
  <2>2. Untouched /\ Guarded /\ Decided /\ Told /\ Accounted /\ Attempted
    BY DEF Init, Untouched, Guarded, Sent, Decided, Told, Accounted, Attempted, Early,
           Engaged, NoOutcome, NoError
  <2>3. /\ SpendingIsAuthorized /\ RefusalsSpendNothing /\ UsageIsReal
        /\ SuccessIsAccounted
    BY DEF Init, SpendingIsAuthorized, RefusalsSpendNothing, UsageIsReal,
           SuccessIsAccounted, NoReply
  <2>4. DiagnosticsAreOneOutcome /\ DiagnosticsConsistent
    BY DEF Init, DiagnosticsAreOneOutcome, DiagnosticsConsistent
  <2> QED BY <2>1, <2>2, <2>3, <2>4 DEF IndInv
<1>2. IndInv /\ [Next]_vars => IndInv'
  <2>1. IndInv <=> TypeOK /\ Access /\ Decisions /\ Usage /\ Reported
    BY DEF IndInv, Access, Decisions, Usage, Reported
  <2>2. IndInv' <=> TypeOK' /\ Access' /\ Decisions' /\ Usage' /\ Reported'
    BY DEF IndInv, Access, Decisions, Usage, Reported
  <2> QED
    BY <2>1, <2>2, TypePreserved, AccessPreserved, DecisionsPreserved,
       UsagePreserved, ReportsPreserved
<1> QED
  BY <1>1, <1>2, PTL DEF Spec

(* The provider is reached only with a configured and presented core       *)
(* token, the proxy enabled and a provider key.                            *)
THEOREM SpendingIsGuarded == Spec => []SpendingIsAuthorized
<1>1. IndInv => SpendingIsAuthorized
  BY DEF IndInv
<1> QED BY <1>1, Inductive, PTL

(* The refusals of the core, 401 and 503, cost nothing: no outcome of a    *)
(* call to the provider is answered with one of them.                      *)
THEOREM RefusalsAreFree == Spec => []RefusalsSpendNothing
<1>1. IndInv => RefusalsSpendNothing
  BY DEF IndInv
<1> QED BY <1>1, Inductive, PTL

(* A row of the usage table stands for one request that was served once,   *)
(* successfully.                                                           *)
THEOREM RowsAreReal == Spec => []UsageIsReal
<1>1. IndInv => UsageIsReal
  BY DEF IndInv
<1> QED BY <1>1, Inductive, PTL

(* A client that has waited for an answer with token counts finds its row, *)
(* unless an INSERT has failed.                                            *)
THEOREM UsageIsExact == Spec => []SuccessIsAccounted
<1>1. IndInv => SuccessIsAccounted
  BY DEF IndInv
<1> QED BY <1>1, Inductive, PTL

(* The last error and the last upstream status are those of one request.   *)
THEOREM DiagnosticsAreSound == Spec => []DiagnosticsAreOneOutcome
<1>1. IndInv => DiagnosticsAreOneOutcome
  BY DEF IndInv
<1> QED BY <1>1, Inductive, PTL

(* The diagnostics show no outcome before an attempt.                      *)
THEOREM AttemptsComeFirst == Spec => []DiagnosticsConsistent
<1>1. IndInv => DiagnosticsConsistent
  BY DEF IndInv
<1> QED BY <1>1, Inductive, PTL

-----------------------------------------------------------------------------
(* Of a step that neither calls the provider, nor writes a row, nor tells  *)
(* a client anything, Metering does not see anything.                      *)
LEMMA SilentStep ==
  ASSUME UNCHANGED <<served, rows, reply>>,
         \A q \in Req : stage'[q] = "done" <=> stage[q] = "done"
  PROVE  UNCHANGED Meter!vars
  BY DEF Meter!vars

(* The answer to a client is told once. *)
LEMMA AnswerTells ==
  ASSUME TypeOK, NEW r \in Req, NEW tale, stage[r] # "done",
         stage' = [stage EXCEPT ![r] = "done"], Tale(reply'[r].code) = tale,
         \A q \in Req \ {r} : reply'[q] = reply[q], UNCHANGED <<served, rows>>
  PROVE  Meter!Tell(r, tale)
<1>1. stage'[r] = "done" /\ \A q \in Req \ {r} : stage'[q] = stage[q]
  BY DEF TypeOK
<1> QED BY <1>1 DEF Meter!Tell

(* Every step of the proxy is a step of Metering, or nothing to it.        *)
LEMMA StepImplementsMetering == IndInv /\ [Next]_vars => [Meter!Next]_(Meter!vars)
<1> SUFFICES ASSUME IndInv, [Next]_vars PROVE [Meter!Next]_(Meter!vars)
  OBVIOUS
<1> USE DEF IndInv
<1>1. ASSUME NEW r \in Req, Send(r) \/ Leave(r) PROVE UNCHANGED Meter!vars
  BY <1>1, SilentStep DEF TypeOK, Send, Leave
<1>2. ASSUME NEW r \in Req, Auth(r) PROVE [Meter!Next]_(Meter!vars)
  <2>1. CASE Go(r, "auth", "handler") /\ UNCHANGED reply
    BY <1>2, <2>1, SilentStep DEF TypeOK, Auth
  <2>2. CASE Go(r, "auth", "done") /\ Answer(r, 401, "UNAUTHORIZED")
    <3>1. Tale("UNAUTHORIZED") = "refused"
      BY DEF Tale, Refusals, NoError
    <3>2. served[r] = 0
      BY <2>2 DEF Untouched, Early
    <3>3. reply'[r].code = "UNAUTHORIZED" /\ \A q \in Req \ {r} : reply'[q] = reply[q]
      BY <2>2 DEF TypeOK, Answer
    <3>4. Meter!Tell(r, "refused")
      BY <1>2, <2>2, <3>1, <3>3, AnswerTells DEF Auth
    <3> QED BY <3>2, <3>4 DEF Meter!Next, Meter!Refuse
  <2> QED BY <1>2, <2>1, <2>2 DEF Auth
<1>3. ASSUME NEW r \in Req, Validate(r) PROVE [Meter!Next]_(Meter!vars)
  <2>1. CASE Go(r, "handler", "now") /\ UNCHANGED reply
    BY <1>3, <2>1, SilentStep DEF TypeOK, Validate
  <2>2. CASE /\ Go(r, "handler", "done")
             /\ Answer(r, toHTTPStatus("VALIDATION_FAILED"), "VALIDATION_FAILED")
    <3>1. Tale("VALIDATION_FAILED") = "failed"
      BY DEF Tale, Refusals, NoError
    <3>2. rows[r] = 0
      BY <2>2 DEF Untouched, Early
    <3>3. /\ reply'[r].code = "VALIDATION_FAILED"
          /\ \A q \in Req \ {r} : reply'[q] = reply[q]
      BY <2>2 DEF TypeOK, Answer
    <3>4. Meter!Tell(r, "failed")
      BY <1>3, <2>2, <3>1, <3>3, AnswerTells DEF Validate
    <3> QED BY <3>2, <3>4 DEF Meter!Next, Meter!Fail
  <2> QED BY <1>3, <2>1, <2>2 DEF Validate
<1>4. ASSUME NEW r \in Req,
              \/ ReadClock(r) \/ MarkAttempt(r) \/ Call(r)
              \/ HeadersArrive(r) \/ MarkFailure(r) \/ MarkSuccess(r)
      PROVE UNCHANGED Meter!vars
  BY <1>4, SilentStep
     DEF TypeOK, ReadClock, MarkAttempt, Call, HeadersArrive, MarkFailure, MarkSuccess
<1>5. ASSUME NEW r \in Req,
              \/ Refuse(r) \/ CallFails(r) \/ CallTimesOut(r)
              \/ BodyArrives(r) \/ BodyFails(r) \/ BodyTimesOut(r)
      PROVE UNCHANGED Meter!vars
  BY <1>5, SilentStep
     DEF TypeOK, Refuse, CallFails, CallTimesOut, BodyArrives, BodyFails,
      BodyTimesOut, Fails
<1>6. ASSUME NEW r \in Req, Serve(r) PROVE Meter!Charge(r)
  <2>1. stage[r] = "done" => Tale(reply[r].code) = "failed"
    BY <1>6 DEF Serve, Sent, Told, NoOutcome, NoError, Tale, Refusals
  <2>2. {q \in Req : served'[q] > 0} = {q \in Req : served[q] > 0} \cup {r}
    BY <1>6 DEF TypeOK, Serve
  <2>3. UNCHANGED <<stage, rows, reply>> /\ ~ (served[r] > 0)
    BY <1>6 DEF Serve
  <2> QED BY <2>1, <2>2, <2>3 DEF Meter!Charge
<1>7. ASSUME NEW r \in Req, TrackNothing(r) \/ TrackCancelled(r) \/ TrackFails(r)
      PROVE UNCHANGED Meter!vars
  BY <1>7, SilentStep DEF TypeOK, TrackNothing, TrackCancelled, TrackFails
<1>8. ASSUME NEW r \in Req, TrackUsage(r) PROVE Meter!Record(r)
  <2>1. stage[r] = "track" /\ rows[r] = 0 /\ served[r] = 1
    BY <1>8 DEF TrackUsage, Decided
  <2>2. {q \in Req : rows'[q] > 0} = {q \in Req : rows[q] > 0} \cup {r}
    BY <1>8, <2>1 DEF TypeOK, TrackUsage
  <2>3. UNCHANGED <<served, reply>>
    BY <1>8 DEF TrackUsage
  <2>4. \A q \in Req : stage'[q] = "done" <=> stage[q] = "done"
    BY <1>8 DEF TypeOK, TrackUsage
  <2> QED BY <2>1, <2>2, <2>3, <2>4 DEF Meter!Record
<1>9. ASSUME NEW r \in Req, Reply(r) PROVE Meter!Next
  <2>1. /\ reply'[r].code = outcome[r].code
        /\ \A q \in Req \ {r} : reply'[q] = reply[q]
    BY <1>9 DEF TypeOK, Reply, Answer
  <2>2. /\ stage[r] = "reply" /\ stage' = [stage EXCEPT ![r] = "done"]
        /\ UNCHANGED <<served, rows>>
    BY <1>9 DEF Reply
  <2>3. ASSUME NEW tale, Tale(outcome[r].code) = tale PROVE Meter!Tell(r, tale)
    BY <2>1, <2>2, <2>3, AnswerTells
  <2>4. CASE outcome[r].code = NoError
    <3>1. served[r] = 1
      BY <2>2, <2>4 DEF Decided
    <3>2. Meter!Tell(r, "answer")
      BY <2>3, <2>4 DEF Tale, Refusals, NoError
    <3> QED BY <3>1, <3>2 DEF Meter!Next, Meter!Deliver
  <2>5. CASE outcome[r].code # NoError /\ outcome[r].code \in Refusals
    <3>1. served[r] = 0
      BY <2>5 DEF Decided, Refusals
    <3>2. Meter!Tell(r, "refused")
      BY <2>3, <2>5 DEF Tale
    <3> QED BY <3>1, <3>2 DEF Meter!Next, Meter!Refuse
  <2>6. CASE outcome[r].code # NoError /\ outcome[r].code \notin Refusals
    <3>1. rows[r] = 0
      BY <2>6 DEF Decided
    <3>2. Meter!Tell(r, "failed")
      BY <2>3, <2>6 DEF Tale
    <3> QED BY <3>1, <3>2 DEF Meter!Next, Meter!Fail
  <2> QED BY <2>4, <2>5, <2>6
<1>10. CASE UNCHANGED vars
  BY <1>10, SilentStep DEF vars
<1> QED
  BY <1>1, <1>2, <1>3, <1>4, <1>5, <1>6, <1>7, <1>8, <1>9, <1>10
     DEF Next, Advance, Timeout, Outside, Rest, Meter!Next

(* The proxy keeps the books as Metering promises, for any number of       *)
(* requests, whatever the provider, the network and the store do.          *)
THEOREM KeepsTheBooks == Spec => ImplementsMetering
<1>1. Init => Meter!Init
  BY DEF Init, Meter!Init
<1> QED
  BY <1>1, StepImplementsMetering, Inductive, PTL DEF Spec, ImplementsMetering, Meter!Spec

(* So charges, rows and what the clients are told agree at any time: what  *)
(* is recorded has been charged, what is refused is never charged, and no  *)
(* row is left of a call that the client was told has failed.              *)
THEOREM BooksOfTheProxyAgree == Spec => []Meter!BooksAgree
  BY KeepsTheBooks, Meter!BooksAlwaysAgree, PTL DEF ImplementsMetering
=============================================================================
