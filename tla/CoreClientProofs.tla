-------------------------- MODULE CoreClientProofs --------------------------
(***************************************************************************)
(* Proofs about CoreClient, for any number of clients, any commands, any   *)
(* configurations and tokens, and whatever else may answer: IndInv is      *)
(* inductive, and with it what the exit code, the doctor's report and the  *)
(* log say.                                                                *)
(***************************************************************************)
EXTENDS CoreClient, TLAPS

USE DEF life, handling, result, witnesses

-----------------------------------------------------------------------------
(* The envelopes of the three codes a read request may be refused with. *)
LEMMA Envelopes ==
  /\ Envelope("UNAUTHORIZED") =
       [status |-> 401, code |-> "UNAUTHORIZED", json |-> TRUE, enabled |-> FALSE]
  /\ Envelope("VALIDATION_FAILED") =
       [status |-> 400, code |-> "VALIDATION_FAILED", json |-> TRUE, enabled |-> FALSE]
  /\ Envelope("STORAGE_QUERY_ERROR") =
       [status |-> 500, code |-> "STORAGE_QUERY_ERROR", json |-> TRUE, enabled |-> FALSE]
<1>1. toHTTPStatus("UNAUTHORIZED") = 401
  BY DEF toHTTPStatus
<1>2. toHTTPStatus("VALIDATION_FAILED") = 400
  BY DEF toHTTPStatus
<1>3. toHTTPStatus("STORAGE_QUERY_ERROR") = 500
  BY DEF toHTTPStatus
<1> QED BY <1>1, <1>2, <1>3 DEF Envelope

(* A refusal is an error to the client, and a payload is none. *)
LEMMA Refusals ==
  ASSUME NEW x \in {"UNAUTHORIZED", "VALIDATION_FAILED", "STORAGE_QUERY_ERROR"}
  PROVE  /\ Envelope(x) \in Answer /\ Envelope(x) # NoAnswer
         /\ Envelope(x).code = x /\ x # NoError /\ Envelope(x).status # 200
         /\ decoded(Envelope(x)) = x
<1>1. PICK s \in {400, 401, 500} :
        Envelope(x) = [status |-> s, code |-> x, json |-> TRUE, enabled |-> FALSE]
  BY Envelopes
<1>2. x \in Codes /\ x # NoError
  BY DEF Codes, NoError
<1>3. Envelope(x).status = s /\ Envelope(x).code = x
  BY <1>1
<1>4. Envelope(x) \in Answer
  BY <1>1, <1>2 DEF Answer, ClientCodes
<1>5. Envelope(x) # NoAnswer
  BY <1>3 DEF NoAnswer
<1>6. decoded(Envelope(x)) = x
  BY <1>2, <1>3 DEF decoded, errorFromResponse
<1> QED BY <1>2, <1>3, <1>4, <1>5, <1>6

LEMMA Payloads ==
  ASSUME NEW e \in BOOLEAN
  PROVE  /\ Payload(e) \in Answer /\ Payload(e) # NoAnswer
         /\ Payload(e).code = NoError /\ Payload(e).status = 200 /\ Payload(e).enabled = e
         /\ decoded(Payload(e)) = NoError
  BY DEF Payload, Answer, NoAnswer, ClientCodes, Codes, NoError, decoded

(* What a core may answer, as a client takes it. *)
LEMMA Answers ==
  ASSUME NEW c \in Client, NEW k \in CoreConfigs,
         NEW a \in Possible(path[c], command[c], k)
  PROVE  /\ a \in Answer /\ a # NoAnswer /\ decoded(a) = a.code
         /\ a.code = NoError => Authorized(k, command[c].token)
         /\ path[c] \in {"status", "proxy status"} =>
               (Authorized(k, command[c].token) => a.code = NoError)
         /\ path[c] = "proxy status" /\ a.code = NoError => a.enabled = k.enabled
<1>1. k.enabled \in BOOLEAN
  BY ConfigsAreConfigs DEF CoreConfig
<1>2. CASE ~ Authorized(k, command[c].token)
  BY <1>2, Refusals DEF Possible
<1>3. CASE Authorized(k, command[c].token)
  <2>1. a \in Handled(path[c], command[c], k)
    BY <1>3 DEF Possible
  <2>2. CASE path[c] = "status"
    BY <1>3, <2>1, <2>2, Payloads DEF Handled
  <2>3. CASE path[c] = "proxy status"
    BY <1>1, <1>3, <2>1, <2>3, Payloads DEF Handled
  <2>4. CASE path[c] \notin {"status", "proxy status"}
    <3>1. a \in {Payload(FALSE), Envelope("STORAGE_QUERY_ERROR"), Envelope("VALIDATION_FAILED")}
      BY <2>1, <2>4 DEF Handled
    <3>2. a \in Answer /\ a # NoAnswer /\ decoded(a) = a.code
      <4>1. CASE a = Payload(FALSE)
        BY <4>1, Payloads
      <4>2. ASSUME NEW x \in {"STORAGE_QUERY_ERROR", "VALIDATION_FAILED"}, a = Envelope(x)
            PROVE  a \in Answer /\ a # NoAnswer /\ decoded(a) = a.code
        BY <4>2, Refusals
      <4> QED BY <3>1, <4>1, <4>2
    <3> QED BY <1>3, <2>4, <3>2
  <2> QED BY <2>2, <2>3, <2>4
<1> QED BY <1>2, <1>3

-----------------------------------------------------------------------------
(* Whatever answers, the code that GetJSON makes of it is a code. *)
LEMMA CodesAreCodes ==
  ASSUME NEW a \in Answer
  PROVE  decoded(a) \in ClientCodes
<1>1. codeFromStatus(a.status) \in Codes
  BY DEF codeFromStatus, Codes
<1>2. "CONNECTION_REFUSED" \in Codes
  BY DEF Codes
<1>3. a.code \in ClientCodes
  BY DEF Answer
<1> QED BY <1>1, <1>2, <1>3 DEF decoded, errorFromResponse, ClientCodes

(* What a core makes of a request is an answer. *)
LEMMA HandledIsAnswer ==
  ASSUME NEW p \in Paths, NEW cmd \in Commands, NEW k \in CoreConfigs,
         NEW a \in Handled(p, cmd, k)
  PROVE  a \in Answer
<1>1. k.enabled \in BOOLEAN
  BY ConfigsAreConfigs DEF CoreConfig
<1>2. \/ a \in {Payload(FALSE), Payload(k.enabled)}
      \/ a \in {Envelope("STORAGE_QUERY_ERROR"), Envelope("VALIDATION_FAILED")}
  BY DEF Handled
<1>3. CASE a \in {Payload(FALSE), Payload(k.enabled)}
  BY <1>1, <1>3, Payloads
<1>4. CASE a \in {Envelope("STORAGE_QUERY_ERROR"), Envelope("VALIDATION_FAILED")}
  BY <1>4, Refusals
<1> QED BY <1>2, <1>3, <1>4

LEMMA ReturnsTypes ==
  ASSUME TypeOK, NEW c \in Client, NEW x \in ClientCodes, NEW e \in BOOLEAN,
         Returns(c, x, e)
  PROVE  /\ stage' \in [Client -> {"idle", "send", "wait", "done"}]
         /\ path' \in [Client -> Paths]
         /\ answer' \in [Client -> Answer \cup {NoAnswer}]
         /\ code' \in [Client -> ClientCodes]
         /\ report' \in [Client -> Report]
<1>1. stage' \in [Client -> {"idle", "send", "wait", "done"}]
  BY DEF TypeOK, Returns
<1>6. path' \in [Client -> Paths]
  BY DEF TypeOK, Returns, Paths
<1>7. answer' \in [Client -> Answer \cup {NoAnswer}]
  BY DEF TypeOK, Returns, Sent
<1>8. code' \in [Client -> ClientCodes]
  <2>1. code' = code \/ code' = [code EXCEPT ![c] = x]
    BY Zenon DEF Returns
  <2> QED BY <2>1 DEF TypeOK
<1> DEFINE again  == command[c].name = "doctor" /\ path[c] = "status"
           second == command[c].name = "doctor" /\ path[c] = "proxy status"
           runs   == IF again THEN x = NoError \/ runningDespite(x) ELSE report[c].running
           good   == second /\ x = NoError
           on     == second /\ x = NoError /\ e
<1>2. report' = [report EXCEPT ![c] =
                   [running |-> runs, reachable |-> good, enabled |-> on, passed |-> good]]
  BY DEF Returns
<1>3. runs \in BOOLEAN /\ good \in BOOLEAN /\ on \in BOOLEAN
  BY DEF TypeOK, Report, runningDespite
<1> HIDE DEF runs, good, on
<1>4. [running |-> runs, reachable |-> good, enabled |-> on, passed |-> good] \in Report
  BY <1>3 DEF Report
<1>5. report' \in [Client -> Report]
  BY <1>2, <1>4 DEF TypeOK
<1> QED BY <1>1, <1>5, <1>6, <1>7, <1>8

LEMMA LogsTypes ==
  ASSUME TypeOK, NEW c \in Client, NEW by \in {"auth", "start", "handler", "finish"},
         NEW s \in {0} \cup 200..599, Logs(c, by, s)
  PROVE  log' \in [Client -> SUBSET Line]
<1>1. Traced(by) \in BOOLEAN
  BY DEF Traced
<1>2. [by |-> by, status |-> s, traced |-> Traced(by)] \in Line
  BY <1>1 DEF Line
<1> QED BY <1>2 DEF TypeOK, Logs

LEMMA TypeStep == TypeOK /\ [Next]_vars => TypeOK'
<1> SUFFICES ASSUME TypeOK, [Next]_vars PROVE TypeOK'
  OBVIOUS
<1>1. CASE Start
  BY <1>1 DEF TypeOK, Start
<1>2. CASE Drain
  BY <1>2 DEF TypeOK, Drain, Unsteady
<1>3. CASE Stop
  BY <1>3 DEF TypeOK, Stop, Unsteady
<1>4. CASE UNCHANGED vars
  BY <1>4 DEF TypeOK, vars
<1>5. ASSUME NEW c \in Client, Run(c)
      PROVE  TypeOK'
  <2>1. command[c].name \in Paths \cup {"doctor"} /\ command[c].url \in BOOLEAN
    BY CommandsAreCommands DEF TypeOK, Command
  <2>2. path' \in [Client -> Paths]
    BY <1>5, <2>1 DEF TypeOK, Run, Paths
  <2> QED BY <1>5, <2>2 DEF TypeOK, Run
<1>6. ASSUME NEW c \in Client, Send(c)
      PROVE  TypeOK'
  BY <1>6 DEF TypeOK, Send
<1>7. ASSUME NEW c \in Client, StrangerAnswers(c)
      PROVE  TypeOK'
  BY <1>7, StrangersAnswer DEF TypeOK, StrangerAnswers, Sent
<1>8. ASSUME NEW c \in Client, Refused(c)
      PROVE  TypeOK'
  <2>1. "CONNECTION_REFUSED" \in ClientCodes
    BY DEF ClientCodes, Codes
  <2> QED BY <1>8, <2>1, ReturnsTypes DEF TypeOK, Refused
<1>9. ASSUME NEW c \in Client, GivesUp(c)
      PROVE  TypeOK'
  <2>1. "CONNECTION_REFUSED" \in ClientCodes
    BY DEF ClientCodes, Codes
  <2> QED BY <1>9, <2>1, ReturnsTypes DEF TypeOK, GivesUp
<1>10. ASSUME NEW c \in Client, Receive(c)
       PROVE  TypeOK'
  <2>1. answer[c] \in Answer
    BY <1>10 DEF TypeOK, Receive
  <2>2. answer[c].enabled \in BOOLEAN
    BY <2>1 DEF Answer
  <2>3. decoded(answer[c]) \in ClientCodes
    BY <2>1, CodesAreCodes
  <2>4. Returns(c, decoded(answer[c]), answer[c].enabled)
    BY <1>10 DEF Receive
  <2>5. /\ stage' \in [Client -> {"idle", "send", "wait", "done"}]
        /\ path' \in [Client -> Paths]
        /\ answer' \in [Client -> Answer \cup {NoAnswer}]
        /\ code' \in [Client -> ClientCodes]
        /\ report' \in [Client -> Report]
    BY <2>2, <2>3, <2>4, ReturnsTypes
  <2> QED BY <1>10, <2>5 DEF TypeOK, Receive
<1>11. ASSUME NEW c \in Client, AuthPasses(c)
       PROVE  TypeOK'
  BY <1>11 DEF TypeOK, AuthPasses, Go
<1>12. ASSUME NEW c \in Client, AuthRefuses(c)
       PROVE  TypeOK'
  <2>1. log' \in [Client -> SUBSET Line]
    BY <1>12, LogsTypes DEF AuthRefuses
  <2>2. Envelope("UNAUTHORIZED") \in Answer
    BY Refusals
  <2> QED BY <1>12, <2>1, <2>2 DEF TypeOK, AuthRefuses, Go, Sent
<1>13. ASSUME NEW c \in Client, LogStart(c)
       PROVE  TypeOK'
  <2>1. log' \in [Client -> SUBSET Line]
    BY <1>13, LogsTypes DEF LogStart
  <2> QED BY <1>13, <2>1 DEF TypeOK, LogStart, Go
<1>14. ASSUME NEW c \in Client, RequestID(c)
       PROVE  TypeOK'
  BY <1>14 DEF TypeOK, RequestID, Go
<1>15. ASSUME NEW c \in Client, Handle(c)
       PROVE  TypeOK'
  <2>1. PICK a \in Handled(path[c], command[c], config) :
          /\ made' = [made EXCEPT ![c] = a]
          /\ UNCHANGED answer \/ answer' = [answer EXCEPT ![c] = a]
    BY <1>15 DEF Handle, Sent
  <2>3. a \in Answer
    <3>1. path[c] \in Paths /\ command[c] \in Commands /\ config \in CoreConfigs
      BY DEF TypeOK
    <3> QED BY <2>1, <3>1, HandledIsAnswer
  <2>2. log' \in [Client -> SUBSET Line]
    <3>1. CASE Logs(c, "handler", 0)
      BY <3>1, LogsTypes
    <3>2. CASE UNCHANGED log
      BY <3>2 DEF TypeOK
    <3> QED BY <1>15, <3>1, <3>2 DEF Handle
  <2>4. /\ made' \in [Client -> Answer \cup {NoAnswer}]
        /\ answer' \in [Client -> Answer \cup {NoAnswer}]
    BY <2>1, <2>3 DEF TypeOK
  <2>5. at' \in [Client -> {"none", "auth", "start", "id", "handle", "finish"}]
    BY <1>15 DEF TypeOK, Handle, Go
  <2>6. core = "down" => \A d \in Client : at'[d] = "none"
    BY <1>15 DEF TypeOK, Handle, Go
  <2>7. UNCHANGED <<core, config, stage, command, path, code, report, lived, steady, strange>>
    BY <1>15 DEF Handle
  <2> QED BY <2>2, <2>4, <2>5, <2>6, <2>7 DEF TypeOK
<1>16. ASSUME NEW c \in Client, LogFinish(c)
       PROVE  TypeOK'
  <2>1. made[c].status \in {0} \cup 200..599
    BY DEF TypeOK, Answer, NoAnswer
  <2>2. log' \in [Client -> SUBSET Line]
    BY <1>16, <2>1, LogsTypes DEF LogFinish
  <2> QED BY <1>16, <2>2 DEF TypeOK, LogFinish, Go, Sent
<1> QED
  BY <1>1, <1>2, <1>3, <1>4, <1>5, <1>6, <1>7, <1>8, <1>9, <1>10, <1>11, <1>12,
     <1>13, <1>14, <1>15, <1>16 DEF Next, Rest, Proceed, Chain

LEMMA TypeInit == Init => TypeOK
  BY DEF Init, TypeOK, Paths, NoReport, Report, NoAnswer, ClientCodes, NoError

(* The variables have their types, and only a living core handles. *)
THEOREM TypeCorrect == Spec => []TypeOK
  BY TypeInit, TypeStep, PTL DEF Spec

-----------------------------------------------------------------------------
(* What Returns does: the doctor goes on after a good first answer, and    *)
(* every other command ends.                                               *)
Again(c, x) == Doctor(c) /\ path[c] = "status" /\ x = NoError

LEMMA ReturnsMoves ==
  ASSUME TypeOK, NEW c \in Client, NEW x, NEW e, Returns(c, x, e)
  PROVE  \/ /\ Again(c, x)
            /\ stage' = [stage EXCEPT ![c] = "send"]
            /\ path' = [path EXCEPT ![c] = "proxy status"]
            /\ answer' = [answer EXCEPT ![c] = NoAnswer]
            /\ code' = code
         \/ /\ ~ Again(c, x)
            /\ stage' = [stage EXCEPT ![c] = "done"]
            /\ path' = path /\ answer' = answer
            /\ code' = [code EXCEPT ![c] = x]
  BY Zenon DEF Returns, Again, Doctor, Sent

LEMMA ReturnsReport ==
  ASSUME TypeOK, NEW c \in Client, NEW x, NEW e, Returns(c, x, e)
  PROVE  /\ \A d \in Client \ {c} : report'[d] = report[d]
         /\ Doctor(c) /\ path[c] = "status" =>
               /\ report'[c].running <=> x = NoError \/ runningDespite(x)
               /\ ~ report'[c].reachable /\ ~ report'[c].enabled /\ ~ report'[c].passed
         /\ Doctor(c) /\ path[c] = "proxy status" =>
               /\ report'[c].running <=> report[c].running
               /\ report'[c].reachable <=> x = NoError
               /\ report'[c].enabled <=> x = NoError /\ e
               /\ report'[c].passed <=> x = NoError
<1> DEFINE again  == command[c].name = "doctor" /\ path[c] = "status"
           second == command[c].name = "doctor" /\ path[c] = "proxy status"
           runs   == IF again THEN x = NoError \/ runningDespite(x) ELSE report[c].running
           good   == second /\ x = NoError
           on     == second /\ x = NoError /\ e
<1>1. report' = [report EXCEPT ![c] =
                   [running |-> runs, reachable |-> good, enabled |-> on, passed |-> good]]
  BY DEF Returns
<1> HIDE DEF runs, good, on
<1>2. /\ report'[c].running = runs /\ report'[c].reachable = good
      /\ report'[c].enabled = on /\ report'[c].passed = good
      /\ \A d \in Client \ {c} : report'[d] = report[d]
  BY <1>1 DEF TypeOK
<1>3. CASE Doctor(c) /\ path[c] = "status"
  <2>1. (runs <=> x = NoError \/ runningDespite(x)) /\ ~ good /\ ~ on
    BY <1>3 DEF Doctor, runs, good, on
  <2> QED BY <1>2, <1>3, <2>1
<1>4. CASE Doctor(c) /\ path[c] = "proxy status"
  <2>1. /\ runs = report[c].running
        /\ good <=> x = NoError
        /\ on <=> x = NoError /\ e
    BY <1>4 DEF Doctor, runs, good, on
  <2> QED BY <1>2, <1>4, <2>1
<1> QED BY <1>2, <1>3, <1>4

(* GetJSON returns in three ways. *)
Ends(c) == Refused(c) \/ GivesUp(c) \/ Receive(c)

(* What the answer that GetJSON has read tells of the core. *)
LEMMA Received ==
  ASSUME TypeOK, AnswersAreGenuine, NEW c \in Client, answer[c] # NoAnswer, ~ strange[c]
  PROVE  \E k \in lived[c] :
            /\ decoded(answer[c]) = answer[c].code
            /\ answer[c].code = NoError => Authorized(k, command[c].token)
            /\ path[c] \in {"status", "proxy status"} =>
                  (Authorized(k, command[c].token) => answer[c].code = NoError)
            /\ path[c] = "proxy status" /\ answer[c].code = NoError =>
                  answer[c].enabled = k.enabled
<1>1. PICK k \in lived[c] : answer[c] \in Possible(path[c], command[c], k)
  BY DEF AnswersAreGenuine
<1>2. k \in CoreConfigs
  BY <1>1 DEF TypeOK
<1>3. decoded(answer[c]) = answer[c].code
  BY <1>1, <1>2, Answers
<1>4. answer[c].code = NoError => Authorized(k, command[c].token)
  BY <1>1, <1>2, Answers
<1>5. path[c] \in {"status", "proxy status"} =>
         (Authorized(k, command[c].token) => answer[c].code = NoError)
  BY <1>1, <1>2, Answers
<1>6. path[c] = "proxy status" /\ answer[c].code = NoError =>
         answer[c].enabled = k.enabled
  BY <1>1, <1>2, Answers
<1> QED BY <1>1, <1>3, <1>4, <1>5, <1>6

(* A refused request is known by its code not to have missed the core. *)
LEMMA Refusal ==
  ASSUME TypeOK, AnswersAreGenuine, NEW c \in Client, answer[c] # NoAnswer, ~ strange[c],
         path[c] = "status", answer[c].code # NoError
  PROVE  answer[c].code = "UNAUTHORIZED"
<1>1. PICK k \in lived[c] : answer[c] \in Possible(path[c], command[c], k)
  BY DEF AnswersAreGenuine
<1>2. answer[c] = Payload(FALSE) \/ answer[c] = Envelope("UNAUTHORIZED")
  BY <1>1 DEF Possible, Handled
<1>3. Payload(FALSE).code = NoError
  BY Payloads
<1>4. Envelope("UNAUTHORIZED").code = "UNAUTHORIZED"
  BY Refusals
<1> QED BY <1>2, <1>3, <1>4

(* The log only grows, by the line that is written. *)
LEMMA Logged ==
  ASSUME TypeOK, NEW c \in Client, NEW by, NEW s, Logs(c, by, s)
  PROVE  /\ \A d \in Client : log[d] \subseteq log'[d]
         /\ \E l \in log'[c] : l.by = by /\ l.status = s
<1>1. log' = [log EXCEPT ![c] =
          log[c] \cup {[by |-> by, status |-> s, traced |-> Traced(by)]}]
  BY DEF Logs
<1> DEFINE l == [by |-> by, status |-> s, traced |-> Traced(by)]
<1>2. l.by = by /\ l.status = s
  OBVIOUS
<1> HIDE DEF l
<1>3. log'[c] = log[c] \cup {l} /\ \A d \in Client \ {c} : log'[d] = log[d]
  BY <1>1 DEF TypeOK, l
<1> QED BY <1>2, <1>3

(* How a command goes on after GetJSON has returned, or ends. *)
GoesOn(c) ==
    /\ stage' = [stage EXCEPT ![c] = "send"]
    /\ path' = [path EXCEPT ![c] = "proxy status"]
    /\ answer' = [answer EXCEPT ![c] = NoAnswer]
    /\ code' = code
IsDone(c, x) ==
    /\ stage' = [stage EXCEPT ![c] = "done"]
    /\ path' = path /\ answer' = answer
    /\ code' = [code EXCEPT ![c] = x]

(* What the report of a doctor becomes when GetJSON has returned x. *)
Told(c, x) ==
    /\ \A d \in Client \ {c} : report'[d] = report[d]
    /\ Doctor(c) /\ path[c] = "status" =>
          /\ report'[c].running <=> x = NoError \/ runningDespite(x)
          /\ ~ report'[c].reachable /\ ~ report'[c].enabled /\ ~ report'[c].passed
    /\ Doctor(c) /\ path[c] = "proxy status" =>
          /\ report'[c].running <=> report[c].running
          /\ report'[c].reachable <=> x = NoError
          /\ report'[c].enabled <=> x = NoError /\ answer[c].enabled
          /\ report'[c].passed <=> x = NoError

(* The core's side is left alone, and the code is that of the answer, or   *)
(* of a connection that a steady core would not have refused or broken.    *)
LEMMA EndsMoves ==
  ASSUME IndInv, NEW c \in Client, Ends(c)
  PROVE  /\ stage[c] \in {"send", "wait"}
         /\ UNCHANGED <<core, config, command, at, made, log, lived, strange>>
         /\ steady' = steady \/ steady' = [steady EXCEPT ![c] = FALSE]
         /\ \/ /\ GoesOn(c) /\ Told(c, NoError)
               /\ Doctor(c) /\ path[c] = "status"
               /\ answer[c] # NoAnswer /\ decoded(answer[c]) = NoError
            \/ /\ IsDone(c, "CONNECTION_REFUSED") /\ Told(c, "CONNECTION_REFUSED")
               /\ ~ steady'[c]
            \/ /\ IsDone(c, decoded(answer[c])) /\ Told(c, decoded(answer[c]))
               /\ ~ Again(c, decoded(answer[c]))
               /\ answer[c] # NoAnswer
<1>1. /\ stage[c] \in {"send", "wait"}
      /\ UNCHANGED <<core, config, command, at, made, log, lived, strange>>
      /\ steady' = steady \/ steady' = [steady EXCEPT ![c] = FALSE]
  BY DEF Ends, Refused, GivesUp, Receive, Running
<1>2. CASE Refused(c) \/ GivesUp(c)
  <2>1. Returns(c, "CONNECTION_REFUSED", FALSE)
    BY <1>2 DEF Refused, GivesUp
  <2>2. ~ steady'[c]
    BY <1>2 DEF IndInv, TypeOK, WitnessesAreRight, Refused, GivesUp, Running
  <2>3. "CONNECTION_REFUSED" # NoError
    BY DEF NoError
  <2>4. Told(c, "CONNECTION_REFUSED")
    BY <2>1, <2>3, ReturnsReport, Zenon DEF IndInv, Told
  <2> QED BY <1>1, <2>1, <2>2, <2>3, <2>4, ReturnsMoves DEF IndInv, IsDone, Again
<1>3. CASE Receive(c)
  <2>1. Returns(c, decoded(answer[c]), answer[c].enabled) /\ answer[c] # NoAnswer
    BY <1>3 DEF Receive
  <2>2. Told(c, decoded(answer[c]))
    BY <2>1, ReturnsReport, Zenon DEF IndInv, Told
  <2> QED BY <1>1, <2>1, <2>2, ReturnsMoves, Zenon DEF IndInv, IsDone, GoesOn, Again
<1> QED BY <1>2, <1>3 DEF Ends

(* The same, for any client and in less detail. *)
LEMMA EndsKeep ==
  ASSUME IndInv, NEW c \in Client, Ends(c), NEW d \in Client
  PROVE  /\ UNCHANGED <<core, config, command, at, made, log, lived, strange>>
         /\ steady'[d] => steady[d]
         /\ Running(d)' => Running(d)
         /\ stage'[d] = "idle" => stage[d] = "idle"
         /\ answer'[d] = NoAnswer \/ (answer'[d] = answer[d] /\ path'[d] = path[d])
<1>1. /\ stage[c] \in {"send", "wait"}
      /\ UNCHANGED <<core, config, command, at, made, log, lived, strange>>
      /\ steady' = steady \/ steady' = [steady EXCEPT ![c] = FALSE]
      /\ GoesOn(c) \/ \E x : IsDone(c, x)
  BY EndsMoves
<1>2. steady'[d] => steady[d]
  BY <1>1 DEF IndInv, TypeOK
<1>3. CASE GoesOn(c)
  BY <1>1, <1>2, <1>3 DEF IndInv, TypeOK, GoesOn, Running
<1>4. CASE \E x : IsDone(c, x)
  BY <1>1, <1>2, <1>4 DEF IndInv, TypeOK, IsDone, Running
<1> QED BY <1>1, <1>3, <1>4

(* Requests are handled in order, by a core that lives. *)
LEMMA OrderStep == IndInv /\ [Next]_vars => HandledInOrder'
<1> SUFFICES ASSUME IndInv, [Next]_vars PROVE HandledInOrder'
  OBVIOUS
<1> USE DEF IndInv, TypeOK, HandledInOrder, WitnessesAreRight, Running
<1>1. CASE Start
  BY <1>1 DEF Start
<1>2. CASE Drain
  BY <1>2 DEF Drain, Unsteady
<1>3. CASE Stop
  BY <1>3 DEF Stop, Unsteady
<1>4. CASE UNCHANGED vars
  BY <1>4 DEF vars
<1>5. ASSUME NEW c \in Client, Run(c)
      PROVE  HandledInOrder'
  BY <1>5 DEF Run
<1>6. ASSUME NEW c \in Client, Send(c)
      PROVE  HandledInOrder'
  BY <1>6 DEF Send
<1>7. ASSUME NEW c \in Client, StrangerAnswers(c)
      PROVE  HandledInOrder'
  BY <1>7 DEF StrangerAnswers, Sent
<1>8. ASSUME NEW c \in Client, AuthPasses(c)
      PROVE  HandledInOrder'
  BY <1>8 DEF AuthPasses, Go
<1>9. ASSUME NEW c \in Client, AuthRefuses(c)
      PROVE  HandledInOrder'
  BY <1>9 DEF AuthRefuses, Go, Sent
<1>10. ASSUME NEW c \in Client, LogStart(c)
      PROVE  HandledInOrder'
  BY <1>10 DEF LogStart, Go
<1>11. ASSUME NEW c \in Client, RequestID(c)
      PROVE  HandledInOrder'
  BY <1>11 DEF RequestID, Go
<1>12. ASSUME NEW c \in Client, Handle(c)
      PROVE  HandledInOrder'
  <2>1. PICK a \in Handled(path[c], command[c], config) :
          /\ made' = [made EXCEPT ![c] = a]
          /\ \/ UNCHANGED answer
             \/ path[c] \in Lists /\ answer' = [answer EXCEPT ![c] = a]
    BY <1>12 DEF Handle, Sent
  <2>2. /\ UNCHANGED <<core, config, stage, command, path, lived, strange>>
        /\ at[c] = "handle" /\ at' = [at EXCEPT ![c] = "finish"]
    BY <1>12 DEF Handle, Go
  <2> QED BY <2>1, <2>2
<1>13. ASSUME NEW c \in Client, LogFinish(c)
      PROVE  HandledInOrder'
  BY <1>13 DEF LogFinish, Go, Sent
<1>14. ASSUME NEW c \in Client, Ends(c)
      PROVE  HandledInOrder'
  <2>1. /\ stage[c] \in {"send", "wait"}
        /\ UNCHANGED <<core, config, command, at, made, lived>>
        /\ \/ GoesOn(c) /\ answer[c] # NoAnswer /\ path[c] = "status"
           \/ \E x : IsDone(c, x)
    BY <1>14, EndsMoves
  <2>2. GoesOn(c) /\ path[c] = "status" /\ answer[c] # NoAnswer => at[c] = "none"
    BY DEF Lists
  <2> QED BY <2>1, <2>2 DEF GoesOn, IsDone
<1> QED
  BY <1>1, <1>2, <1>3, <1>4, <1>5, <1>6, <1>7, <1>8, <1>9,
     <1>10, <1>11, <1>12, <1>13, <1>14 DEF Next, Rest, Proceed, Chain, Ends

(* An answer that has been sent is one the core may give. *)
LEMMA GenuineStep == IndInv /\ [Next]_vars => AnswersAreGenuine'
<1> SUFFICES ASSUME IndInv, [Next]_vars PROVE AnswersAreGenuine'
  OBVIOUS
<1> USE DEF IndInv, TypeOK, AnswersAreGenuine, HandledInOrder, Possible
<1>1. CASE Start
  BY <1>1 DEF Start
<1>2. CASE Drain
  BY <1>2 DEF Drain, Unsteady
<1>3. CASE Stop
  BY <1>3 DEF Stop, Unsteady
<1>4. CASE UNCHANGED vars
  BY <1>4 DEF vars
<1>5. ASSUME NEW c \in Client, Run(c)
      PROVE  AnswersAreGenuine'
  BY <1>5 DEF Run
<1>6. ASSUME NEW c \in Client, Send(c)
      PROVE  AnswersAreGenuine'
  BY <1>6 DEF Send
<1>7. ASSUME NEW c \in Client, StrangerAnswers(c)
      PROVE  AnswersAreGenuine'
  BY <1>7 DEF StrangerAnswers, Sent
<1>8. ASSUME NEW c \in Client, AuthPasses(c)
      PROVE  AnswersAreGenuine'
  BY <1>8 DEF AuthPasses, Go
<1>9. ASSUME NEW c \in Client, AuthRefuses(c)
      PROVE  AnswersAreGenuine'
  BY <1>9 DEF AuthRefuses, Go, Sent
<1>10. ASSUME NEW c \in Client, LogStart(c)
      PROVE  AnswersAreGenuine'
  BY <1>10 DEF LogStart, Go
<1>11. ASSUME NEW c \in Client, RequestID(c)
      PROVE  AnswersAreGenuine'
  BY <1>11 DEF RequestID, Go
<1>12. ASSUME NEW c \in Client, Handle(c)
      PROVE  AnswersAreGenuine'
  <2>1. PICK a \in Handled(path[c], command[c], config) :
          UNCHANGED answer \/ answer' = [answer EXCEPT ![c] = a]
    BY <1>12 DEF Handle, Sent
  <2>2. /\ UNCHANGED <<core, config, stage, command, path, lived, strange>>
        /\ at[c] = "handle" /\ at' = [at EXCEPT ![c] = "finish"]
    BY <1>12 DEF Handle, Go
  <2> QED BY <2>1, <2>2
<1>13. ASSUME NEW c \in Client, LogFinish(c)
      PROVE  AnswersAreGenuine'
  BY <1>13 DEF LogFinish, Go, Sent
<1>14. ASSUME NEW c \in Client, Ends(c)
      PROVE  AnswersAreGenuine'
  <2>1. /\ stage[c] \in {"send", "wait"}
        /\ UNCHANGED <<core, config, command, at, made, log, lived, strange>>
        /\ steady' = steady \/ steady' = [steady EXCEPT ![c] = FALSE]
        /\ GoesOn(c) \/ \E x : IsDone(c, x)
    BY <1>14, EndsMoves
  <2> QED BY <2>1 DEF GoesOn, IsDone
<1> QED
  BY <1>1, <1>2, <1>3, <1>4, <1>5, <1>6, <1>7, <1>8, <1>9,
     <1>10, <1>11, <1>12, <1>13, <1>14 DEF Next, Rest, Proceed, Chain, Ends

(* The witnesses keep track of the cores. *)
LEMMA WitnessStep == IndInv /\ [Next]_vars => WitnessesAreRight'
<1> SUFFICES ASSUME IndInv, [Next]_vars PROVE WitnessesAreRight'
  OBVIOUS
<1> USE DEF IndInv, TypeOK, WitnessesAreRight, HandledInOrder, Running
<1>1. CASE Start
  BY <1>1 DEF Start
<1>2. CASE Drain
  BY <1>2 DEF Drain, Unsteady
<1>3. CASE Stop
  BY <1>3 DEF Stop, Unsteady
<1>4. CASE UNCHANGED vars
  BY <1>4 DEF vars
<1>5. ASSUME NEW c \in Client, Run(c)
      PROVE  WitnessesAreRight'
  <2>1. /\ UNCHANGED <<core, config, command, strange>>
        /\ stage' = [stage EXCEPT ![c] = "send"]
        /\ lived' = [lived EXCEPT ![c] = IF core = "down" THEN {} ELSE {config}]
        /\ \A d \in Client \ {c} : steady'[d] = steady[d]
        /\ steady'[c] <=> core = "up" /\ command[c].url
    BY <1>5 DEF Run
  <2>2. /\ stage'[c] = "send" /\ ~ strange[c]
        /\ core # "down" => lived'[c] = {config}
        /\ core = "down" => lived'[c] = {}
        /\ \A d \in Client \ {c} : stage'[d] = stage[d] /\ lived'[d] = lived[d]
    BY <1>5, <2>1 DEF Run
  <2> QED BY <2>1, <2>2
<1>6. ASSUME NEW c \in Client, Send(c)
      PROVE  WitnessesAreRight'
  BY <1>6 DEF Send
<1>7. ASSUME NEW c \in Client, StrangerAnswers(c)
      PROVE  WitnessesAreRight'
  BY <1>7 DEF StrangerAnswers, Sent
<1>8. ASSUME NEW c \in Client, AuthPasses(c)
      PROVE  WitnessesAreRight'
  BY <1>8 DEF AuthPasses, Go
<1>9. ASSUME NEW c \in Client, AuthRefuses(c)
      PROVE  WitnessesAreRight'
  BY <1>9 DEF AuthRefuses, Go, Sent
<1>10. ASSUME NEW c \in Client, LogStart(c)
      PROVE  WitnessesAreRight'
  BY <1>10 DEF LogStart, Go
<1>11. ASSUME NEW c \in Client, RequestID(c)
      PROVE  WitnessesAreRight'
  BY <1>11 DEF RequestID, Go
<1>12. ASSUME NEW c \in Client, Handle(c)
      PROVE  WitnessesAreRight'
  <2>1. UNCHANGED <<core, config, stage, command, path, lived, steady, strange>>
    BY <1>12 DEF Handle
  <2> QED BY <2>1
<1>13. ASSUME NEW c \in Client, LogFinish(c)
      PROVE  WitnessesAreRight'
  BY <1>13 DEF LogFinish, Go, Sent
<1>14. ASSUME NEW c \in Client, Ends(c)
      PROVE  WitnessesAreRight'
  <2>1. ASSUME NEW d \in Client
        PROVE  /\ steady'[d] => steady[d]
               /\ Running(d)' => Running(d)
               /\ stage'[d] = "idle" => stage[d] = "idle"
               /\ UNCHANGED <<core, config, command, lived, strange>>
    BY <1>14, EndsKeep
  <2>2. UNCHANGED <<core, config, command, lived, strange>>
    BY <1>14, EndsKeep
  <2> QED BY <2>1, <2>2
<1> QED
  BY <1>1, <1>2, <1>3, <1>4, <1>5, <1>6, <1>7, <1>8, <1>9,
     <1>10, <1>11, <1>12, <1>13, <1>14 DEF Next, Rest, Proceed, Chain, Ends

(* The doctor's first answer was a good one. *)
LEMMA HalfwayStep == IndInv /\ [Next]_vars => Halfway'
<1> SUFFICES ASSUME IndInv, [Next]_vars PROVE Halfway'
  OBVIOUS
<1> USE DEF IndInv, TypeOK, Halfway, Running, Doctor
<1>1. CASE Start
  BY <1>1 DEF Start
<1>2. CASE Drain
  BY <1>2 DEF Drain, Unsteady
<1>3. CASE Stop
  BY <1>3 DEF Stop, Unsteady
<1>4. CASE UNCHANGED vars
  BY <1>4 DEF vars
<1>5. ASSUME NEW c \in Client, Run(c)
      PROVE  Halfway'
  BY <1>5 DEF Run
<1>6. ASSUME NEW c \in Client, Send(c)
      PROVE  Halfway'
  BY <1>6 DEF Send
<1>7. ASSUME NEW c \in Client, StrangerAnswers(c)
      PROVE  Halfway'
  BY <1>7 DEF StrangerAnswers, Sent
<1>8. ASSUME NEW c \in Client, AuthPasses(c)
      PROVE  Halfway'
  BY <1>8 DEF AuthPasses, Go
<1>9. ASSUME NEW c \in Client, AuthRefuses(c)
      PROVE  Halfway'
  BY <1>9 DEF AuthRefuses, Go, Sent
<1>10. ASSUME NEW c \in Client, LogStart(c)
      PROVE  Halfway'
  BY <1>10 DEF LogStart, Go
<1>11. ASSUME NEW c \in Client, RequestID(c)
      PROVE  Halfway'
  BY <1>11 DEF RequestID, Go
<1>12. ASSUME NEW c \in Client, Handle(c)
      PROVE  Halfway'
  BY <1>12 DEF Handle, Go, Sent
<1>13. ASSUME NEW c \in Client, LogFinish(c)
      PROVE  Halfway'
  BY <1>13 DEF LogFinish, Go, Sent
<1>14. ASSUME NEW c \in Client, Ends(c)
      PROVE  Halfway'
  <2>1. UNCHANGED <<command, lived, strange>>
    BY <1>14, EndsMoves
  <2>2. CASE \E x : IsDone(c, x) /\ Told(c, x)
    BY <2>1, <2>2 DEF IsDone, Told
  <2>3. CASE /\ GoesOn(c) /\ Told(c, NoError)
             /\ Doctor(c) /\ path[c] = "status"
             /\ answer[c] # NoAnswer /\ decoded(answer[c]) = NoError
    <3>1. ~ strange[c] => \E k \in lived[c] : Authorized(k, command[c].token)
      BY <2>3, Received
    <3>2. report'[c].running
      BY <2>3 DEF Told
    <3>3. \A d \in Client \ {c} : report'[d] = report[d]
      BY <2>3 DEF Told
    <3> QED BY <2>1, <2>3, <3>1, <3>2, <3>3 DEF GoesOn
  <2> QED BY <1>14, <2>2, <2>3, EndsMoves
<1> QED
  BY <1>1, <1>2, <1>3, <1>4, <1>5, <1>6, <1>7, <1>8, <1>9,
     <1>10, <1>11, <1>12, <1>13, <1>14 DEF Next, Rest, Proceed, Chain, Ends

(* What has been answered is in the log. *)
LEMMA LogStep == IndInv /\ [Next]_vars => AnswersAreLogged'
<1> SUFFICES ASSUME IndInv, [Next]_vars PROVE AnswersAreLogged'
  OBVIOUS
<1> USE DEF IndInv, TypeOK, AnswersAreLogged, HandledInOrder
<1>1. CASE Start
  BY <1>1 DEF Start
<1>2. CASE Drain
  BY <1>2 DEF Drain, Unsteady
<1>3. CASE Stop
  BY <1>3 DEF Stop, Unsteady
<1>4. CASE UNCHANGED vars
  BY <1>4 DEF vars
<1>5. ASSUME NEW c \in Client, Run(c)
      PROVE  AnswersAreLogged'
  BY <1>5 DEF Run
<1>6. ASSUME NEW c \in Client, Send(c)
      PROVE  AnswersAreLogged'
  BY <1>6 DEF Send
<1>7. ASSUME NEW c \in Client, StrangerAnswers(c)
      PROVE  AnswersAreLogged'
  BY <1>7 DEF StrangerAnswers, Sent
<1>8. ASSUME NEW c \in Client, AuthPasses(c)
      PROVE  AnswersAreLogged'
  BY <1>8 DEF AuthPasses, Go
<1>9. ASSUME NEW c \in Client, AuthRefuses(c)
      PROVE  AnswersAreLogged'
  <2>1. /\ answer' = [answer EXCEPT ![c] = Envelope("UNAUTHORIZED")]
        /\ UNCHANGED <<path, strange>>
    BY <1>9 DEF AuthRefuses, Sent
  <2>2. Envelope("UNAUTHORIZED").status = 401
    BY Envelopes
  <2>3. Logs(c, "auth", 401)
    BY <1>9 DEF AuthRefuses
  <2> QED BY <2>1, <2>2, <2>3, Logged
<1>10. ASSUME NEW c \in Client, LogStart(c)
      PROVE  AnswersAreLogged'
  <2>1. Logs(c, "start", 0) /\ UNCHANGED <<path, answer, strange>>
    BY <1>10 DEF LogStart
  <2> QED BY <2>1, Logged
<1>11. ASSUME NEW c \in Client, RequestID(c)
      PROVE  AnswersAreLogged'
  BY <1>11 DEF RequestID, Go
<1>12. ASSUME NEW c \in Client, Handle(c)
      PROVE  AnswersAreLogged'
  <2>1. PICK a \in Handled(path[c], command[c], config) :
          \/ UNCHANGED answer
          \/ path[c] \in Lists /\ a.status = 200 /\ answer' = [answer EXCEPT ![c] = a]
    BY <1>12 DEF Handle, Sent
  <2>2. Logs(c, "handler", 0) \/ UNCHANGED log
    BY <1>12 DEF Handle
  <2>3. UNCHANGED <<path, strange>>
    BY <1>12 DEF Handle
  <2>4. \A d \in Client : log[d] \subseteq log'[d]
    BY <2>2, Logged
  <2> QED BY <2>1, <2>3, <2>4
<1>13. ASSUME NEW c \in Client, LogFinish(c)
      PROVE  AnswersAreLogged'
  <2>1. /\ answer' = [answer EXCEPT ![c] = made[c]]
        /\ UNCHANGED <<path, strange>>
    BY <1>13 DEF LogFinish, Sent
  <2>2. Logs(c, "finish", made[c].status)
    BY <1>13 DEF LogFinish
  <2> QED BY <2>1, <2>2, Logged
<1>14. ASSUME NEW c \in Client, Ends(c)
      PROVE  AnswersAreLogged'
  <2>1. \A d \in Client :
          answer'[d] = NoAnswer \/ (answer'[d] = answer[d] /\ path'[d] = path[d])
    BY <1>14, EndsKeep
  <2>2. UNCHANGED <<log, strange>>
    BY <1>14, EndsKeep
  <2> QED BY <2>1, <2>2
<1> QED
  BY <1>1, <1>2, <1>3, <1>4, <1>5, <1>6, <1>7, <1>8, <1>9,
     <1>10, <1>11, <1>12, <1>13, <1>14 DEF Next, Rest, Proceed, Chain, Ends

-----------------------------------------------------------------------------
(* A command that is done stays as it is, but for an answer that comes too *)
(* late; GetJSON alone can end one.                                        *)
Stays(d) ==
    /\ Done(d)
    /\ code'[d] = code[d] /\ report'[d] = report[d] /\ path'[d] = path[d]
    /\ lived'[d] = lived[d] /\ command' = command
    /\ steady'[d] => steady[d]
    /\ strange'[d] = strange[d]
    /\ answer'[d] = answer[d] \/ answer[d] = NoAnswer

LEMMA DoneStays ==
  ASSUME IndInv, [Next]_vars, NEW d \in Client, Done(d)'
  PROVE  Stays(d) \/ Ends(d)
<1> USE DEF IndInv, TypeOK, HandledInOrder, Stays, Done
<1>1. CASE Start
  BY <1>1 DEF Start, Running
<1>2. CASE Drain
  BY <1>2 DEF Drain, Unsteady
<1>3. CASE Stop
  BY <1>3 DEF Stop, Unsteady
<1>4. CASE UNCHANGED vars
  BY <1>4 DEF vars
<1>5. ASSUME NEW c \in Client, Run(c)
      PROVE  Stays(d)
  BY <1>5 DEF Run
<1>6. ASSUME NEW c \in Client, Send(c)
      PROVE  Stays(d)
  BY <1>6 DEF Send
<1>7. ASSUME NEW c \in Client, StrangerAnswers(c)
      PROVE  Stays(d)
  BY <1>7 DEF StrangerAnswers, Sent
<1>8. ASSUME NEW c \in Client, AuthPasses(c)
      PROVE  Stays(d)
  BY <1>8 DEF AuthPasses, Go
<1>9. ASSUME NEW c \in Client, AuthRefuses(c)
      PROVE  Stays(d)
  BY <1>9 DEF AuthRefuses, Go, Sent
<1>10. ASSUME NEW c \in Client, LogStart(c)
      PROVE  Stays(d)
  BY <1>10 DEF LogStart, Go
<1>11. ASSUME NEW c \in Client, RequestID(c)
      PROVE  Stays(d)
  BY <1>11 DEF RequestID, Go
<1>12. ASSUME NEW c \in Client, Handle(c)
      PROVE  Stays(d)
  <2>1. UNCHANGED <<life, stage, command, path, result, witnesses>> /\ at[c] = "handle"
    BY <1>12 DEF Handle, Go
  <2>2. UNCHANGED answer \/ \E a : answer' = [answer EXCEPT ![c] = a]
    BY <1>12 DEF Handle, Sent
  <2> QED BY <2>1, <2>2
<1>13. ASSUME NEW c \in Client, LogFinish(c)
      PROVE  Stays(d)
  BY <1>13 DEF LogFinish, Go, Sent
<1>14. ASSUME NEW c \in Client, Ends(c), c # d
      PROVE  Stays(d)
  <2>1. /\ UNCHANGED <<command, lived, strange>>
        /\ steady'[d] => steady[d]
    BY <1>14, EndsKeep
  <2>2. \/ GoesOn(c) /\ Told(c, NoError)
        \/ \E x : IsDone(c, x) /\ Told(c, x)
    BY <1>14, EndsMoves
  <2>3. report'[d] = report[d]
    BY <1>14, <2>2 DEF Told
  <2>4. CASE GoesOn(c)
    BY <1>14, <2>1, <2>3, <2>4 DEF GoesOn
  <2>5. CASE \E x : IsDone(c, x)
    BY <1>14, <2>1, <2>3, <2>5 DEF IsDone
  <2> QED BY <2>2, <2>4, <2>5
<1> QED
  BY <1>1, <1>2, <1>3, <1>4, <1>5, <1>6, <1>7, <1>8, <1>9,
     <1>10, <1>11, <1>12, <1>13, <1>14 DEF Next, Rest, Proceed, Chain, Ends

(* GetJSON has ended a command with the code of an answer, or of none. *)
LEMMA EndsDone ==
  ASSUME IndInv, NEW d \in Client, Ends(d), Done(d)'
  PROVE  \/ /\ IsDone(d, "CONNECTION_REFUSED") /\ Told(d, "CONNECTION_REFUSED")
            /\ ~ steady'[d] /\ code'[d] = "CONNECTION_REFUSED"
         \/ /\ IsDone(d, decoded(answer[d])) /\ Told(d, decoded(answer[d]))
            /\ ~ Again(d, decoded(answer[d])) /\ answer[d] # NoAnswer
            /\ code'[d] = decoded(answer[d])
<1>1. stage \in [Client -> {"idle", "send", "wait", "done"}]
      /\ code \in [Client -> ClientCodes]
  BY DEF IndInv, TypeOK
<1>2. ~ GoesOn(d)
  BY <1>1 DEF GoesOn, Done
<1>3. \A x : IsDone(d, x) => code'[d] = x
  BY <1>1 DEF IsDone
<1> QED BY <1>2, <1>3, EndsMoves

(* The code of a command is the one of its answer. *)
LEMMA CodeStep == IndInv /\ [Next]_vars => CodeIsTheCores'
<1> SUFFICES ASSUME IndInv, [Next]_vars, NEW d \in Client, Done(d)', ~ strange'[d]
             PROVE  \/ answer'[d] # NoAnswer /\ code'[d] = answer'[d].code
                    \/ code'[d] = "CONNECTION_REFUSED" /\ ~ steady'[d]
  BY DEF CodeIsTheCores, Done
<1>1. CASE Stays(d)
  BY <1>1 DEF Stays, IndInv, CodeIsTheCores, Done
<1>2. CASE Ends(d)
  <2>1. \/ IsDone(d, "CONNECTION_REFUSED") /\ ~ steady'[d]
        \/ IsDone(d, decoded(answer[d])) /\ answer[d] # NoAnswer
    BY <1>2, EndsDone
  <2>2. CASE IsDone(d, "CONNECTION_REFUSED") /\ ~ steady'[d]
    BY <2>2 DEF IsDone, IndInv, TypeOK
  <2>3. CASE IsDone(d, decoded(answer[d])) /\ answer[d] # NoAnswer
    <3>1. ~ strange[d]
      BY <1>2, EndsMoves
    <3>2. decoded(answer[d]) = answer[d].code
      BY <2>3, <3>1, Received DEF IndInv
    <3> QED BY <2>3, <3>2 DEF IsDone, IndInv, TypeOK
  <2> QED BY <2>1, <2>2, <2>3
<1> QED BY <1>1, <1>2, DoneStays

(* A command that ends well was let in. *)
LEMMA SuccessStep == IndInv /\ [Next]_vars => SuccessWasAuthorized'
<1> SUFFICES ASSUME IndInv, [Next]_vars, NEW d \in Client, Done(d)', code'[d] = NoError,
                    ~ strange'[d]
             PROVE  \E k \in lived'[d] : Authorized(k, command'[d].token)
  BY DEF SuccessWasAuthorized, Authorized, Done
<1>1. CASE Stays(d)
  <2>1. \E k \in lived[d] : Authorized(k, command[d].token)
    BY <1>1 DEF Stays, IndInv, SuccessWasAuthorized, Done, Authorized
  <2> QED BY <1>1, <2>1 DEF Stays
<1>2. CASE Ends(d)
  <2>1. answer[d] # NoAnswer /\ decoded(answer[d]) = NoError
    BY <1>2, EndsDone DEF NoError
  <2>2. UNCHANGED <<command, lived, strange>>
    BY <1>2, EndsMoves
  <2> QED BY <2>1, <2>2, Received DEF IndInv
<1> QED BY <1>1, <1>2, DoneStays

(* What the doctor says was true once. *)
LEMMA ReportStep == IndInv /\ [Next]_vars => ReportWasTrue'
<1> SUFFICES ASSUME IndInv, [Next]_vars, NEW d \in Client, Done(d)', Doctor(d)',
                    ~ strange'[d]
             PROVE  /\ report'[d].running => lived'[d] # {}
                    /\ report'[d].enabled => \E k \in lived'[d] : k.enabled
  BY DEF ReportWasTrue, Done
<1>1. CASE Stays(d)
  BY <1>1 DEF Stays, IndInv, ReportWasTrue, Done, Doctor
<1>2. CASE Ends(d)
  <2>1. UNCHANGED <<command, lived, strange>> /\ Doctor(d)
    BY <1>2, EndsMoves DEF Doctor
  <2>2. path[d] \in {"status", "proxy status"}
    BY <1>2, <2>1, EndsMoves DEF IndInv, Halfway, Running
  <2>3. CASE IsDone(d, "CONNECTION_REFUSED") /\ Told(d, "CONNECTION_REFUSED")
    BY <1>2, <2>1, <2>2, <2>3, EndsMoves
       DEF Told, runningDespite, NoError, IndInv, Halfway, Running
  <2>4. CASE Told(d, decoded(answer[d])) /\ answer[d] # NoAnswer
    <3>1. PICK k \in lived[d] :
            /\ decoded(answer[d]) = answer[d].code
            /\ path[d] = "proxy status" /\ answer[d].code = NoError =>
                  answer[d].enabled = k.enabled
      BY <2>1, <2>4, Received DEF IndInv
    <3>2. report'[d].enabled => k.enabled
      BY <2>1, <2>2, <2>4, <3>1 DEF Told
    <3> QED BY <2>1, <3>2
  <2> QED BY <1>2, <2>3, <2>4, EndsDone
<1> QED BY <1>1, <1>2, DoneStays

(* With a steady core the report of the doctor is exact. *)
LEMMA SteadyStep == IndInv /\ [Next]_vars => SteadyReportIsExact'
<1> DEFINE Exact(r, k, t) == /\ r.running
                             /\ r.reachable <=> Authorized(k, t)
                             /\ r.enabled <=> Authorized(k, t) /\ k.enabled
                             /\ r.passed <=> Authorized(k, t)
<1> SUFFICES ASSUME IndInv, [Next]_vars, NEW d \in Client, Done(d)', Doctor(d)',
                    steady'[d]
             PROVE  \E k \in lived'[d] : Exact(report'[d], k, command'[d].token)
  BY DEF SteadyReportIsExact, Done
<1>1. CASE Stays(d)
  <2>1. \E k \in lived[d] : Exact(report[d], k, command[d].token)
    BY <1>1 DEF Stays, IndInv, SteadyReportIsExact, Done, Doctor
  <2> HIDE DEF Exact
  <2> QED BY <1>1, <2>1 DEF Stays
<1>2. CASE Ends(d)
  <2>1. /\ UNCHANGED <<command, lived, strange>> /\ Doctor(d)
        /\ steady[d] /\ ~ strange[d]
        /\ \A k, l \in lived[d] : k = l
    BY <1>2, EndsKeep DEF Doctor, IndInv, WitnessesAreRight
  <2>2. path[d] \in {"status", "proxy status"}
    BY <1>2, <2>1, EndsMoves DEF IndInv, Halfway, Running
  <2>3. /\ Told(d, decoded(answer[d])) /\ answer[d] # NoAnswer
        /\ ~ Again(d, decoded(answer[d]))
    BY <1>2, EndsDone
  <2>4. PICK k \in lived[d] :
          /\ decoded(answer[d]) = answer[d].code
          /\ answer[d].code = NoError => Authorized(k, command[d].token)
          /\ Authorized(k, command[d].token) => answer[d].code = NoError
          /\ path[d] = "proxy status" /\ answer[d].code = NoError =>
                answer[d].enabled = k.enabled
    BY <2>1, <2>2, <2>3, Received DEF IndInv
  <2>5. CASE path[d] = "status"
    <3>1. answer[d].code # NoError
      BY <2>1, <2>3, <2>4, <2>5 DEF Again
    <3>2. runningDespite(answer[d].code)
      BY <2>1, <2>3, <2>5, <3>1, Refusal DEF runningDespite, IndInv
    <3>3. /\ report'[d].running
          /\ ~ report'[d].reachable /\ ~ report'[d].enabled /\ ~ report'[d].passed
      BY <2>1, <2>3, <2>4, <2>5, <3>2 DEF Told
    <3> QED BY <2>1, <2>4, <3>1, <3>3
  <2>6. CASE path[d] = "proxy status"
    <3>1. report[d].running /\ \E l \in lived[d] : Authorized(l, command[d].token)
      BY <1>2, <2>1, <2>6, EndsMoves DEF IndInv, Halfway, Running
    <3>2. Authorized(k, command[d].token)
      BY <2>1, <3>1
    <3>3. /\ report'[d].running
          /\ report'[d].reachable /\ report'[d].passed
          /\ report'[d].enabled <=> answer[d].enabled
      BY <2>1, <2>3, <2>4, <2>6, <3>1, <3>2 DEF Told
    <3> QED BY <2>1, <2>4, <2>6, <3>2, <3>3
  <2> QED BY <2>2, <2>5, <2>6
<1> QED BY <1>1, <1>2, DoneStays

-----------------------------------------------------------------------------
(* The inductive invariant holds in every behaviour. *)
THEOREM Inductive == Spec => []IndInv
<1>1. Init => IndInv
  BY TypeInit
     DEF Init, IndInv, HandledInOrder, AnswersAreGenuine, WitnessesAreRight, Halfway,
         CodeIsTheCores, SteadyReportIsExact, ReportWasTrue, SuccessWasAuthorized,
         AnswersAreLogged, Running, Done
<1>2. IndInv /\ [Next]_vars => IndInv'
  BY TypeStep, OrderStep, GenuineStep, WitnessStep, HalfwayStep, CodeStep, SteadyStep,
     ReportStep, SuccessStep, LogStep DEF IndInv
<1> QED BY <1>1, <1>2, PTL DEF Spec

(* A command ends with the code the core has answered, or has missed the   *)
(* core: CodeIsTheCores.                                                   *)
THEOREM CodesAreFaithful == Spec => []CodeIsTheCores
<1>1. IndInv => CodeIsTheCores
  BY DEF IndInv
<1> QED BY <1>1, Inductive, PTL

(* The doctor is right about a core that stays: SteadyReportIsExact. *)
THEOREM DoctorIsRight == Spec => []SteadyReportIsExact
<1>1. IndInv => SteadyReportIsExact
  BY DEF IndInv
<1> QED BY <1>1, Inductive, PTL

(* The doctor says nothing that was never true: ReportWasTrue. *)
THEOREM DoctorInventsNothing == Spec => []ReportWasTrue
<1>1. IndInv => ReportWasTrue
  BY DEF IndInv
<1> QED BY <1>1, Inductive, PTL

(* Success takes the token of a core that has lived: SuccessWasAuthorized. *)
THEOREM SuccessTakesTheToken == Spec => []SuccessWasAuthorized
<1>1. IndInv => SuccessWasAuthorized
  BY DEF IndInv
<1> QED BY <1>1, Inductive, PTL

(* The log accounts for the answers: AnswersAreLogged. *)
THEOREM LogIsComplete == Spec => []AnswersAreLogged
<1>1. IndInv => AnswersAreLogged
  BY DEF IndInv
<1> QED BY <1>1, Inductive, PTL
=============================================================================
