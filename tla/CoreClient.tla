------------------------------ MODULE CoreClient ------------------------------
(***************************************************************************)
(* The read commands and the doctor of the command line, against a core    *)
(* that starts, drains and stops while they run: runReadCommand and        *)
(* buildDoctorCommand in internal/cli/commands.go, httpclient/client.go,   *)
(* doctor/doctor.go; and what a core does with their requests: the         *)
(* middleware chain of server.Run and the read handlers.                   *)
(*                                                                         *)
(* A command sends one request, the doctor a second one after a good       *)
(* answer to the first:   idle -> send -> wait (-> send -> wait) -> done   *)
(* In the core a request walks   auth -> start -> id -> handle -> finish   *)
(* through Auth, Logging, RequestID, the handler and back to Logging.      *)
(*                                                                         *)
(* A payload is what the client tells apart: does it decode, does it say   *)
(* that the proxy is enabled, which code does an error envelope carry.     *)
(***************************************************************************)
EXTENDS Naturals, CoreErrors

CONSTANTS
    Client,       \* runs of the command line
    Commands,     \* commands they may be
    CoreConfigs,  \* configurations a core may be started with
    Strangers,    \* answers of something else at the client's URL
    Tokens,
    NoToken

Paths == {"status", "usage", "limits", "proxy status"}

(* name: the subcommand; token: core.token of the client's configuration;  *)
(* url, filter: whether the URL and --from, --to parse.                    *)
Command == [name : Paths \cup {"doctor"}, token : Tokens \cup {NoToken},
            url : BOOLEAN, filter : BOOLEAN]

(* remote: isRemoteMode of the bind address; enabled: proxy.enabled. *)
CoreConfig == [token : Tokens \cup {NoToken}, remote : BOOLEAN, enabled : BOOLEAN]

(* The code of an envelope is any string; ForeignCode stands for those     *)
(* that no core uses, NoError for an envelope without one or none at all.  *)
ForeignCode == "somebody else's"
ClientCodes == Codes \cup {NoError, ForeignCode}

(* json: does the body decode as an object? *)
Answer == [status : 200..599, code : ClientCodes, json : BOOLEAN, enabled : BOOLEAN]
NoAnswer == [status |-> 0, code |-> NoError, json |-> FALSE, enabled |-> FALSE]

ASSUME CommandsAreCommands == Commands \subseteq Command
ASSUME ConfigsAreConfigs == CoreConfigs \subseteq CoreConfig
ASSUME StrangersAnswer == Strangers \subseteq Answer
ASSUME NoTokenIsNone == NoToken \notin Tokens

VARIABLES
    core,       \* "down", "up" (accepting) or "draining"
    config,     \* the configuration it was started with
    stage,      \* where each client is
    command,    \* what it was called for
    path,       \* what its present request asks for
    at,         \* where the core is with that request
    made,       \* the answer the core has made of it and not yet sent
    log,        \* the log lines of the request that have a request_id key
    answer,     \* the answer that is on its way to the client, or was read
    code,       \* the error code the command has ended with
    report,     \* what the doctor prints
    lived,      \* configurations of the cores that lived during the command
    steady,     \* one core has been up all the time, and the network worked
    strange     \* something else has answered

vars == <<core, config, stage, command, path, at, made, log, answer, code, report,
          lived, steady, strange>>
life      == <<core, config>>
handling  == <<at, made, log>>
result    == <<code, report>>
witnesses == <<lived, steady, strange>>

Line == [by : {"auth", "start", "handler", "finish"}, status : {0} \cup 200..599,
         traced : BOOLEAN]
Report == [running : BOOLEAN, reachable : BOOLEAN, enabled : BOOLEAN, passed : BOOLEAN]
NoReport == [running |-> FALSE, reachable |-> FALSE, enabled |-> FALSE, passed |-> FALSE]

Init ==
    /\ core = "down" /\ config \in CoreConfigs
    /\ stage = [c \in Client |-> "idle"]
    /\ command \in [Client -> Commands]
    /\ path = [c \in Client |-> "status"]
    /\ at = [c \in Client |-> "none"]
    /\ made = [c \in Client |-> NoAnswer]
    /\ log = [c \in Client |-> {}]
    /\ answer = [c \in Client |-> NoAnswer]
    /\ code = [c \in Client |-> NoError]
    /\ report = [c \in Client |-> NoReport]
    /\ lived = [c \in Client |-> {}]
    /\ steady = [c \in Client |-> FALSE]
    /\ strange = [c \in Client |-> FALSE]

Running(c) == stage[c] \in {"send", "wait"}

-----------------------------------------------------------------------------
(* The core.  `serve` is started, with a configuration that may have       *)
(* changed since the last time.                                            *)
Start ==
    /\ core = "down" /\ core' = "up"
    /\ config' \in CoreConfigs
    /\ lived' = [c \in Client |-> IF Running(c) THEN lived[c] \cup {config'} ELSE lived[c]]
    /\ UNCHANGED <<stage, command, path, handling, answer, result, steady, strange>>

Unsteady == steady' = [c \in Client |-> ~ Running(c) /\ steady[c]]

(* A signal: no more connections, the requests at work go on. *)
Drain ==
    /\ core = "up" /\ core' = "draining"
    /\ Unsteady
    /\ UNCHANGED <<config, stage, command, path, handling, answer, result, lived, strange>>

(* The process ends: drained, out of patience, or killed.  What it has     *)
(* not answered it never answers.                                          *)
Stop ==
    /\ core # "down" /\ core' = "down"
    /\ at' = [c \in Client |-> "none"]
    /\ made' = [c \in Client |-> NoAnswer]
    /\ Unsteady
    /\ UNCHANGED <<config, stage, command, path, log, answer, result, lived, strange>>

-----------------------------------------------------------------------------
(* A request in the core.  net/http has a buffer: a short answer leaves    *)
(* when the outermost handler has returned, a long list before that.       *)
Go(c, from, to) == at[c] = from /\ at' = [at EXCEPT ![c] = to]

Sent(c, a) == answer' = [answer EXCEPT ![c] = a]

(* Write of api/errors, and writeJSON. *)
Envelope(x) == [status |-> toHTTPStatus(x), code |-> x, json |-> TRUE, enabled |-> FALSE]
Payload(e) == [status |-> 200, code |-> NoError, json |-> TRUE, enabled |-> e]

(* RequestIDFromContext: the context has an id inside of RequestID only;   *)
(* Logging reads it on the way in, for both of its lines.                  *)
Traced(by) == by = "handler"
Logs(c, by, status) ==
    log' = [log EXCEPT ![c] = @ \cup {[by |-> by, status |-> status, traced |-> Traced(by)]}]

(* Mutant of Authorized: a remote core without a token lets everyone in. *)
AuthorizedOpen(k, token) == k.token # NoToken => token = k.token

(* Auth, for a path that does not spend. *)
Authorized(k, token) ==
    /\ k.remote => k.token # NoToken
    /\ k.token # NoToken => token = k.token

AuthPasses(c) ==
    /\ Authorized(config, command[c].token)
    /\ Go(c, "auth", "start")
    /\ UNCHANGED <<life, stage, command, path, made, log, answer, result, witnesses>>

(* Mutant of AuthRefuses: the return behind the refusal is missing. *)
AuthRefusesGoesOn(c) ==
    /\ ~ Authorized(config, command[c].token)
    /\ Go(c, "auth", "start")
    /\ Logs(c, "auth", 401)
    /\ Sent(c, Envelope("UNAUTHORIZED"))
    /\ UNCHANGED <<life, stage, command, path, made, result, witnesses>>

(* The refusal does not reach Logging: its line is Auth's own. *)
AuthRefuses(c) ==
    /\ ~ Authorized(config, command[c].token)
    /\ Go(c, "auth", "none")
    /\ Logs(c, "auth", 401)
    /\ Sent(c, Envelope("UNAUTHORIZED"))
    /\ UNCHANGED <<life, stage, command, path, made, result, witnesses>>

LogStart(c) ==
    /\ Go(c, "start", "id")
    /\ Logs(c, "start", 0)
    /\ UNCHANGED <<life, stage, command, path, made, answer, result, witnesses>>

RequestID(c) ==
    /\ Go(c, "id", "handle")
    /\ UNCHANGED <<life, stage, command, path, made, log, answer, result, witnesses>>

(* status, usage, limits and proxyStatus, asked with GET: what they may    *)
(* answer.  A query fails under a store that was closed, too.              *)
Handled(p, cmd, k) ==
    CASE p = "status"       -> {Payload(FALSE)}
      [] p = "proxy status" -> {Payload(k.enabled)}
      [] p = "usage" /\ ~ cmd.filter -> {Envelope("VALIDATION_FAILED")}
      [] OTHER -> {Payload(FALSE), Envelope("STORAGE_QUERY_ERROR")}

Lists == {"usage", "limits"}

Handle(c) ==
    /\ Go(c, "handle", "finish")
    /\ \E a \in Handled(path[c], command[c], config) :
        /\ made' = [made EXCEPT ![c] = a]
        /\ \/ UNCHANGED answer
           \/ path[c] \in Lists /\ a.status = 200 /\ Sent(c, a)
    /\ IF path[c] = "proxy status" THEN Logs(c, "handler", 0) ELSE UNCHANGED log
    /\ UNCHANGED <<life, stage, command, path, result, witnesses>>

(* Mutant of LogFinish: the wrapper does not record what WriteHeader says. *)
LogFinishOk(c) ==
    /\ Go(c, "finish", "none")
    /\ Logs(c, "finish", 200)
    /\ Sent(c, made[c])
    /\ made' = [made EXCEPT ![c] = NoAnswer]
    /\ UNCHANGED <<life, stage, command, path, result, witnesses>>

LogFinish(c) ==
    /\ Go(c, "finish", "none")
    /\ Logs(c, "finish", made[c].status)
    /\ Sent(c, made[c])
    /\ made' = [made EXCEPT ![c] = NoAnswer]
    /\ UNCHANGED <<life, stage, command, path, result, witnesses>>

-----------------------------------------------------------------------------
(* The client. *)
Run(c) ==
    /\ stage[c] = "idle" /\ stage' = [stage EXCEPT ![c] = "send"]
    /\ path' = [path EXCEPT ![c] =
          IF command[c].name = "doctor" THEN "status" ELSE command[c].name]
    /\ lived' = [lived EXCEPT ![c] = IF core = "down" THEN {} ELSE {config}]
    /\ steady' = [steady EXCEPT ![c] = core = "up" /\ command[c].url]
    /\ UNCHANGED <<life, command, handling, answer, result, strange>>

(* GetJSON has a connection to the core. *)
Send(c) ==
    /\ stage[c] = "send" /\ command[c].url /\ core = "up"
    /\ stage' = [stage EXCEPT ![c] = "wait"]
    /\ at' = [at EXCEPT ![c] = "auth"]
    /\ log' = [log EXCEPT ![c] = {}]
    /\ UNCHANGED <<life, command, path, made, answer, result, witnesses>>

(* Another program has the port, or a gateway answers in place of a core. *)
StrangerAnswers(c) ==
    /\ stage[c] = "send" /\ command[c].url
    /\ stage' = [stage EXCEPT ![c] = "wait"]
    /\ \E a \in Strangers : Sent(c, a)
    /\ strange' = [strange EXCEPT ![c] = TRUE]
    /\ steady' = [steady EXCEPT ![c] = FALSE]
    /\ UNCHANGED <<life, command, path, handling, result, lived>>

(* Mutant of runningDespite: any error means that no core is there. *)
neverRunning(x) == FALSE

(* Mutant of runningDespite: a refused connection is not told apart. *)
alwaysRunning(x) == TRUE

(* What the doctor concludes from an error of its first request. *)
runningDespite(x) == x \notin {"CONNECTION_REFUSED", "CORE_NOT_RUNNING"}

(* GetJSON has returned x (NoError for nil): a read command ends, and so   *)
(* does the doctor but for its second request, after a good first one.     *)
Returns(c, x, enabled) ==
    LET again  == command[c].name = "doctor" /\ path[c] = "status"
        second == command[c].name = "doctor" /\ path[c] = "proxy status"
    IN  /\ IF again /\ x = NoError
           THEN /\ stage' = [stage EXCEPT ![c] = "send"]
                /\ path' = [path EXCEPT ![c] = "proxy status"]
                /\ Sent(c, NoAnswer)
                /\ UNCHANGED code
           ELSE /\ stage' = [stage EXCEPT ![c] = "done"]
                /\ code' = [code EXCEPT ![c] = x]
                /\ UNCHANGED <<path, answer>>
        /\ report' = [report EXCEPT ![c] =
              [running   |-> IF again THEN x = NoError \/ runningDespite(x) ELSE @.running,
               reachable |-> second /\ x = NoError,
               enabled   |-> second /\ x = NoError /\ enabled,
               passed    |-> second /\ x = NoError]]

(* Nobody listens, or the URL does not parse. *)
Refused(c) ==
    /\ stage[c] = "send"
    /\ core # "up" \/ ~ command[c].url
    /\ Returns(c, "CONNECTION_REFUSED", FALSE)
    /\ UNCHANGED <<life, command, handling, witnesses>>

(* Mutant of GivesUp: http.Client without its timeout of ten seconds. *)
WaitsOn(c) == stage[c] = "wait" /\ UNCHANGED vars

(* The connection breaks or the ten seconds are over, before the headers   *)
(* or in the middle of the body; the core may go on with the request.      *)
GivesUp(c) ==
    /\ Running(c)
    /\ Returns(c, "CONNECTION_REFUSED", FALSE)
    /\ steady' = [steady EXCEPT ![c] = FALSE]
    /\ UNCHANGED <<life, command, handling, lived, strange>>

codeFromStatus(s) ==
    CASE s = 400 -> "VALIDATION_FAILED"
      [] s = 401 -> "UNAUTHORIZED"
      [] s = 409 -> "PORT_IN_USE"
      [] s >= 500 -> "INTERNAL_SERVER_ERROR"
      [] OTHER -> "UNKNOWN_ERROR"

(* Mutant of errorFromResponse: the envelope is not looked at. *)
errorFromHeaders(a) == codeFromStatus(a.status)

(* The code of the envelope, if there is one to read. *)
errorFromResponse(a) == IF a.code # NoError THEN a.code ELSE codeFromStatus(a.status)

(* GetJSON with the whole answer; a body that does not decode counts as no *)
(* connection.                                                             *)
decoded(a) ==
    IF a.status >= 400 THEN errorFromResponse(a)
    ELSE IF a.json THEN NoError ELSE "CONNECTION_REFUSED"

Receive(c) ==
    /\ stage[c] = "wait" /\ answer[c] # NoAnswer
    /\ Returns(c, decoded(answer[c]), answer[c].enabled)
    /\ UNCHANGED <<life, command, handling, witnesses>>

-----------------------------------------------------------------------------
Chain(c) ==
    \/ AuthPasses(c) \/ AuthRefuses(c) \/ LogStart(c) \/ RequestID(c)
    \/ Handle(c) \/ LogFinish(c)

Proceed(c) == Send(c) \/ Refused(c) \/ Receive(c)

(* Every command ends and is not repeated. *)
Rest == (\A c \in Client : stage[c] = "done") /\ UNCHANGED vars

Next ==
    \/ Start \/ Drain \/ Stop \/ Rest
    \/ \E c \in Client : \/ Run(c) \/ Proceed(c) \/ GivesUp(c)
                         \/ StrangerAnswers(c) \/ Chain(c)

Spec == Init /\ [][Next]_vars

(* The timer of http.Client and the scheduler; nobody makes a core run. *)
FairSpec == Spec /\ \A c \in Client : WF_vars(GivesUp(c)) /\ WF_vars(Proceed(c))

-----------------------------------------------------------------------------
(* Types; requests are handled by a core that lives. *)
TypeOK ==
    /\ core \in {"down", "up", "draining"} /\ config \in CoreConfigs
    /\ stage \in [Client -> {"idle", "send", "wait", "done"}]
    /\ command \in [Client -> Commands]
    /\ path \in [Client -> Paths]
    /\ at \in [Client -> {"none", "auth", "start", "id", "handle", "finish"}]
    /\ made \in [Client -> Answer \cup {NoAnswer}]
    /\ log \in [Client -> SUBSET Line]
    /\ answer \in [Client -> Answer \cup {NoAnswer}]
    /\ code \in [Client -> ClientCodes]
    /\ report \in [Client -> Report]
    /\ lived \in [Client -> SUBSET CoreConfigs]
    /\ steady \in [Client -> BOOLEAN] /\ strange \in [Client -> BOOLEAN]
    /\ core = "down" => \A c \in Client : at[c] = "none"

Done(c) == stage[c] = "done"
Doctor(c) == command[c].name = "doctor"

(* A command ends with the code that the core has put into its answer, for *)
(* whatever the core refuses or fails at; the one code that stands for no  *)
(* answer needs a core that was not there all the time, or a lost answer.  *)
CodeIsTheCores ==
    \A c \in Client : Done(c) /\ ~ strange[c] =>
        \/ answer[c] # NoAnswer /\ code[c] = answer[c].code
        \/ code[c] = "CONNECTION_REFUSED" /\ ~ steady[c]

(* With one core up from the beginning to the end the doctor's report is   *)
(* exact: the core runs, also when it refuses the doctor's token; it       *)
(* passes exactly with the right token and shows whether the proxy is on.  *)
SteadyReportIsExact ==
    \A c \in Client : Done(c) /\ Doctor(c) /\ steady[c] =>
        \E k \in lived[c] :
            LET in == Authorized(k, command[c].token)
            IN  /\ report[c].running
                /\ report[c].reachable <=> in
                /\ report[c].enabled <=> in /\ k.enabled
                /\ report[c].passed <=> in

(* With cores that come and go what the doctor says was true at some time  *)
(* during the command: some core ran; some core had the proxy enabled.     *)
ReportWasTrue ==
    \A c \in Client : Done(c) /\ Doctor(c) /\ ~ strange[c] =>
        /\ report[c].running => lived[c] # {}
        /\ report[c].enabled => \E k \in lived[c] : k.enabled

(* A command that ends well was let in by a core of its time: one that has *)
(* the client's token, or, on a loopback address, none.                    *)
SuccessWasAuthorized ==
    \A c \in Client : Done(c) /\ code[c] = NoError /\ ~ strange[c] =>
        \E k \in lived[c] :
            \/ k.token # NoToken /\ k.token = command[c].token
            \/ k.token = NoToken /\ ~ k.remote

(* What a client has been answered is in the log of the core, with the     *)
(* status of the answer: nothing is answered before it is logged, but for  *)
(* a list that is longer than the buffer.                                  *)
AnswersAreLogged ==
    \A c \in Client : answer[c] # NoAnswer /\ ~ strange[c] =>
        \/ \E l \in log[c] : l.by \in {"auth", "finish"} /\ l.status = answer[c].status
        \/ path[c] \in Lists /\ answer[c].status = 200

(* Whatever the core does, each command comes to an end. *)
EveryCommandEnds == \A c \in Client : Running(c) ~> Done(c)

(* The inductive invariant behind these.  A request is where a living core *)
(* has it, and what has been made of it is what that core may answer.      *)
HandledInOrder == \A c \in Client :
    /\ stage[c] \in {"idle", "send"} => at[c] = "none" /\ answer[c] = NoAnswer
    /\ at[c] # "none" => core # "down" /\ config \in lived[c]
    /\ at[c] \in {"auth", "start", "id", "handle"} => answer[c] = NoAnswer
    /\ at[c] \in {"start", "id", "handle", "finish"} =>
          Authorized(config, command[c].token)
    /\ at[c] = "finish" =>
          /\ made[c] \in Handled(path[c], command[c], config)
          /\ answer[c] = NoAnswer \/ (answer[c] = made[c] /\ path[c] \in Lists)

(* An answer is one that a core of the time may give. *)
Possible(p, cmd, k) ==
    IF Authorized(k, cmd.token) THEN Handled(p, cmd, k) ELSE {Envelope("UNAUTHORIZED")}

AnswersAreGenuine == \A c \in Client :
    answer[c] # NoAnswer /\ ~ strange[c] =>
        \E k \in lived[c] : answer[c] \in Possible(path[c], command[c], k)

(* What the witnesses know. *)
WitnessesAreRight == \A c \in Client :
    /\ stage[c] = "idle" => ~ steady[c] /\ ~ strange[c]
    /\ Running(c) /\ core # "down" => config \in lived[c]
    /\ Running(c) /\ steady[c] => core = "up" /\ command[c].url
    /\ steady[c] => ~ strange[c] /\ \A k, l \in lived[c] : k = l

(* The doctor asks for the second answer after a good first one only. *)
Halfway == \A c \in Client : Running(c) /\ Doctor(c) =>
    /\ path[c] \in {"status", "proxy status"}
    /\ path[c] = "proxy status" /\ ~ strange[c] =>
          /\ report[c].running
          /\ \E k \in lived[c] : Authorized(k, command[c].token)

IndInv == /\ TypeOK /\ HandledInOrder /\ AnswersAreGenuine /\ WitnessesAreRight /\ Halfway
          /\ CodeIsTheCores /\ SteadyReportIsExact /\ ReportWasTrue
          /\ SuccessWasAuthorized /\ AnswersAreLogged

(* README.md: "Required keys in operational flows: component, operation,   *)
(* request_id"; the plan of the proxy feature wants rejections by Auth     *)
(* logged "with request_id and route".  The code violates it.              *)
LinesAreTraced == \A c \in Client : \A l \in log[c] : l.traced
=============================================================================
