---------------------------- MODULE AnthropicProxy ----------------------------
(***************************************************************************)
(* POST /api/v1/proxy/anthropic/messages, from the bearer check to the     *)
(* answer: middleware/auth.go, proxyAnthropicMessages in                   *)
(* handlers/handlers.go, Forward, the diagnostics and trackUsage in        *)
(* internal/proxy/api/anthropic_proxy.go, and InsertUsage in               *)
(* internal/storage/store.go.                                              *)
(*                                                                         *)
(* net/http runs every request in a goroutine of its own; they share the   *)
(* diagnostics, behind a mutex, and the usage table.  A request walks      *)
(*                                                                         *)
(*   idle -> auth -> handler                     middleware and handler    *)
(*        -> now -> attempt -> route             Forward: markAttempt      *)
(*        -> calling -> reading                  the provider is called    *)
(*        -> okNow -> okMark -> track            markSuccess, trackUsage   *)
(*        -> reply -> done                                                 *)
(*                                                                         *)
(* and leaves it for failed (markFailure) or reply where the code returns  *)
(* an error.  Reading the clock and entering the mutex are separate steps  *)
(* because they are separate in markAttempt and markSuccess.               *)
(***************************************************************************)
EXTENDS Naturals, CoreErrors

CONSTANTS
    Req,              \* requests
    Configs,          \* configurations the core may be started with
    UpstreamStatus,   \* statuses the provider may answer with
    MaxStoreErrors    \* bound on the failing INSERTs of a behaviour

(* enabled, base (the base URL parses), remote: proxy.enabled, base_url,   *)
(* isRemoteMode; key, token: the provider key and the core token are set;  *)
(* timeout: proxy.anthropic.timeout_seconds.                               *)
Config == [enabled : BOOLEAN, base : BOOLEAN, remote : BOOLEAN,
           key : BOOLEAN, token : BOOLEAN, timeout : Int]

ASSUME ConfigsAreConfigs == Configs \subseteq Config
ASSUME StatusesAreHTTP == UpstreamStatus \subseteq 100..599
ASSUME BoundIsNatural == MaxStoreErrors \in Nat

VARIABLES
    cfg,          \* the configuration of this core
    stage,        \* where each request is
    cred,         \* the Authorization header of each request
    gone,         \* requests whose client has gone: their context is cancelled
    served,       \* how often the provider has processed each request
    answer,       \* the status it answers with, 0 before
    usage,        \* does the response body report token counts?
    late,         \* requests that ran into the timeout of the HTTP client
    outcome,      \* the error code and upstream code Forward has decided on
    stamp,        \* the time a request has read and not yet stored
    clock,        \* how often the clock has been read
    status,       \* the diagnostics shared by all requests
    rows,         \* usage rows stored for each request
    storeErrors,  \* failed INSERTs
    reply         \* what each client was answered

vars == <<cfg, stage, cred, gone, served, answer, usage, late, outcome, stamp,
          clock, status, rows, storeErrors, reply>>

Stage == {"idle", "auth", "handler", "now", "attempt", "route", "calling",
          "reading", "failed", "okNow", "okMark", "track", "reply", "done"}
Cred == {"none", "wrong", "right"}
Code == Codes \cup {NoError}
Status0 == UpstreamStatus \cup {0}
Outcome == [code : Code, upstream : Status0]
Diagnostics == [attempt : Nat, success : Nat, code : Code, upstream : Status0]
Answers == [status : Status0 \cup {400, 401, 409, 500, 502, 503, 504}, code : Code]
NoReply == [status |-> 0, code |-> NoError]
NoOutcome == [code |-> NoError, upstream |-> 0]

(* Time 0 stands for a nil timestamp, upstream code 0 for a nil pointer. *)
Init ==
    /\ cfg \in Configs
    /\ stage = [r \in Req |-> "idle"]
    /\ cred = [r \in Req |-> "none"]
    /\ gone = {} /\ late = {}
    /\ served = [r \in Req |-> 0]
    /\ answer = [r \in Req |-> 0]
    /\ usage = [r \in Req |-> FALSE]
    /\ outcome = [r \in Req |-> NoOutcome]
    /\ stamp = [r \in Req |-> 0]
    /\ clock = 0
    /\ status = [attempt |-> 0, success |-> 0, code |-> NoError, upstream |-> 0]
    /\ rows = [r \in Req |-> 0]
    /\ storeErrors = 0
    /\ reply = [r \in Req |-> NoReply]

Go(r, from, to) == stage[r] = from /\ stage' = [stage EXCEPT ![r] = to]

Answer(r, s, code) == reply' = [reply EXCEPT ![r] = [status |-> s, code |-> code]]

(* Forward has decided to return an error; markFailure comes first. *)
Fails(r, from, code, upstream) ==
    /\ Go(r, from, "failed")
    /\ outcome' = [outcome EXCEPT ![r] = [code |-> code, upstream |-> upstream]]

request  == <<cred, gone>>
provider == <<served, answer, usage, late>>
store    == <<rows, storeErrors>>
time     == <<stamp, clock>>

-----------------------------------------------------------------------------
(* The client: sends a request, may go away at any time before the answer. *)
Send(r) ==
    /\ Go(r, "idle", "auth")
    /\ \E c \in Cred : cred' = [cred EXCEPT ![r] = c]
    /\ UNCHANGED <<cfg, gone, provider, outcome, time, status, store, reply>>

Leave(r) ==
    /\ stage[r] \notin {"idle", "done"} /\ r \notin gone
    /\ gone' = gone \cup {r}
    /\ UNCHANGED <<cfg, stage, cred, provider, outcome, time, status, store, reply>>

(* Mutant of Authorized: the loopback interface is trusted with spending. *)
AuthorizedLoopback(spending, c) ==
    /\ cfg.remote => cfg.token
    /\ cfg.token => c = "right"

(* Auth.  spending is requiresTokenForProxySpend of the path. *)
Authorized(spending, c) ==
    /\ cfg.remote \/ spending => cfg.token
    /\ cfg.token => c = "right"

Auth(r) ==
    /\ IF Authorized(TRUE, cred[r])
       THEN Go(r, "auth", "handler") /\ UNCHANGED reply
       ELSE Go(r, "auth", "done") /\ Answer(r, 401, "UNAUTHORIZED")
    /\ UNCHANGED <<cfg, request, provider, outcome, time, status, store>>

(* Mutant of Validate: Forward no longer begins with markAttempt. *)
ValidateUnmarked(r) ==
    /\ Go(r, "handler", "route")
    /\ UNCHANGED <<cfg, request, provider, outcome, time, status, store, reply>>

(* The handler: the method, the content type or the body is refused - a    *)
(* body that cannot be read to its end as well - or Forward is called.     *)
Validate(r) ==
    /\ \/ Go(r, "handler", "now") /\ UNCHANGED reply
       \/ /\ Go(r, "handler", "done")
          /\ Answer(r, toHTTPStatus("VALIDATION_FAILED"), "VALIDATION_FAILED")
    /\ UNCHANGED <<cfg, request, provider, outcome, time, status, store>>

-----------------------------------------------------------------------------
(* markAttempt and markSuccess start with time.Now() ... *)
ReadClock(r) ==
    /\ Go(r, "now", "attempt") \/ Go(r, "okNow", "okMark")
    /\ clock' = clock + 1
    /\ stamp' = [stamp EXCEPT ![r] = clock']
    /\ UNCHANGED <<cfg, request, provider, outcome, status, store, reply>>

(* ... and only then take the mutex. *)
MarkAttempt(r) ==
    /\ Go(r, "attempt", "route")
    /\ status' = [status EXCEPT !.attempt = stamp[r]]
    /\ stamp' = [stamp EXCEPT ![r] = 0]
    /\ UNCHANGED <<cfg, request, provider, outcome, clock, store, reply>>

(* The error returns of Forward before the call to the provider. *)
Refuse(r) ==
    /\ \/ ~ cfg.enabled /\ Fails(r, "route", "PROXY_DISABLED", 0)
       \/ cfg.enabled /\ ~ cfg.key /\ Fails(r, "route", "PROXY_NOT_CONFIGURED", 0)
       \/ /\ cfg.enabled /\ cfg.key /\ ~ cfg.base
          /\ Fails(r, "route", "PROXY_UPSTREAM_ERROR", 0)
    /\ UNCHANGED <<cfg, request, provider, time, status, store, reply>>

Call(r) ==
    /\ cfg.enabled /\ cfg.key /\ cfg.base
    /\ Go(r, "route", "calling")
    /\ UNCHANGED <<cfg, request, provider, outcome, time, status, store, reply>>

-----------------------------------------------------------------------------
(* What has been sent: the call is under way, or Forward has given it up,  *)
(* which does not take the request back.                                   *)
Sent(r) ==
    \/ stage[r] = "calling"
    \/ cfg.base /\ outcome[r].code \in {"PROXY_TIMEOUT", "PROXY_UPSTREAM_ERROR"}

(* The provider processes the request, perhaps when nobody waits for the   *)
(* answer any more; the answer may still get lost.                         *)
Serve(r) ==
    /\ Sent(r) /\ served[r] = 0
    /\ served' = [served EXCEPT ![r] = @ + 1]
    /\ \E s \in UpstreamStatus : answer' = [answer EXCEPT ![r] = s]
    /\ \E u \in BOOLEAN : usage' = [usage EXCEPT ![r] = u]
    /\ UNCHANGED <<cfg, stage, request, late, outcome, time, status, store, reply>>

(* client.Do returns the headers ... *)
HeadersArrive(r) ==
    /\ served[r] > 0
    /\ Go(r, "calling", "reading")
    /\ UNCHANGED <<cfg, request, provider, outcome, time, status, store, reply>>

(* ... or an error: the connection, or the cancelled context of a request  *)
(* whose client has gone.                                                  *)
CallFails(r) ==
    /\ Fails(r, "calling", "PROXY_UPSTREAM_ERROR", 0)
    /\ UNCHANGED <<cfg, request, provider, time, status, store, reply>>

(* Mutant of clientTimeout: the default for unset timeouts is forgotten. *)
configuredTimeout == cfg.timeout

(* NewAnthropicProxy; a timeout of 0 would mean none to http.Client, which *)
(* runs it from the start of the call to the end of the body.              *)
clientTimeout == IF cfg.timeout <= 0 THEN 30 ELSE cfg.timeout

CallTimesOut(r) ==
    /\ clientTimeout > 0
    /\ Fails(r, "calling", "PROXY_TIMEOUT", 0)
    /\ late' = late \cup {r}
    /\ UNCHANGED <<cfg, request, served, answer, usage, time, status, store, reply>>

(* Mutant of BodyArrives: every status of the provider is passed through. *)
BodyPassesThrough(r) ==
    /\ Go(r, "reading", "okNow")
    /\ outcome' = [outcome EXCEPT ![r].upstream = answer[r]]
    /\ UNCHANGED <<cfg, request, provider, time, status, store, reply>>

(* io.ReadAll returned the body; it may be too long, and a status other    *)
(* than 2xx is an error.                                                   *)
BodyArrives(r) ==
    /\ IF Success(answer[r])
       THEN /\ Go(r, "reading", "okNow")
            /\ outcome' = [outcome EXCEPT ![r].upstream = answer[r]]
       ELSE Fails(r, "reading", proxyErrorFromUpstreamStatus(answer[r]), answer[r])
    /\ UNCHANGED <<cfg, request, provider, time, status, store, reply>>

(* Mutant of BodyFails: the token counts of a body that was read in part    *)
(* are stored.                                                             *)
BodyFailsCounted(r) ==
    /\ Fails(r, "reading", "PROXY_UPSTREAM_ERROR", answer[r])
    /\ rows' = [rows EXCEPT ![r] = IF usage[r] /\ Success(answer[r]) THEN @ + 1 ELSE @]
    /\ UNCHANGED <<cfg, request, provider, time, status, storeErrors, reply>>

(* A broken or cancelled connection, or a body beyond 8 MiB. *)
BodyFails(r) ==
    /\ Fails(r, "reading", "PROXY_UPSTREAM_ERROR", answer[r])
    /\ UNCHANGED <<cfg, request, provider, time, status, store, reply>>

(* ReadAll's error is not asked whether it is a timeout. *)
BodyTimesOut(r) ==
    /\ clientTimeout > 0
    /\ Fails(r, "reading", "PROXY_UPSTREAM_ERROR", answer[r])
    /\ late' = late \cup {r}
    /\ UNCHANGED <<cfg, request, served, answer, usage, time, status, store, reply>>

-----------------------------------------------------------------------------
(* Mutant of MarkFailure: without an upstream status the old one stays. *)
MarkFailureKeepsUpstream(r) ==
    /\ Go(r, "failed", "reply")
    /\ status' = [status EXCEPT !.code = outcome[r].code,
                                !.upstream = IF outcome[r].upstream = 0
                                             THEN @ ELSE outcome[r].upstream]
    /\ UNCHANGED <<cfg, request, provider, outcome, time, store, reply>>

MarkFailure(r) ==
    /\ Go(r, "failed", "reply")
    /\ status' = [status EXCEPT !.code = outcome[r].code,
                                !.upstream = outcome[r].upstream]
    /\ UNCHANGED <<cfg, request, provider, outcome, time, store, reply>>

(* Mutant of MarkSuccess: Forward returns without trackUsage. *)
MarkSuccessOnly(r) ==
    /\ Go(r, "okMark", "reply")
    /\ status' = [status EXCEPT !.success = stamp[r], !.code = NoError,
                                !.upstream = outcome[r].upstream]
    /\ stamp' = [stamp EXCEPT ![r] = 0]
    /\ UNCHANGED <<cfg, request, provider, outcome, clock, store, reply>>

MarkSuccess(r) ==
    /\ Go(r, "okMark", "track")
    /\ status' = [status EXCEPT !.success = stamp[r], !.code = NoError,
                                !.upstream = outcome[r].upstream]
    /\ stamp' = [stamp EXCEPT ![r] = 0]
    /\ UNCHANGED <<cfg, request, provider, outcome, clock, store, reply>>

(* trackUsage: a status other than 2xx, a body that does not parse, or     *)
(* token counts that are both zero are skipped.                            *)
TrackNothing(r) ==
    /\ ~ usage[r] \/ ~ Success(outcome[r].upstream)
    /\ Go(r, "track", "reply")
    /\ UNCHANGED <<cfg, request, provider, outcome, time, status, store, reply>>

TrackUsage(r) ==
    /\ usage[r] /\ Success(outcome[r].upstream) /\ r \notin gone
    /\ Go(r, "track", "reply")
    /\ rows' = [rows EXCEPT ![r] = @ + 1]
    /\ UNCHANGED <<cfg, request, provider, outcome, time, status, storeErrors, reply>>

(* InsertUsage runs under the context of the request: with the client gone *)
(* it fails.  Any failure is logged, and the client is answered all the    *)
(* same.                                                                   *)
TrackCancelled(r) ==
    /\ usage[r] /\ Success(outcome[r].upstream) /\ r \in gone
    /\ Go(r, "track", "reply")
    /\ UNCHANGED <<cfg, request, provider, outcome, time, status, store, reply>>

(* Mutant of TrackFails: an INSERT that has failed after all, a timeout     *)
(* behind its commit, is repeated.                                         *)
TrackAgain(r) ==
    /\ usage[r] /\ Success(outcome[r].upstream) /\ storeErrors < MaxStoreErrors
    /\ stage[r] = "track" /\ UNCHANGED stage
    /\ rows' = [rows EXCEPT ![r] = @ + 1]
    /\ storeErrors' = storeErrors + 1
    /\ UNCHANGED <<cfg, request, provider, outcome, time, status, reply>>

TrackFails(r) ==
    /\ usage[r] /\ Success(outcome[r].upstream) /\ storeErrors < MaxStoreErrors
    /\ Go(r, "track", "reply")
    /\ storeErrors' = storeErrors + 1
    /\ UNCHANGED <<cfg, request, provider, outcome, time, status, rows, reply>>

(* The handler writes the provider's answer through, or the envelope, to a *)
(* client that reads it or has gone.                                       *)
Reply(r) ==
    /\ Go(r, "reply", "done")
    /\ IF outcome[r].code = NoError
       THEN Answer(r, outcome[r].upstream, NoError)
       ELSE Answer(r, toHTTPStatus(outcome[r].code), outcome[r].code)
    /\ UNCHANGED <<cfg, request, provider, outcome, time, status, store>>

-----------------------------------------------------------------------------
(* What the core does by itself once it has been asked. *)
Advance(r) ==
    \/ Auth(r) \/ ReadClock(r) \/ MarkAttempt(r) \/ Refuse(r) \/ Call(r)
    \/ MarkFailure(r) \/ MarkSuccess(r)
    \/ TrackNothing(r) \/ TrackUsage(r) \/ TrackCancelled(r) \/ TrackFails(r)

(* The HTTP client gives up waiting. *)
Timeout(r) == CallTimesOut(r) \/ BodyTimesOut(r)

(* What clients, provider and network may do and need not.  Reply is among *)
(* it: the server has no WriteTimeout, and a client that does not read     *)
(* what it has asked for keeps the handler in its write for ever.          *)
Outside(r) ==
    \/ Send(r) \/ Leave(r) \/ Validate(r) \/ Serve(r) \/ HeadersArrive(r)
    \/ CallFails(r) \/ BodyArrives(r) \/ BodyFails(r) \/ Reply(r)

(* Requests are finite: when all are answered nothing is left to do. *)
Rest == (\A r \in Req : stage[r] = "done") /\ UNCHANGED vars

Next == (\E r \in Req : Advance(r) \/ Timeout(r) \/ Outside(r)) \/ Rest

Spec == Init /\ [][Next]_vars

(* The Go scheduler runs every goroutine and the timer of the HTTP client  *)
(* fires; nobody makes the client or the provider do anything.             *)
FairSpec == Spec /\ \A r \in Req : WF_vars(Advance(r)) /\ WF_vars(Timeout(r))

-----------------------------------------------------------------------------
TypeOK ==
    /\ cfg \in Configs
    /\ stage \in [Req -> Stage]
    /\ cred \in [Req -> Cred]
    /\ gone \subseteq Req /\ late \subseteq Req
    /\ served \in [Req -> {0, 1}]
    /\ answer \in [Req -> Status0]
    /\ usage \in [Req -> BOOLEAN]
    /\ outcome \in [Req -> Outcome]
    /\ stamp \in [Req -> Nat] /\ clock \in Nat
    /\ status \in Diagnostics
    /\ rows \in [Req -> Nat]
    /\ storeErrors \in 0..MaxStoreErrors
    /\ reply \in [Req -> Answers]

(* "Provider-spending proxy calls require core bearer auth even in         *)
(* loopback mode" (README.md): the provider is reached only with a core    *)
(* token configured and presented, the proxy enabled and a provider key.   *)
SpendingIsAuthorized ==
    \A r \in Req : served[r] > 0 =>
        cfg.token /\ cred[r] = "right" /\ cfg.enabled /\ cfg.key

(* A client that is told 401 or 503 - the core's own refusals - has not    *)
(* been charged by the provider: no answer of the provider looks like one. *)
RefusalsSpendNothing ==
    \A r \in Req : reply[r].status \in {401, 503} => served[r] = 0

(* A usage row stands for one request that the provider has processed      *)
(* once, successfully; no failure and no repetition adds to the totals.    *)
UsageIsReal ==
    \A r \in Req : rows[r] > 0 =>
        rows[r] = 1 /\ served[r] = 1 /\ Success(answer[r]) /\ usage[r]

(* A client that has waited for a passed-through answer with token counts  *)
(* finds it in the usage table, unless the table could not be written.     *)
SuccessIsAccounted ==
    \A r \in Req :
        /\ reply[r].status # 0 /\ reply[r].code = NoError
        /\ usage[r] /\ r \notin gone /\ storeErrors = 0
        => rows[r] = 1

(* What GET /api/v1/proxy/status shows as the last error and the last      *)
(* upstream code are those of one request that has finished calling: never *)
(* the code of one and the upstream status of another.                     *)
Finished(r) == stage[r] \in {"track", "reply", "done"}
DiagnosticsAreOneOutcome ==
    \/ status.code = NoError /\ status.upstream = 0
    \/ \E r \in Req : /\ Finished(r)
                      /\ outcome[r] = [code |-> status.code, upstream |-> status.upstream]

(* The state that Status() warns about is never reached: an outcome        *)
(* without an attempt.                                                     *)
DiagnosticsConsistent ==
    status.attempt = 0 => status.success = 0 /\ status.code = NoError

(* The inductive invariant behind the safety properties. *)
Early   == {"idle", "auth", "handler", "now", "attempt", "route"}
Engaged == {"calling", "reading", "okNow", "okMark", "track"}

(* Before the call nothing has happened that anybody could notice; before  *)
(* the end nothing is answered.                                            *)
Untouched == \A r \in Req :
    /\ stage[r] \in Early => served[r] = 0 /\ rows[r] = 0
    /\ stage[r] \in Early \cup {"calling", "reading"} => outcome[r] = NoOutcome
    /\ stage[r] # "done" => reply[r] = NoReply
Guarded == \A r \in Req :
    /\ stage[r] \notin {"idle", "auth", "done"} => cfg.token /\ cred[r] = "right"
    /\ stage[r] \in Engaged => cfg.enabled /\ cfg.key
    /\ Sent(r) => cfg.token /\ cred[r] = "right" /\ cfg.enabled /\ cfg.key
(* What Forward has decided on, and what it may find in the world then. *)
Decided == \A r \in Req :
    /\ outcome[r].code # "UNAUTHORIZED"
    /\ outcome[r].code \in {"PROXY_DISABLED", "PROXY_NOT_CONFIGURED"} => served[r] = 0
    /\ outcome[r].code # NoError => rows[r] = 0
    /\ stage[r] = "failed" => outcome[r].code # NoError
    /\ stage[r] = "reading" => served[r] = 1
    /\ stage[r] \in {"okNow", "okMark", "track"} =>
          outcome[r].code = NoError
    /\ stage[r] \in {"okNow", "okMark", "track", "reply"} /\ outcome[r].code = NoError =>
          served[r] = 1 /\ Success(answer[r]) /\ outcome[r].upstream = answer[r]
    /\ stage[r] \notin {"reply", "done"} => rows[r] = 0
(* What the client is told is what Forward has decided on, if it came to   *)
(* that.                                                                   *)
Told == \A r \in Req : stage[r] = "done" =>
    /\ outcome[r] = NoOutcome =>
          reply[r].code \in {"UNAUTHORIZED", "VALIDATION_FAILED"} /\ served[r] = 0
    /\ outcome[r] # NoOutcome => reply[r].code = outcome[r].code
    /\ reply[r].status = IF reply[r].code = NoError THEN outcome[r].upstream
                         ELSE toHTTPStatus(reply[r].code)
Accounted == \A r \in Req :
    stage[r] = "reply" /\ outcome[r].code = NoError
    /\ usage[r] /\ r \notin gone /\ storeErrors = 0 => rows[r] = 1
Attempted ==
    /\ \A r \in Req : stage[r] \in {"attempt", "okMark"} => stamp[r] > 0
    /\ \A r \in Req : stage[r] \in Engaged \cup {"route", "failed", "reply"} =>
          status.attempt > 0

IndInv == /\ TypeOK /\ Untouched /\ Guarded /\ Decided /\ Told
          /\ Accounted /\ Attempted
          /\ SpendingIsAuthorized /\ RefusalsSpendNothing /\ UsageIsReal
          /\ SuccessIsAccounted /\ DiagnosticsAreOneOutcome
          /\ DiagnosticsConsistent

(* What a client can tell of its call: a refusal of the core, the answer   *)
(* of the provider, or a failure.  VALIDATION_FAILED is no sure refusal:   *)
(* the core says so of its own checks and of a 400 or 422 of the provider. *)
Refusals == {"UNAUTHORIZED", "PROXY_DISABLED", "PROXY_NOT_CONFIGURED"}
Tale(code) == CASE code = NoError -> "answer"
                [] code \in Refusals -> "refused"
                [] OTHER -> "failed"

Meter == INSTANCE Metering WITH
    charged  <- {r \in Req : served[r] > 0},
    recorded <- {r \in Req : rows[r] > 0},
    told     <- [r \in Req |->
                   IF stage[r] = "done" THEN Tale(reply[r].code) ELSE "nothing"]

(* The code keeps the books as Metering promises: a row is written after   *)
(* the charge and before the answer, never for what the client is told has *)
(* failed, and what the core refuses is not charged, not even afterwards.  *)
ImplementsMetering == Meter!Spec

(* Once the provider is called Forward comes to an answer, whatever the    *)
(* provider and the client do: the timeout ends every call.  Whether the   *)
(* answer gets to the client is up to the client.                          *)
EveryCallEnds == \A r \in Req : stage[r] = "calling" ~> stage[r] = "reply"

(* openapi.yaml, 504: "Upstream provider timeout mapped to stable core     *)
(* error".  The code violates it when the timeout strikes after the        *)
(* headers have arrived.                                                   *)
TimeoutIsGatewayTimeout ==
    \A r \in Req : r \in late /\ stage[r] = "done" => reply[r].status = 504
=============================================================================
