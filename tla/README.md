# A verification project for quiverkeep-core

`quiverkeep-core` is a single Go binary: a core server (`quiverkeep serve`) that
owns a configuration, an SQLite database and an HTTP API with a proxy to the
Anthropic Messages API, and a thin CLI client that talks to it over HTTP. This
directory holds TLA+ specifications of its own logic, the TLC configurations
that check them on small instances, and TLAPS proofs about them. Paths below
are relative to the repository (`src/`).

## 1. Inventory

| Component | State it keeps | Operations | What is hard about it | What makes it correct |
|---|---|---|---|---|
| storage lock (`internal/storage/lock`) | the lock file: existence, process id in it, mtime | `Acquire`, `Release`, the stale-lock clean-up | several processes, every system call a window; crashes; failing calls; reused ids | at most one owner; nobody's lock is stolen; a stale lock goes away |
| store life cycle (`internal/storage/store.go`: `New`, `Close`) | lock and database handle | open, configure, migrate, chmod; close | error paths must return the lock; the order of Close | the database is only open under the lock; errors leave no lock behind |
| usage store and reports (`store.go`, `handlers.go`) | tables `usage`, `subscriptions` | insert, list, total, upsert, limits | two queries per report, times compared as text, rows inserted later than stamped | a report loses no row of its period and its total covers its items; reports only grow |
| Anthropic proxy (`internal/proxy/api`, `handlers.go`) | the diagnostics behind a mutex | `Forward`, `Status`, `trackUsage` | concurrent requests, a provider that fails at any point, timeouts, clients that leave, money spent with no record | only authorized requests spend; one usage row per success; every call ends; the diagnostics tell of one request |
| middleware (`internal/api/middleware`) | none | `Auth`, `Logging`, `RequestID` | which requests may spend; the order of the chain; answers sent before they are logged | see the proxy; whoever succeeds was let in; what is answered is logged with its status and a request id |
| error codes and envelope (`internal/errors`, `internal/api/errors`) | none | code to HTTP status | a refusal must be told from an upstream failure | a client told 401 or 503 has not been charged |
| HTTP server (`internal/api/server`, `internal/cli/commands.go`) | listener, signal context | `Run`: listen, wait, drain | signals, listener failures, a drain deadline shorter than a request | a signal ends the process; success means every request was answered; the store outlives requests |
| configuration (`internal/config`) | the config file | `Load`: find, create or read, merge, env, flags | several processes creating, reading and saving one file; precedence | the documented precedence; no file of the user is ignored or overwritten |
| CLI client and doctor (`internal/cli`) | none | `GetJSON`, `errorFromResponse`, `doctor.Run` | a core that comes and goes between two requests; answers lost half-way; strangers at the URL | a command ends, with the core's own code; what the doctor reports was true during the command, and exact for a steady core |
| logging, domain types, build data, `main` | - | - | nothing to model | - |

How they interact: `serve` loads the configuration, opens the store (which takes
the lock), runs the server; the server calls the handlers in a goroutine per
request; the handlers call the proxy, which calls the provider and inserts usage
rows through the store; the deferred `store.Close` ends every run. The CLI
commands other than `serve` load the configuration and send one or two requests.
Processes share three things: the configuration file, the lock file and the
database; the requests of one server share the diagnostics and the table `usage`.

## 2. Modules

| Module | Models | Kind |
|---|---|---|
| `ExclusiveAccess` | what the lock promises: one holder at a time, and only the holder has the database open | abstract specification, with a theorem |
| `StorageLock` | `lock.go`, `process_unix.go`, `New` and `Close` of `store.go`, `serve` around them | component; implements `ExclusiveAccess` |
| `StorageLockProofs` | | proofs |
| `CoreErrors` | the error codes, their HTTP statuses, the classification of upstream statuses | operators |
| `Metering` | what the proxy promises about money: how charges, usage rows and what the clients are told go together | abstract specification, with a theorem |
| `AnthropicProxy` | `auth.go`, the proxy handler, `Forward`, the diagnostics, `trackUsage` | component; implements `Metering` |
| `AnthropicProxyProofs` | | proofs |
| `CoreServer` | `server.Run`, the signal context and the deferred Close, around `AnthropicProxy` | composition; implements `AnthropicProxy` |
| `CoreServerProofs` | | proofs |
| `UsageReport` | `GET /usage`, `ListUsage`, `UsageSummary`, `InsertUsage` | component |
| `UsageReportProofs` | | proofs |
| `ConfigMerge` | `Default`, `mergeConfig`, `applyEnv`, `applyFlags` | operators |
| `ConfigLoad` | `config.Load` in several processes at once | component, on `ConfigMerge` |
| `ConfigLoadProofs` | | proofs |
| `CoreClient` | the read commands, `httpclient`, `doctor.Run`; the middleware chain and the read handlers that answer them | component |
| `CoreClientProofs` | | proofs |
| `MC...` | instances of the above for TLC | |

No module declares a RECURSIVE operator, so that each can be proved about.
A definition whose comment begins with "Mutant of" is a plausible mistake in the
code next to the definition it would replace; no specification uses one. The
mutants show that each property depends on the code it speaks of.

### StorageLock
One slot of `Proc` is a process started by `serve`; it may be started again after
it has ended. `pc` is the next system call: `stat`, `read`, `probe`, `remove` are
`handlePotentialStaleLock`, `create` is `OpenFile` with `O_EXCL`, `write` the
`Fprintf` of the metadata, `open` to `init` are `store.New`, `closing` and
`release` are `Close`. A file carries the process id written into it (`None`
before the write), whether its mtime is five minutes old, and, as a ghost, which
process still answers for it (`owner`; `Orphan` once that process is gone or has
given up on it). `seenAged` and `seenPid` are what a process has learned before
it removes the file: they may be stale by then, which is the point of the model.
A crash may strike anywhere; each failing call of the code is an action of its
own (a directory at the lock path is one of the causes of `AcquireFails`).

### AnthropicProxy
Requests are goroutines; `stage` follows one through middleware, handler and
`Forward`. The clock is read and the mutex taken in separate steps, as in
`markAttempt`. The provider is external: it processes a request it has been sent
once (`Serve`), at any time, also when the proxy has given the call up and told its
client so (`Sent`: nothing takes a request back), and the answer may get lost.
`gone` holds the requests whose context is cancelled. The JSON of the bodies is
one boolean: does the answer report token counts?

### CoreServer
Instantiates `AnthropicProxy` with its variables, allows its steps as long as the
process lives, and adds `Run`: the listener's goroutine, the first signal, the
drain of ten seconds (`Drained` or `DrainTimesOut`), a listener failure, which
drains nothing, and the deferred `Close`, after which INSERTs fail. The provider may
process what has been sent after the process has ended (`Processing`).

### UsageReport
Writers are the ends of `trackUsage`: they read the clock and insert later, so that
rows appear in another order than their times. Readers are requests for a report
with its two queries; a total is represented by the set of rows it sums up. Time
is in ticks of which a second has `TicksPerSecond`; a bound has a wall time and a
zone offset, `Instant` is `UTC()`, `Second` is what `Format(time.RFC3339)` keeps.

### ConfigLoad
Every process walks through `Load`; every look at the file system is a step.
`os.WriteFile` is two: `Truncate` (open with `O_TRUNC`) and `WriteDefault`. A file
is absent, broken or whole. `looked` and `found` are ghosts: how many edits there
had been at the last look, and which files there were at the start. The user's
editor (`Edit`) and `Crash` are external. `ConfigMerge` has one field for each way
fields are merged; a source is a record of sets with at most one element.

### CoreClient
`stage` follows a command: `send` and `wait` are `GetJSON`, which the doctor calls
twice. `at` follows its request through the core, inward through `Auth`, `Logging`
and `RequestID` to the handler and back to `Logging`; `made` is the answer that lies
in the buffer of `net/http` meanwhile. A short answer leaves when `Logging` has
returned; a list (`usage`, `limits`) may be longer than the buffer and leave before.
`Returns` is the code behind a call of `GetJSON`, for both calls of the doctor. The
core has three states and may be started again with another configuration; a
request that was being handled dies with it (`Stop`). `GivesUp` is a connection
that breaks or the ten seconds of the client's timer, at any moment of the request.
`StrangerAnswers` is a program that is not a core. `lived`, `steady` and `strange`
are witnesses of what happened during the command, for the properties to speak of.
What the store answers is left open: a payload, or `STORAGE_QUERY_ERROR`.

## 3. Runs

| Run | Bounds | What it shows |
|---|---|---|
| `lock_no_race` | 3 processes, 3 ids, 2 crashes, 2 failing calls, starts and ageing at any time, ids reused; `CONSTRAINT NoRace` | outside of the race of `lock_race` the lock excludes, is not stolen, is left behind only by a crash or a fault in its own write or removal, and implements `ExclusiveAccess` |
| `lock_liveness` | 2 processes, 3 ids, 2 crashes, 1 failing call, serial starts, ids not reused | a file left behind is cleaned up in the end |
| `lock_race` (violation) | 2 processes started at the same time, 1 crash | two owners: see findings |
| `lock_container` (violation) | 1 process, 1 id | a server that always gets the same id finds it in the stale file at each start, however old the file, and never cleans up |
| `proxy_requests` | 2 requests, 33 configurations, upstream 200, 400, 503, 1 failing INSERT | who may spend, what refusals cost, one row per success, diagnostics of one request, the refinement of `Metering`, and that every call ends with an answer to give |
| `proxy_timeout` (violation) | 1 request | a timeout while the body is read is a 502 |
| `server_shutdown` | 2 requests, 1 failing INSERT | success is complete, the store outlives requests, a signal ends the process, the requests still behave as `AnthropicProxy` |
| `usage_reports` | 2 writers, 2 readers, 5 filters, 4 ticks, 2 ticks a second | reports are complete, precise to a second, covered by their totals, and only grow |
| `config_load` | 2 processes, 2 files, 3 settings, 1 edit, 1 failing call, 1 crash | precedence, whose file survives, and that a client finds the server whose sources it shares |
| `config_first_load` (violation) | 2 processes, no mishaps | two first starts at once: see findings |
| `core_clients` | 1 client, 17 commands (each with the right token, another, none; a filter and a URL that do not parse), 4 core configurations, 4 strangers | commands end, with the core's code; the doctor's report; who gets in; what is logged |
| `trace_ids` (violation) | the same | log lines without a request id |

Why the bounds are enough. The races are between two processes or requests; the
third process of `lock_no_race` is one that comes after both. Two crashes or
faults let a second one hit the recovery from the first. The constraint of that
run is the hypothesis of the lock's theorems: it cuts a behaviour where a process
fills the path (creates the file, or writes its id into it) while another judges
it (has found it old and not yet given up or removed it). What happens beyond is
`lock_race`. The ticks of `usage_reports` put bounds and rows at whole and half
seconds, before, at and after each other, in two zones. One client is enough for
`core_clients`: clients share nothing but the life of the core, which is free to
do anything at any time, and no step of a client changes it. Cores may start and
stop any number of times. The proofs of section 5 remove these bounds for every
safety property of every component.

The type invariant of a module is the first part of its `IndInv`, which a run
of each component checks; the theorems `TypeCorrect` state it by itself.

`CHECK_DEADLOCK FALSE` is said in `UsageReport` and `ConfigLoad`, where every
process and request ends and nothing is left to do. `AnthropicProxy`, `CoreServer`
and `CoreClient` have a step `Rest` for that state instead, and a lock slot can always
be started again.

### Fairness
- `StorageLock`: every running process advances (the kernel schedules it), time
  passes, and somebody starts `serve` again and again: the clean-up only runs at a
  start, so that without starts a stale lock stays. Stopping a server, faults and
  crashes are not fair.
- `AnthropicProxy`: the steps of the core's own goroutines (the Go scheduler), and
  the timer of the HTTP client, which `NewAnthropicProxy` always sets. The client,
  the provider and the network owe nothing. `Reply` is not fair: the server sets no
  `WriteTimeout`, so that a client that does not read its answer blocks the handler
  for ever. `EveryCallEnds` therefore ends where `Forward` has returned.
- `CoreServer`: besides these `Run`, the timer of the drain and the deferred Close; these suffice
  for `SignalStops`, since the drain waits ten seconds and no longer for any client.
- `ConfigLoad`: a process that has started goes on.
- `CoreClient`: the steps of the client's own process, and the timer of ten seconds
  that `httpclient.New` sets. The core owes nothing, neither to run nor to answer.

## 4. Findings

1. `lock_race`: `os.Remove` in the clean-up removes whatever is at the path by
   then. Two processes that judge the same stale file may both get past `Acquire`.
2. `lock_container`: the liveness probe asks only whether some process has the
   recorded id. A server in a container, whose id is the same at each start,
   recognises itself as the owner of its predecessor's file, and refuses to start
   until somebody removes it.
3. `proxy_timeout`: the timeout of `http.Client` covers the body; its error there is
   mapped to 502 and not to the documented 504.
4. `config_first_load`: of two processes that start where there is no configuration
   yet, one may read the other's still empty file and fail with
   `CONFIG_PARSE_ERROR`.
5. `trace_ids`: `RequestID` is the innermost handler. `Auth` and `Logging` ask the
   context outside of it for the id: the lines of a refusal, of the start and of the
   end of a request carry an empty `request_id`, which `README.md` requires.

Smaller observations, without a run of their own: the total of a report may count
rows that its items do not list (hence `ListedIsCounted` is an inclusion);
`last_attempt_at` may go back while two requests overlap; any failure of `bind` is
reported as `PORT_IN_USE`; a database closed by a drain that timed out makes the
requests still at work lose their usage rows; a crash between opening and writing
the default configuration leaves a file that stops every later start; a file
cannot turn `auto_start` off, since `mergeConfig` combines it with the default by
`||` (`Precedence` leaves this field out, the theorem `AutoStartStaysOn` states it; only
`config show` reads it); `core.url` always has a value, so that `EffectiveURL` never
falls back on bind and port, and with nothing but a port configured the server
listens there while the client asks 8765 (hence the premise of `ServerIsFound`, that
the source which gives the address gives it as both); a client that is told
`VALIDATION_FAILED` cannot tell the core's own check, which costs nothing, from a 400
or 422 of the provider, which has processed the request (hence `Refusals` leaves that
code out); an error
page of a gateway makes the doctor report a running core; the lock lies beside the
configuration, so that it does not keep two cores from one `storage.path`.

## 5. Proofs

All by TLAPS, for every value of the constants that satisfies the named
assumptions of the modules (sets are what they are called, bounds are natural).
Only the lock's theorems have a further hypothesis, on the behaviour.

- **ExclusiveAccess**. `OneUser`: whoever has the database open is the holder, so
  that the abstract lock does what it is for.
- **StorageLock** (`StorageLockProofs`). `Inductive`: `Spec /\ []NoRace => []IndInv`.
  `NoRace` is the one thing the code needs from outside and does not enforce; without
  it mutual exclusion is false (`lock_race`). It asks less than that starts be
  serial: processes may start, wait and fail at the same time, and files may age.
  `CalmAvoidsRace` shows that it can be had, in two ways an operator can arrange:
  one start at a time, or several while no file is old (`Calm => (Spec => []NoRace)`;
  its invariants are `OneStarter` and `NoneAged`). Mutual exclusion is not
  inductive: that the removed file is nobody's (`RemoveIsSafe`) depends on the id
  a process has read being the one in the file now (`SeenIsCurrent`), which `NoRace`
  keeps, and on the owner's id being in the file and the owner alive (`OwnerHolds`,
  `PidsKnown`, `HolderOwns`). From it follow `AtMostOneOwner`, `DatabaseIsLocked`, the
  action property `LockIsNotStolen` and the refinement `Implements`; with
  `ExclusiveAccess!OneUser` the refinement gives `DatabaseHasOneUser`, and with `Calm`
  `CalmIsSafe`. `TypeCorrect` and the action property `NothingLeftBehind` hold in every
  behaviour, the race included.
- **Metering**. `BooksAlwaysAgree`: no row without a charge; what was refused is
  never charged, not even late; no row for what the client was told has failed.
- **AnthropicProxy** (`AnthropicProxyProofs`). `IndInv` adds to the properties what
  a stage entails: nothing has happened before the call (`Untouched`), whoever is
  past the middleware is authorized (`Guarded`), what `Forward` has decided agrees
  with what the provider did (`Decided`), a row is there before the answer
  (`Accounted`), an attempt is stored before an outcome (`Attempted`), and what the
  client has been told is what `Forward` decided on (`Told`). `KeepsTheBooks` is the
  refinement of `Metering`, `BooksOfTheProxyAgree` what it is for. The provider may
  process a request after the client has its answer, so the refinement rests on
  `Told`, which carries the decision of `Forward` beyond the end of the request, and
  on `Guarded`, which says the same of what has been `Sent`.
- **CoreServer** (`CoreServerProofs`). `Implements` is a refinement: the variables of
  the proxy are the server's own, each step of the server is a step of
  `AnthropicProxy` or leaves its variables alone. With `Inductive` of the proxy it
  gives `ProxyInvariant`, all safety properties of the proxy inside the server, and
  with `RunIsOrderly` and `WaysOut` (how `Run` got where it is, and why the process
  ends as it does) the server's own `SuccessMeansAnswered` and `StoreClosesLast`. The
  two refinements compose to `ServerKeepsTheBooks`: a drain that times out, a store
  closed under a request and the end of the process lose rows and leave none wrong.
- **UsageReport** (`UsageReportProofs`). Lemmas about cutting seconds off
  (`SecondBounds`, `SecondMonotone`, `SecondPrecision`) and the invariant
  `Snapshots`: a reader's result is a part of the table now and contains what the
  table had when the request was sent. `ReportsAreComplete` and `ReportsArePrecise`
  combine the two, `LaterReportsHoldMore` two snapshots.
- **ConfigLoad** (`ConfigLoadProofs`). Lemmas about `Or` and the merge
  (`LoadPrefers`, `CreatedPrefers`: the order of application is the documented one,
  for every value of every source), that no step removes a file (`FilesStay`), and
  the invariant: `Selected` (what was found is still there and decides the path),
  `Overwriting` (a process about to write has seen no file of the user since) and
  `Merged`. From it follow `SourcesInOrder`, `ExistingFileIsUsed`,
  `OnlyWritersBreak` and the action property `SavedFileIsKept`. `ClientFindsServer`
  applies the precedence to two processes and two fields, the port of a server and
  the URL of a client; `AutoStartStaysOn` states the exception to the precedence.
- **CoreClient** (`CoreClientProofs`). The invariant says that a request is handled by
  a core that lives, in the order of the chain (`HandledInOrder`), that an answer on
  its way is one a core of the time may give (`AnswersAreGenuine`), what the
  witnesses know (`WitnessesAreRight`) and what the doctor has learned after its
  first answer (`Halfway`). The five properties follow at the step that ends a
  command. Lemmas state what `Returns` does in each of its ways, once for the three
  actions that contain it.

Only model-checked: the liveness properties `StaleLockCleaned`, `EveryCallEnds`,
`SignalStops`, `BrokenIsTransient` and `EveryCommandEnds` (the installed provers do
not reason about fairness and ENABLED), and the five violations. Every other property
of a run is a theorem too.

## 6. What is not modelled, and what is abstracted

- Wording, log levels and files, JSON, the masking of secrets, Windows' process probe and file
  permissions. `process_other.go` always answers that no process exists: there the
  clean-up goes by age alone.
- Processes outside of this program that hold an id a lock file mentions (a
  `Running` id is always a `serve`); the wall clock set back; years outside
  0..9999; int64 overflow of sums; the order of items; a configuration file that
  is deleted, or whose `stat` fails, while processes load it.
- Tokens that themselves begin with "bearer ", which `Auth` strips off and so never
  accepts; other spellings and spaces of the header.
- HTTP redirects by the provider, retries inside `net/http`'s transport, the race
  of `Shutdown` with idle connections.
- SQLite: a statement is atomic and sees the table as it is then; that is WAL mode
  with one statement per transaction. `PRAGMA busy_timeout` reaches one connection
  of the pool only; an INSERT on another may fail, which `TrackFails` allows.
- What `GET /limits` and `GET /subscriptions` compute: their table is written by
  tests only (`UpsertSubscription` has no other caller), so that a core answers
  empty lists. `CoreClient` has the answer of `/limits` as a payload or an error.
- The commands `config show`, `config path` and `version`, which only print, and the
  loading of the configuration before a read command: that is `ConfigLoad`.
- Methods other than GET on the read endpoints, `/api/v1/subscriptions` and
  `/api/v1/providers`, which no command asks for.

## 7. Plan

What is left, in this order.

1. `Deployment`: `ConfigLoad`, `StorageLock` and `CoreServer` composed: two `serve`
   processes with their own configurations; the lock is kept beside the
   configuration, the database may be elsewhere.
2. The commands of `CoreClient` with `ConfigLoad` before them: a command and a core
   that load one file at different times.
3. `Subscriptions`: upsert, list and limits, with concurrent upserts of a service,
   when the program comes to write them.
