----------------------------- MODULE UsageReport -----------------------------
(***************************************************************************)
(* GET /api/v1/usage beside the proxy requests that write the rows it      *)
(* reports: usage and parseUsageFilter in handlers/handlers.go, ListUsage, *)
(* UsageSummary and InsertUsage in storage/store.go, and the end of        *)
(* trackUsage in proxy/api/anthropic_proxy.go, which reads the clock       *)
(* before it calls InsertUsage.                                            *)
(*                                                                         *)
(* A report makes two queries, each of which sees the table as it is then: *)
(*   idle -> list -> total -> done                                         *)
(*                                                                         *)
(* Time is counted in ticks.  created_at, from and to are compared as      *)
(* RFC3339 text in UTC, whose order is that of whole seconds.  A total is  *)
(* represented by the set of rows it is the sum of.  The order of the      *)
(* items, rows.Scan and Limits are left out.                               *)
(***************************************************************************)
EXTENDS Integers, FiniteSets, CoreErrors

CONSTANTS
    Writers,          \* proxy requests that have token counts to store
    Readers,          \* requests for a report
    Filters,          \* filters the readers may ask for
    TicksPerSecond,
    MaxTime           \* bound on the clock

Services == {"any", "anthropic", "openai"}   \* "any" is no service filter

(* A timestamp of the query string: the time it shows and the offset of    *)
(* its zone, both in ticks.  A bound that is not given is the empty set.   *)
Timestamp == [wall : Int, offset : Int]
Filter == [service : Services, from : SUBSET Timestamp, to : SUBSET Timestamp]

ASSUME FiltersAreFilters ==
    \A f \in Filters : /\ f.service \in Services
                       /\ \A b \in f.from \cup f.to : b.wall \in Int /\ b.offset \in Int
ASSUME SecondHasTicks == TicksPerSecond \in Nat \ {0}
ASSUME TimeIsNatural == MaxTime \in Nat

VARIABLES
    clock,
    wstage,     \* where each writer is
    stamp,      \* the time it has read
    table,      \* the writers whose row is in the table usage
    rstage,     \* where each reader is
    filter,     \* what it asks for
    before,     \* the rows and the answered reports when it was sent
    items,      \* the rows ListUsage has returned
    counted,    \* the rows UsageSummary has added up
    reply       \* the HTTP status of the answer, 0 before

vars == <<clock, wstage, stamp, table, rstage, filter, before, items, counted, reply>>
writing == <<wstage, stamp, table>>
reading == <<rstage, filter, before, items, counted, reply>>

Init ==
    /\ clock = 0
    /\ wstage = [w \in Writers |-> "idle"]
    /\ stamp = [w \in Writers |-> 0]
    /\ table = {}
    /\ rstage = [r \in Readers |-> "idle"]
    /\ filter \in [Readers -> Filters]
    /\ before = [r \in Readers |-> [rows |-> {}, reports |-> {}]]
    /\ items = [r \in Readers |-> {}]
    /\ counted = [r \in Readers |-> {}]
    /\ reply = [r \in Readers |-> 0]

Tick == clock < MaxTime /\ clock' = clock + 1 /\ UNCHANGED <<writing, reading>>

-----------------------------------------------------------------------------
(* trackUsage: CreatedAt is time.Now() ... *)
Stamp(w) ==
    /\ wstage[w] = "idle" /\ wstage' = [wstage EXCEPT ![w] = "stamped"]
    /\ stamp' = [stamp EXCEPT ![w] = clock]
    /\ UNCHANGED <<clock, table, reading>>

(* Mutant of Insert: created_at is the primary key, with INSERT OR REPLACE. *)
InsertReplaces(w) ==
    /\ wstage[w] = "stamped" /\ wstage' = [wstage EXCEPT ![w] = "stored"]
    /\ table' = {w} \cup {x \in table : stamp[x] # stamp[w]}
    /\ UNCHANGED <<clock, stamp, reading>>

(* ... and InsertUsage writes the row later, or not at all. *)
Insert(w) ==
    /\ wstage[w] = "stamped" /\ wstage' = [wstage EXCEPT ![w] = "stored"]
    /\ table' = table \cup {w}
    /\ UNCHANGED <<clock, stamp, reading>>

(* Mutant of InsertFails: the error is reported although the row is there. *)
InsertFailsLate(w) ==
    /\ wstage[w] = "stamped" /\ wstage' = [wstage EXCEPT ![w] = "lost"]
    /\ table' = table \cup {w}
    /\ UNCHANGED <<clock, stamp, reading>>

InsertFails(w) ==
    /\ wstage[w] = "stamped" /\ wstage' = [wstage EXCEPT ![w] = "lost"]
    /\ UNCHANGED <<clock, stamp, table, reading>>

-----------------------------------------------------------------------------
(* filter.From.UTC(): the instant a timestamp names. *)
Instant(b) == b.wall - b.offset

(* Format(time.RFC3339) cuts the fraction off. *)
Second(t) == t \div TicksPerSecond

(* Mutant of Matches: the bounds keep their fraction of a second. *)
MatchesExactly(w, f) ==
    /\ f.service \in {"any", "anthropic"}
    /\ \A b \in f.from : TicksPerSecond * Second(stamp[w]) >= Instant(b)
    /\ \A b \in f.to : TicksPerSecond * Second(stamp[w]) <= Instant(b)

(* Mutant of Matches: Format without UTC(). *)
MatchesShown(w, f) ==
    /\ f.service \in {"any", "anthropic"}
    /\ \A b \in f.from : Second(stamp[w]) >= Second(b.wall)
    /\ \A b \in f.to : Second(stamp[w]) <= Second(b.wall)

(* The WHERE clause of ListUsage; the proxy writes rows of one service. *)
Matches(w, f) ==
    /\ f.service \in {"any", "anthropic"}
    /\ \A b \in f.from : Second(stamp[w]) >= Second(Instant(b))
    /\ \A b \in f.to : Second(stamp[w]) <= Second(Instant(b))

ListUsage(f) == {w \in table : Matches(w, f)}

(* A request arrives with a filter that can be read ... *)
Ask(r) ==
    /\ rstage[r] = "idle" /\ rstage' = [rstage EXCEPT ![r] = "list"]
    /\ before' = [before EXCEPT ![r] =
          [rows |-> table, reports |-> {s \in Readers : reply[s] = 200}]]
    /\ UNCHANGED <<clock, writing, filter, items, counted, reply>>

(* ... or with another method, or a filter or limit that cannot. *)
AskNonsense(r) ==
    /\ rstage[r] = "idle" /\ rstage' = [rstage EXCEPT ![r] = "done"]
    /\ reply' = [reply EXCEPT ![r] = toHTTPStatus("VALIDATION_FAILED")]
    /\ UNCHANGED <<clock, writing, filter, before, items, counted>>

List(r) ==
    /\ rstage[r] = "list" /\ rstage' = [rstage EXCEPT ![r] = "total"]
    /\ items' = [items EXCEPT ![r] = ListUsage(filter[r])]
    /\ UNCHANGED <<clock, writing, filter, before, counted, reply>>

(* Mutant of Total: a SUM in SQL, with an exclusive upper bound. *)
TotalExclusive(r) ==
    /\ rstage[r] = "total" /\ rstage' = [rstage EXCEPT ![r] = "done"]
    /\ counted' = [counted EXCEPT ![r] =
          {w \in ListUsage(filter[r]) :
              \A b \in filter[r].to : Second(stamp[w]) < Second(Instant(b))}]
    /\ reply' = [reply EXCEPT ![r] = 200]
    /\ UNCHANGED <<clock, writing, filter, before, items>>

(* UsageSummary lists the rows once more and adds them up. *)
Total(r) ==
    /\ rstage[r] = "total" /\ rstage' = [rstage EXCEPT ![r] = "done"]
    /\ counted' = [counted EXCEPT ![r] = ListUsage(filter[r])]
    /\ reply' = [reply EXCEPT ![r] = 200]
    /\ UNCHANGED <<clock, writing, filter, before, items>>

(* Either query fails, a client that has gone included. *)
QueryFails(r) ==
    /\ rstage[r] \in {"list", "total"} /\ rstage' = [rstage EXCEPT ![r] = "done"]
    /\ reply' = [reply EXCEPT ![r] = toHTTPStatus("STORAGE_QUERY_ERROR")]
    /\ UNCHANGED <<clock, writing, filter, before, items, counted>>

-----------------------------------------------------------------------------
Next ==
    \/ Tick
    \/ \E w \in Writers : Stamp(w) \/ Insert(w) \/ InsertFails(w)
    \/ \E r \in Readers : Ask(r) \/ AskNonsense(r) \/ List(r) \/ Total(r) \/ QueryFails(r)

Spec == Init /\ [][Next]_vars

-----------------------------------------------------------------------------
TypeOK ==
    /\ clock \in 0..MaxTime
    /\ wstage \in [Writers -> {"idle", "stamped", "stored", "lost"}]
    /\ stamp \in [Writers -> 0..MaxTime]
    /\ table = {w \in Writers : wstage[w] = "stored"}
    /\ rstage \in [Readers -> {"idle", "list", "total", "done"}]
    /\ filter \in [Readers -> Filters]
    /\ before \in [Readers -> [rows : SUBSET Writers, reports : SUBSET Readers]]
    /\ items \in [Readers -> SUBSET Writers]
    /\ counted \in [Readers -> SUBSET Writers]
    /\ reply \in [Readers -> {0, 200, 400, 500}]

(* Is the row's time within the bounds of the filter, as instants? *)
Within(w, f, slack) ==
    /\ \A b \in f.from : stamp[w] + slack >= Instant(b)
    /\ \A b \in f.to : stamp[w] <= Instant(b) + slack

(* Every row a report lists is part of its total, although the total is    *)
(* asked for later: usage never shrinks between the two queries.           *)
ListedIsCounted == \A r \in Readers : reply[r] = 200 => items[r] \subseteq counted[r]

(* A row that was in the table before the request was sent, and was        *)
(* created between from and to, is in the report: cutting seconds off and  *)
(* comparing text loses nothing, not even at the bounds.                   *)
NothingIsLost ==
    \A r \in Readers : reply[r] = 200 =>
        \A w \in before[r].rows :
            filter[r].service \in {"any", "anthropic"} /\ Within(w, filter[r], 0)
            => w \in items[r]

(* A row in the report was created less than a second outside of the       *)
(* bounds at most, whatever zone they were given in.                       *)
NothingFarOff ==
    \A r \in Readers : \A w \in items[r] \cup counted[r] :
        Within(w, filter[r], TicksPerSecond - 1)

(* Whoever asks again after an answer sees everything that was in it:      *)
(* reports only grow.                                                      *)
ReportsGrow ==
    \A r \in Readers : reply[r] = 200 =>
        \A s \in before[r].reports : filter[s] = filter[r] =>
            /\ items[s] \subseteq items[r]
            /\ counted[s] \subseteq items[r]

(* The inductive invariant behind these. *)
Snapshots == \A r \in Readers :
    /\ before[r].rows \subseteq table
    /\ items[r] \cup counted[r] \subseteq ListUsage(filter[r])
    /\ rstage[r] \in {"idle", "list"} => items[r] = {}
    /\ reply[r] = 200 => rstage[r] = "done"
    /\ rstage[r] = "total" \/ reply[r] = 200 =>
          {w \in before[r].rows : Matches(w, filter[r])} \subseteq items[r]
    /\ \A s \in before[r].reports :
          reply[s] = 200 /\ items[s] \cup counted[s] \subseteq before[r].rows

IndInv == TypeOK /\ Snapshots /\ ListedIsCounted
=============================================================================
