-------------------------- MODULE UsageReportProofs --------------------------
(***************************************************************************)
(* Proofs about UsageReport, for any number of writers and readers, any    *)
(* set of filters and any length of a second: IndInv is inductive, and     *)
(* the properties of a report follow from it and from two facts about      *)
(* cutting a time to whole seconds.                                        *)
(***************************************************************************)
EXTENDS UsageReport, TLAPS

USE DEF writing, reading

-----------------------------------------------------------------------------
(* The second of a time begins at the time or less than a second before. *)
LEMMA SecondBounds ==
  ASSUME NEW t \in Int
  PROVE  /\ Second(t) \in Int
         /\ TicksPerSecond * Second(t) <= t
         /\ t < TicksPerSecond * Second(t) + TicksPerSecond
  BY SecondHasTicks DEF Second

(* Cutting the fraction off keeps the order. *)
LEMMA SecondMonotone ==
  ASSUME NEW a \in Int, NEW b \in Int, a <= b
  PROVE  Second(a) <= Second(b)
<1>1. /\ Second(a) \in Int /\ Second(b) \in Int
      /\ TicksPerSecond * Second(a) <= a
      /\ b < TicksPerSecond * Second(b) + TicksPerSecond
  BY SecondBounds
<1>2. SUFFICES ASSUME Second(a) >= Second(b) + 1
               PROVE  FALSE
  BY <1>1
<1>3. TicksPerSecond * Second(a) >= TicksPerSecond * (Second(b) + 1)
  BY <1>1, <1>2, SecondHasTicks
<1> QED BY <1>1, <1>3, SecondHasTicks

(* Times whose seconds are in order are in order up to a second. *)
LEMMA SecondPrecision ==
  ASSUME NEW a \in Int, NEW b \in Int, Second(a) <= Second(b)
  PROVE  a <= b + (TicksPerSecond - 1)
<1>1. /\ Second(a) \in Int /\ Second(b) \in Int
      /\ a < TicksPerSecond * Second(a) + TicksPerSecond
      /\ TicksPerSecond * Second(b) <= b
  BY SecondBounds
<1>2. TicksPerSecond * Second(a) <= TicksPerSecond * Second(b)
  BY <1>1, SecondHasTicks
<1> QED BY <1>1, <1>2, SecondHasTicks

(* The bounds of the filters in use are instants. *)
LEMMA Instants ==
  ASSUME NEW f \in Filters, NEW b \in f.from \cup f.to
  PROVE  Instant(b) \in Int
  BY FiltersAreFilters DEF Instant

(* The statuses of the two error answers. *)
LEMMA ErrorStatus ==
  toHTTPStatus("VALIDATION_FAILED") = 400 /\ toHTTPStatus("STORAGE_QUERY_ERROR") = 500
  BY DEF toHTTPStatus

-----------------------------------------------------------------------------
(* Every step keeps the types. *)
LEMMA TypeStep == TypeOK /\ [Next]_vars => TypeOK'
<1> SUFFICES ASSUME TypeOK, [Next]_vars
             PROVE  TypeOK'
  OBVIOUS
<1> USE DEF TypeOK
<1>1. CASE Tick
  BY <1>1, TimeIsNatural DEF Tick
<1>2. ASSUME NEW w \in Writers, Stamp(w)
      PROVE  TypeOK'
  BY <1>2 DEF Stamp
<1>3. ASSUME NEW w \in Writers, Insert(w)
      PROVE  TypeOK'
  BY <1>3 DEF Insert
<1>4. ASSUME NEW w \in Writers, InsertFails(w)
      PROVE  TypeOK'
  BY <1>4 DEF InsertFails
<1>5. ASSUME NEW r \in Readers, Ask(r)
      PROVE  TypeOK'
  BY <1>5 DEF Ask
<1>6. ASSUME NEW r \in Readers, AskNonsense(r)
      PROVE  TypeOK'
  BY <1>6, ErrorStatus DEF AskNonsense
<1>7. ASSUME NEW r \in Readers, List(r)
      PROVE  TypeOK'
  BY <1>7 DEF List, ListUsage
<1>8. ASSUME NEW r \in Readers, Total(r)
      PROVE  TypeOK'
  BY <1>8 DEF Total, ListUsage
<1>9. ASSUME NEW r \in Readers, QueryFails(r)
      PROVE  TypeOK'
  BY <1>9, ErrorStatus DEF QueryFails
<1>10. CASE UNCHANGED vars
  BY <1>10 DEF vars
<1> QED BY <1>1, <1>2, <1>3, <1>4, <1>5, <1>6, <1>7, <1>8, <1>9, <1>10 DEF Next

(* The types hold in every behaviour. *)
THEOREM TypeCorrect == Spec => []TypeOK
<1>1. Init => TypeOK
  BY TimeIsNatural DEF Init, TypeOK
<1> QED BY <1>1, TypeStep, PTL DEF Spec

-----------------------------------------------------------------------------
(* A step of a writer or of the clock leaves stored rows and their times   *)
(* as they are, so that no query loses a row.                              *)
LEMMA TableGrows ==
  ASSUME IndInv,
         Tick \/ \E w \in Writers : Stamp(w) \/ Insert(w) \/ InsertFails(w)
  PROVE  /\ table \subseteq table'
         /\ \A w \in table : stamp'[w] = stamp[w]
         /\ UNCHANGED reading
  BY DEF IndInv, TypeOK, Tick, Stamp, Insert, InsertFails

(* So it keeps what is known of the reports. *)
LEMMA WriterKeepsSnapshots ==
  ASSUME IndInv,
         Tick \/ \E w \in Writers : Stamp(w) \/ Insert(w) \/ InsertFails(w)
  PROVE  Snapshots' /\ ListedIsCounted'
<1>1. /\ table \subseteq table'
      /\ \A w \in table : stamp'[w] = stamp[w]
      /\ UNCHANGED reading
  BY TableGrows
<1>2. \A w \in table, f \in Filters : Matches(w, f)' = Matches(w, f)
  BY <1>1 DEF Matches
<1>3. \A r \in Readers : filter[r] \in Filters
  BY DEF IndInv, TypeOK
<1>4. \A r \in Readers : ListUsage(filter[r]) \subseteq ListUsage(filter[r])'
  BY <1>1, <1>2, <1>3 DEF ListUsage
<1>5. ASSUME NEW r \in Readers
      PROVE  {w \in before[r].rows : Matches(w, filter[r])}' =
             {w \in before[r].rows : Matches(w, filter[r])}
  BY <1>1, <1>2, <1>3 DEF IndInv, Snapshots
<1>6. Snapshots'
  BY <1>1, <1>4, <1>5 DEF IndInv, Snapshots
<1>7. ListedIsCounted'
  BY <1>1 DEF IndInv, ListedIsCounted
<1> QED BY <1>6, <1>7

(* Queries over the same table return the same rows. *)
LEMMA QueriesAgree ==
  ASSUME UNCHANGED <<stamp, table, filter>>, NEW s \in Readers
  PROVE  /\ ListUsage(filter[s])' = ListUsage(filter[s])
         /\ \A w : Matches(w, filter[s])' = Matches(w, filter[s])
  BY DEF ListUsage, Matches

(* A reader's step does not touch the table. *)
LEMMA ReaderStep ==
  ASSUME IndInv, NEW r \in Readers,
         Ask(r) \/ AskNonsense(r) \/ List(r) \/ Total(r) \/ QueryFails(r)
  PROVE  Snapshots' /\ ListedIsCounted'
<1>1. /\ UNCHANGED <<stamp, table, filter>>
      /\ \A s \in Readers :
            /\ ListUsage(filter[s])' = ListUsage(filter[s])
            /\ \A w : Matches(w, filter[s])' = Matches(w, filter[s])
  <2>1. UNCHANGED <<stamp, table, filter>>
    BY DEF Ask, AskNonsense, List, Total, QueryFails
  <2> QED BY <2>1, QueriesAgree
<1> USE DEF IndInv, TypeOK, Snapshots, ListedIsCounted
<1>2. CASE Ask(r)
  <2>1. \A s \in Readers : items[s] \cup counted[s] \subseteq table
    BY DEF ListUsage
  <2>2. /\ before'[r] = [rows |-> table, reports |-> {s \in Readers : reply[s] = 200}]
        /\ \A s \in Readers \ {r} : before'[s] = before[s]
        /\ rstage'[r] = "list" /\ reply[r] # 200 /\ items[r] = {}
    BY <1>2 DEF Ask
  <2>3. Snapshots'
    BY <1>1, <1>2, <2>1, <2>2 DEF Ask
  <2>4. ListedIsCounted'
    BY <1>2 DEF Ask
  <2> QED BY <2>3, <2>4
<1>3. CASE AskNonsense(r)
  BY <1>1, <1>3, ErrorStatus DEF AskNonsense
<1>4. CASE List(r)
  BY <1>1, <1>4 DEF List, ListUsage
<1>5. CASE Total(r)
  BY <1>1, <1>5 DEF Total, ListUsage
<1>6. CASE QueryFails(r)
  BY <1>1, <1>6, ErrorStatus DEF QueryFails
<1> QED BY <1>2, <1>3, <1>4, <1>5, <1>6

(* The inductive invariant holds in every behaviour. *)
THEOREM Inductive == Spec => []IndInv
<1>1. Init => IndInv
  BY TimeIsNatural DEF Init, IndInv, TypeOK, Snapshots, ListedIsCounted
<1>2. IndInv /\ [Next]_vars => IndInv'
  <2> SUFFICES ASSUME IndInv, [Next]_vars
               PROVE  Snapshots' /\ ListedIsCounted'
    BY TypeStep DEF IndInv
  <2>1. CASE Tick \/ \E w \in Writers : Stamp(w) \/ Insert(w) \/ InsertFails(w)
    BY <2>1, WriterKeepsSnapshots
  <2>2. ASSUME NEW r \in Readers,
               Ask(r) \/ AskNonsense(r) \/ List(r) \/ Total(r) \/ QueryFails(r)
        PROVE  Snapshots' /\ ListedIsCounted'
    BY <2>2, ReaderStep
  <2>3. CASE UNCHANGED vars
    BY <2>3, QueriesAgree DEF vars, IndInv, Snapshots, ListedIsCounted
  <2> QED BY <2>1, <2>2, <2>3 DEF Next
<1> QED BY <1>1, <1>2, PTL DEF Spec

(* The total of a report covers the items of the report. *)
THEOREM TotalCoversItems == Spec => []ListedIsCounted
<1>1. IndInv => ListedIsCounted
  BY DEF IndInv
<1> QED BY <1>1, Inductive, PTL

-----------------------------------------------------------------------------
(* A report is complete: NothingIsLost, for every filter and any length of *)
(* a second.                                                               *)
THEOREM ReportsAreComplete == Spec => []NothingIsLost
<1>1. IndInv => NothingIsLost
  <2> SUFFICES ASSUME IndInv, NEW r \in Readers, reply[r] = 200,
                      NEW w \in before[r].rows,
                      filter[r].service \in {"any", "anthropic"},
                      Within(w, filter[r], 0)
               PROVE  Matches(w, filter[r])
    BY DEF NothingIsLost, IndInv, Snapshots
  <2>1. filter[r] \in Filters /\ stamp[w] \in Int
    <3>1. before[r] \in [rows : SUBSET Writers, reports : SUBSET Readers]
      BY DEF IndInv, TypeOK
    <3>2. w \in Writers
      BY <3>1
    <3> QED BY <3>2, TimeIsNatural DEF IndInv, TypeOK
  <2>2. ASSUME NEW b \in filter[r].from
        PROVE  Second(stamp[w]) >= Second(Instant(b))
    <3>1. Instant(b) \in Int
      BY <2>1, Instants
    <3>2. Instant(b) <= stamp[w]
      BY <2>1, <3>1 DEF Within
    <3>3. Second(Instant(b)) <= Second(stamp[w])
      BY <2>1, <3>1, <3>2, SecondMonotone
    <3> QED BY <2>1, <3>1, <3>3, SecondBounds
  <2>3. ASSUME NEW b \in filter[r].to
        PROVE  Second(stamp[w]) <= Second(Instant(b))
    <3>1. Instant(b) \in Int
      BY <2>1, Instants
    <3>2. stamp[w] <= Instant(b)
      BY <2>1, <3>1 DEF Within
    <3> QED BY <2>1, <3>1, <3>2, SecondMonotone
  <2> QED BY <2>2, <2>3 DEF Matches
<1> QED BY <1>1, Inductive, PTL

(* A report is precise up to a second: NothingFarOff. *)
THEOREM ReportsArePrecise == Spec => []NothingFarOff
<1>1. IndInv => NothingFarOff
  <2> SUFFICES ASSUME IndInv, NEW r \in Readers, NEW w \in items[r] \cup counted[r]
               PROVE  Within(w, filter[r], TicksPerSecond - 1)
    BY DEF NothingFarOff
  <2>1. filter[r] \in Filters /\ w \in Writers /\ stamp[w] \in Int
    BY TimeIsNatural DEF IndInv, TypeOK
  <2>2. Matches(w, filter[r])
    BY DEF IndInv, Snapshots, ListUsage
  <2>3. ASSUME NEW b \in filter[r].from
        PROVE  stamp[w] + (TicksPerSecond - 1) >= Instant(b)
    <3>1. Instant(b) \in Int
      BY <2>1, Instants
    <3>2. Second(Instant(b)) <= Second(stamp[w])
      BY <2>1, <2>2, <3>1, SecondBounds DEF Matches
    <3>3. Instant(b) <= stamp[w] + (TicksPerSecond - 1)
      BY <2>1, <3>1, <3>2, SecondPrecision
    <3> QED BY <2>1, <3>1, <3>3, SecondHasTicks
  <2>4. ASSUME NEW b \in filter[r].to
        PROVE  stamp[w] <= Instant(b) + (TicksPerSecond - 1)
    <3>1. Instant(b) \in Int
      BY <2>1, Instants
    <3> QED BY <2>1, <2>2, <3>1, SecondPrecision DEF Matches
  <2> QED BY <2>3, <2>4 DEF Within
<1> QED BY <1>1, Inductive, PTL

(* A later report holds everything an earlier one held: ReportsGrow. *)
THEOREM LaterReportsHoldMore == Spec => []ReportsGrow
<1>1. IndInv => ReportsGrow
  <2> SUFFICES ASSUME IndInv, NEW r \in Readers, reply[r] = 200,
                      NEW s \in before[r].reports, filter[s] = filter[r]
               PROVE  items[s] \cup counted[s] \subseteq items[r]
    BY DEF ReportsGrow
  <2>1. s \in Readers
    BY DEF IndInv, TypeOK
  <2>2. items[s] \cup counted[s] \subseteq before[r].rows
    BY DEF IndInv, Snapshots
  <2>3. \A w \in items[s] \cup counted[s] : Matches(w, filter[r])
    BY <2>1 DEF IndInv, Snapshots, ListUsage
  <2> QED BY <2>2, <2>3 DEF IndInv, Snapshots
<1> QED BY <1>1, Inductive, PTL
=============================================================================
