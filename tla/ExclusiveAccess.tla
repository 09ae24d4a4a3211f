--------------------------- MODULE ExclusiveAccess ---------------------------
(***************************************************************************)
(* What the storage lock promises to the rest of the core: of the `serve`  *)
(* processes that share a data directory at most one holds the lock at a   *)
(* time, only the holder opens the SQLite database, and the lock is given  *)
(* up only once the database is closed again (or with the holder's life).  *)
(* How the promise is kept - a lock file, its age, the process id in it -  *)
(* is the business of StorageLock, which implements this specification.    *)
(***************************************************************************)
EXTENDS TLAPS

CONSTANTS Proc,     \* the `serve` processes
          None      \* nobody

VARIABLES holder,   \* the process that holds the lock, or None
          opened    \* the processes that have the database open

vars == <<holder, opened>>

Init == holder = None /\ opened = {}

(* store.New got past lock.Acquire. *)
Take(p) == holder = None /\ holder' = p /\ UNCHANGED opened

(* sql.Open and db.Close, both inside the critical section. *)
Open(p)  == holder = p /\ opened' = opened \cup {p} /\ UNCHANGED holder
Close(p) == holder = p /\ opened' = opened \ {p} /\ UNCHANGED holder

(* The holder gives the lock up, the database being closed. *)
Drop(p) == holder = p /\ p \notin opened /\ holder' = None /\ UNCHANGED opened

(* The holder is killed: the operating system closes its database. *)
Die(p) == holder = p /\ holder' = None /\ opened' = opened \ {p}

Next == \E p \in Proc : Take(p) \/ Open(p) \/ Close(p) \/ Drop(p) \/ Die(p)

Spec == Init /\ [][Next]_vars

(* Whoever has the database open holds the lock; since one process at most *)
(* holds it, one at most has the database open.                            *)
OpenedByHolder == \A p \in opened : p \in Proc /\ p = holder

(* The promise is kept by the actions above.                               *)
THEOREM OneUser == None \notin Proc => (Spec => []OpenedByHolder)
<1> SUFFICES ASSUME None \notin Proc PROVE Spec => []OpenedByHolder
  OBVIOUS
<1>1. Init => OpenedByHolder
  BY DEF Init, OpenedByHolder
<1>2. OpenedByHolder /\ [Next]_vars => OpenedByHolder'
  BY DEF OpenedByHolder, Next, Take, Open, Close, Drop, Die, vars
<1> QED BY <1>1, <1>2, PTL DEF Spec
=============================================================================
