-------------------------- MODULE StorageLockProofs --------------------------
(***************************************************************************)
(* Proofs about StorageLock, for any number of processes and process ids   *)
(* and any number of crashes and failing system calls.  IndInv is an       *)
(* invariant of every behaviour without the race of NoRace, and every      *)
(* safety property of the module follows from it; types and the error      *)
(* paths of New (NoLockLeftBehind) need no such hypothesis.                *)
(***************************************************************************)
EXTENDS StorageLock, TLAPS

USE DEF faults, Fault, Go

(* With no process running and no lock file everything holds. *)
LEMMA InitEstablishes == Init => IndInv
  BY NullsAreFresh, BoundsAreNatural
     DEF Init, IndInv, TypeOK, PidsKnown, HolderOwns, OwnerHolds,
         SeenIsCurrent, RemoveIsSafe, OpenInside, PC, Acquiring,
         Owning, Holding, LockFile, NoFile

(* Every step keeps the types right. *)
LEMMA TypePreserved == TypeOK /\ [Next]_vars => TypeOK'
<1> USE NullsAreFresh, BoundsAreNatural
<1> SUFFICES ASSUME TypeOK, [Next]_vars PROVE TypeOK'
  OBVIOUS
<1>0. file.pid \in Pid \cup {None} /\ file.aged \in BOOLEAN
  <2>1. CASE file \in LockFile
    BY <2>1 DEF LockFile
  <2>2. CASE file = NoFile
    BY <2>2 DEF NoFile
  <2> QED BY <2>1, <2>2 DEF TypeOK
<1>1. ASSUME NEW p \in Proc, Launch(p) PROVE TypeOK'
  BY <1>1 DEF TypeOK, Launch, PC, Acquiring
<1>2. ASSUME NEW p \in Proc, Stat(p) PROVE TypeOK'
  <2>1. seenAged' \in [Proc -> BOOLEAN]
    BY <1>0, <1>2 DEF TypeOK, Stat
  <2>2. pc' \in [Proc -> PC] /\ \A q \in Proc : pc'[q] = "probe" => seenAged'[q]
    BY <1>2 DEF TypeOK, Stat, PC, Acquiring
  <2> QED BY <1>2, <2>1, <2>2 DEF TypeOK, Stat
<1>3. ASSUME NEW p \in Proc, Read(p) PROVE TypeOK'
  BY <1>0, <1>3 DEF TypeOK, Read, PC, Acquiring
<1>4. ASSUME NEW p \in Proc, Probe(p) PROVE TypeOK'
  BY <1>4 DEF TypeOK, Probe, PC, Acquiring
<1>5. ASSUME NEW p \in Proc, RemoveStale(p) \/ Release(p) PROVE TypeOK'
  BY <1>5 DEF TypeOK, RemoveStale, Release, PC, Acquiring
<1>6. ASSUME NEW p \in Proc, Create(p) \/ CreateRefused(p) PROVE TypeOK'
  <2>1. [owner |-> p, pid |-> None, aged |-> FALSE] \in LockFile
    BY DEF LockFile
  <2>2. file' \in LockFile \cup {NoFile}
    BY <1>6, <2>1 DEF TypeOK, Create, CreateRefused
  <2>3. pc' \in [Proc -> PC] /\ \A q \in Proc : pc'[q] = "probe" => seenAged'[q]
    BY <1>6 DEF TypeOK, Create, CreateRefused, PC, Acquiring
  <2> QED BY <1>6, <2>2, <2>3 DEF TypeOK, Create, CreateRefused
<1>7. ASSUME NEW p \in Proc, WriteMeta(p) PROVE TypeOK'
  <2>1. file' \in LockFile \cup {NoFile}
    BY <1>7 DEF TypeOK, WriteMeta, LockFile, NoFile
  <2> QED BY <1>7, <2>1 DEF TypeOK, WriteMeta, PC, Owning
<1>8. ASSUME NEW p \in Proc, OpenDb(p) \/ InitStore(p) \/ Stop(p) \/ CloseDb(p)
      PROVE TypeOK'
  BY <1>8 DEF TypeOK, OpenDb, InitStore, Stop, CloseDb, PC, Owning
<1>9. ASSUME NEW p \in Proc PROVE Abandoned(p) \in LockFile \cup {NoFile}
  BY DEF TypeOK, Abandoned, LockFile, NoFile
<1>10. ASSUME NEW p \in Proc, Exit(p) \/ Crash(p) PROVE TypeOK'
  <2>1. pc' \in [Proc -> PC] /\ pid' \in [Proc -> Pid \cup {None}]
    BY <1>10 DEF TypeOK, Exit, Crash, PC
  <2>2. seenAged' \in [Proc -> BOOLEAN] /\ seenPid' \in [Proc -> Pid \cup {None}]
    BY <1>10 DEF TypeOK, Exit, Crash
  <2>3. \A q \in Proc : pc'[q] = "probe" => seenAged'[q]
    BY <1>10 DEF TypeOK, Exit, Crash
  <2>4. crashes' \in 0..MaxCrashes /\ errors' \in 0..MaxErrors
    BY <1>10 DEF TypeOK, Exit, Crash
  <2> QED BY <1>9, <1>10, <2>1, <2>2, <2>3, <2>4 DEF TypeOK, Exit, Crash
<1>11. ASSUME NEW p \in Proc, AcquireFails(p) \/ StatFails(p) PROVE TypeOK'
  <2>1. pc' \in [Proc -> PC] /\ seenAged' \in [Proc -> BOOLEAN]
    BY <1>11 DEF TypeOK, AcquireFails, StatFails, PC, Acquiring
  <2>2. \A q \in Proc : pc'[q] = "probe" => seenAged'[q]
    BY <1>11 DEF TypeOK, AcquireFails, StatFails
  <2> QED BY <1>11, <2>1, <2>2 DEF TypeOK, AcquireFails, StatFails
<1>12. ASSUME NEW p \in Proc, WriteFails(p) \/ ReleaseFails(p) PROVE TypeOK'
  BY <1>9, <1>12 DEF TypeOK, WriteFails, ReleaseFails, PC
<1>13. ASSUME NEW p \in Proc, OpenFails(p) \/ InitFails(p) PROVE TypeOK'
  BY <1>13 DEF TypeOK, OpenFails, InitFails, PC, Owning
<1>14. ASSUME Age PROVE TypeOK'
  <2>1. file' \in LockFile \cup {NoFile}
    BY <1>14 DEF TypeOK, Age, LockFile, NoFile
  <2> QED BY <1>14, <2>1 DEF TypeOK, Age
<1>15. CASE UNCHANGED vars
  BY <1>15 DEF TypeOK, vars
<1> QED
  BY <1>1, <1>2, <1>3, <1>4, <1>5, <1>6, <1>7, <1>8, <1>10, <1>11, <1>12,
     <1>13, <1>14, <1>15 DEF Next, Start, Advance, Fail

(* The variables have their types, and nobody judges a file young. *)
THEOREM TypeCorrect == Spec => []TypeOK
<1>1. Init => TypeOK
  BY InitEstablishes DEF IndInv
<1> QED
  BY <1>1, TypePreserved, PTL DEF Spec

(***************************************************************************)
(* The parts of IndInv beyond the types.  NoRace is needed where one        *)
(* process judges a file by what it has read (Read, Probe) and another     *)
(* creates or fills in a file (Create, WriteMeta).  Everywhere else the    *)
(* step itself keeps the parts.                                            *)
(***************************************************************************)
Parts == /\ PidsKnown /\ HolderOwns /\ OwnerHolds
         /\ SeenIsCurrent /\ RemoveIsSafe /\ OpenInside

(* Every step out of a state without the race keeps the parts.  NoRace is  *)
(* not asked of the state the step leads to.                               *)
LEMMA PartsPreserved == NoRace /\ TypeOK /\ Parts /\ [Next]_vars => Parts'
<1> USE NullsAreFresh DEF Holding, Owning, Acquiring
<1> SUFFICES ASSUME NoRace, TypeOK, Parts, [Next]_vars PROVE Parts'
  OBVIOUS
<1>1. ASSUME NEW p \in Proc, Launch(p) PROVE Parts'
  BY <1>1 DEF TypeOK, Parts, PidsKnown, HolderOwns, OwnerHolds,
         SeenIsCurrent, RemoveIsSafe, OpenInside,
         Launch
<1>2. ASSUME NEW p \in Proc, Stat(p) PROVE Parts'
  BY <1>2 DEF TypeOK, Parts, PidsKnown, HolderOwns, OwnerHolds,
         SeenIsCurrent, RemoveIsSafe, OpenInside,
         Stat, NoFile
<1>3. ASSUME NEW p \in Proc, Read(p) PROVE Parts'
  \* p goes on only if it judges; a living owner of the file is then not
  \* about to write its id, so that the id is there.
  <2>1. SeenIsCurrent'
    BY <1>3 DEF TypeOK, Parts, SeenIsCurrent, OwnerHolds, Read, NoRace, Judging, Filling
  <2>2. RemoveIsSafe'
    BY <1>3 DEF TypeOK, Parts, RemoveIsSafe, Read
  <2>3. PidsKnown' /\ HolderOwns' /\ OwnerHolds' /\ OpenInside'
    BY <1>3 DEF TypeOK, Parts, PidsKnown, HolderOwns, OwnerHolds, OpenInside, Read
  <2> QED BY <2>1, <2>2, <2>3 DEF Parts
<1>4. ASSUME NEW p \in Proc, Probe(p) PROVE Parts'
  \* Had the file a living owner, its id would be the one p has seen, and
  \* processExists would have found it.
  <2>1. RemoveIsSafe'
    <3>1. CASE file.owner \notin Proc
      BY <1>4, <3>1 DEF Parts, TypeOK, RemoveIsSafe, Probe
    <3>2. CASE file.owner \in Proc
      <4>1. seenPid[p] = file.pid
        BY <1>4, <3>2 DEF Parts, SeenIsCurrent, Probe
      <4>2. pc[file.owner] # "write" /\ pc[file.owner] \in Holding
        BY <1>4, <3>2 DEF Parts, OwnerHolds, TypeOK, Probe, NoRace, Judging, Filling
      <4>3. seenPid[p] = pid[file.owner] /\ pid[file.owner] \in Pid
        BY <3>2, <4>1, <4>2 DEF Parts, OwnerHolds, PidsKnown
      <4>4. pc'[p] = "exit"
        BY <1>4, <3>2, <4>2, <4>3 DEF Probe, Running, TypeOK
      <4> QED BY <1>4, <4>4 DEF Parts, TypeOK, RemoveIsSafe, Probe
    <3> QED BY <3>1, <3>2
  <2>2. SeenIsCurrent'
    BY <1>4 DEF TypeOK, Parts, SeenIsCurrent, Probe
  <2>3. PidsKnown' /\ HolderOwns' /\ OwnerHolds' /\ OpenInside'
    BY <1>4 DEF TypeOK, Parts, PidsKnown, HolderOwns, OwnerHolds, OpenInside, Probe
  <2> QED BY <2>1, <2>2, <2>3 DEF Parts
<1>5. ASSUME NEW p \in Proc, RemoveStale(p) PROVE Parts'
  BY <1>5 DEF TypeOK, Parts, PidsKnown, HolderOwns, OwnerHolds,
         SeenIsCurrent, RemoveIsSafe, OpenInside,
         RemoveStale, NoFile
<1>6. ASSUME NEW p \in Proc, Create(p) PROVE Parts'
  \* O_EXCL: there was no file, hence no owner; p becomes the only one.
  <2>1. HolderOwns' /\ OwnerHolds'
    BY <1>6 DEF TypeOK, Parts, HolderOwns, OwnerHolds, Create, NoFile
  \* Nobody else is judging a file at this moment.
  <2>2. SeenIsCurrent' /\ RemoveIsSafe'
    BY <1>6 DEF TypeOK, Parts, SeenIsCurrent, RemoveIsSafe, Create, NoRace,
                Judging, Filling
  <2>3. PidsKnown' /\ OpenInside'
    BY <1>6 DEF TypeOK, Parts, PidsKnown, OpenInside, Create
  <2> QED BY <2>1, <2>2, <2>3 DEF Parts
<1>7. ASSUME NEW p \in Proc, CreateRefused(p) PROVE Parts'
  BY <1>7 DEF TypeOK, Parts, PidsKnown, HolderOwns, OwnerHolds,
         SeenIsCurrent, RemoveIsSafe, OpenInside,
         CreateRefused
<1>8. ASSUME NEW p \in Proc, WriteMeta(p) PROVE Parts'
  <2>1. file.owner = p /\ file \in LockFile
    BY <1>8 DEF TypeOK, Parts, HolderOwns, WriteMeta, NoFile
  <2>2. file'.owner = p /\ file'.pid = pid[p] /\ file'.aged = FALSE
    BY <1>8, <2>1 DEF WriteMeta, LockFile
  <2>3. HolderOwns' /\ OwnerHolds'
    BY <1>8, <2>1, <2>2 DEF TypeOK, Parts, HolderOwns, OwnerHolds, WriteMeta
  <2>4. SeenIsCurrent' /\ RemoveIsSafe'
    BY <1>8, <2>1, <2>2 DEF TypeOK, Parts, SeenIsCurrent, RemoveIsSafe,
                            WriteMeta, NoRace, Judging, Filling
  <2>5. PidsKnown' /\ OpenInside'
    BY <1>8, <2>2 DEF TypeOK, Parts, PidsKnown, OpenInside, WriteMeta
  <2> QED BY <2>3, <2>4, <2>5 DEF Parts
<1>9. ASSUME NEW p \in Proc, OpenDb(p) \/ InitStore(p) PROVE Parts'
  BY <1>9 DEF TypeOK, Parts, PidsKnown, HolderOwns, OwnerHolds,
         SeenIsCurrent, RemoveIsSafe, OpenInside,
         OpenDb, InitStore
<1>10. ASSUME NEW p \in Proc, Stop(p) \/ CloseDb(p) PROVE Parts'
  BY <1>10 DEF TypeOK, Parts, PidsKnown, HolderOwns, OwnerHolds,
         SeenIsCurrent, RemoveIsSafe, OpenInside,
         Stop, CloseDb
<1>11. ASSUME NEW p \in Proc, Release(p) PROVE Parts'
  BY <1>11 DEF TypeOK, Parts, PidsKnown, HolderOwns, OwnerHolds,
         SeenIsCurrent, RemoveIsSafe, OpenInside,
         Release, NoFile
<1>12. ASSUME NEW p \in Proc, Exit(p) PROVE Parts'
  BY <1>12 DEF TypeOK, Parts, PidsKnown, HolderOwns, OwnerHolds,
         SeenIsCurrent, RemoveIsSafe, OpenInside,
         Exit, Abandoned
<1>13. ASSUME NEW p \in Proc, AcquireFails(p) \/ StatFails(p) PROVE Parts'
  BY <1>13 DEF TypeOK, Parts, PidsKnown, HolderOwns, OwnerHolds,
         SeenIsCurrent, RemoveIsSafe, OpenInside,
         AcquireFails, StatFails
<1>14. ASSUME NEW p \in Proc, WriteFails(p) \/ ReleaseFails(p) PROVE Parts'
  BY <1>14 DEF TypeOK, Parts, PidsKnown, HolderOwns, OwnerHolds,
         SeenIsCurrent, RemoveIsSafe, OpenInside,
         WriteFails, ReleaseFails, Abandoned, LockFile, NoFile
<1>15. ASSUME NEW p \in Proc, OpenFails(p) \/ InitFails(p) PROVE Parts'
  BY <1>15 DEF TypeOK, Parts, PidsKnown, HolderOwns, OwnerHolds,
         SeenIsCurrent, RemoveIsSafe, OpenInside,
         OpenFails, InitFails
<1>16. ASSUME NEW p \in Proc, Crash(p) PROVE Parts'
  BY <1>16 DEF TypeOK, Parts, PidsKnown, HolderOwns, OwnerHolds,
         SeenIsCurrent, RemoveIsSafe, OpenInside,
         Crash, Abandoned, LockFile, NoFile
<1>17. ASSUME Age PROVE Parts'
  BY <1>17 DEF TypeOK, Parts, PidsKnown, HolderOwns, OwnerHolds,
         SeenIsCurrent, RemoveIsSafe, OpenInside,
         Age, LockFile, NoFile
<1>18. CASE UNCHANGED vars
  BY <1>18 DEF Parts, PidsKnown, HolderOwns, OwnerHolds,
         SeenIsCurrent, RemoveIsSafe, OpenInside, vars
<1> QED
  BY <1>1, <1>2, <1>3, <1>4, <1>5, <1>6, <1>7, <1>8, <1>9,
     <1>10, <1>11, <1>12, <1>13, <1>14, <1>15, <1>16, <1>17, <1>18
     DEF Next, Start, Advance, Fail

(* The inductive invariant holds in every behaviour in which nobody judges *)
(* a lock file while another process is about to create or fill it.        *)
THEOREM Inductive == Spec /\ []NoRace => []IndInv
<1>1. Init => IndInv
  BY InitEstablishes
<1>2. IndInv /\ NoRace /\ [Next]_vars => IndInv'
  <2>1. IndInv <=> TypeOK /\ Parts
    BY DEF IndInv, Parts
  <2>2. IndInv' <=> TypeOK' /\ Parts'
    BY DEF IndInv, Parts
  <2> QED BY <2>1, <2>2, TypePreserved, PartsPreserved
<1> QED
  BY <1>1, <1>2, PTL DEF Spec

(***************************************************************************)
(* Two ways to keep out of the race.                                       *)
(***************************************************************************)
(* Starting is the only way into Acquire, and only an old file is judged.  *)
LEMMA CalmPreserved ==
  TypeOK /\ OneStarter /\ NoneAged /\ [Next]_vars => OneStarter' /\ NoneAged'
<1> SUFFICES ASSUME TypeOK, OneStarter, NoneAged, [Next]_vars
             PROVE  OneStarter' /\ NoneAged'
  OBVIOUS
<1> USE DEF OneStarter, NoneAged, Judging, Acquiring, TypeOK
<1>1. ASSUME NEW p \in Proc,
             \/ Launch(p) \/ Stat(p) \/ Read(p) \/ Probe(p) \/ RemoveStale(p)
             \/ Create(p) \/ CreateRefused(p)
      PROVE  OneStarter' /\ NoneAged'
  BY <1>1 DEF Launch, Stat, Read, Probe, RemoveStale, Create, CreateRefused, NoFile
<1>2. ASSUME NEW p \in Proc,
             OpenDb(p) \/ InitStore(p) \/ Stop(p) \/ CloseDb(p) \/ Release(p)
      PROVE  OneStarter' /\ NoneAged'
  BY <1>2 DEF OpenDb, InitStore, Stop, CloseDb, Release, NoFile
<1>8. ASSUME NEW p \in Proc, WriteMeta(p)
      PROVE  OneStarter' /\ NoneAged'
  <2>1. file'.aged = file.aged \/ file'.aged = FALSE
    BY <1>8 DEF WriteMeta, LockFile, NoFile
  <2>2. NoneAged'
    BY <1>8, <2>1 DEF WriteMeta
  <2>3. OneStarter'
    BY <1>8 DEF WriteMeta
  <2> QED BY <2>2, <2>3
<1>3. ASSUME NEW p \in Proc, file' = Abandoned(p)
      PROVE  file'.aged = file.aged
  BY <1>3 DEF Abandoned, LockFile
<1>4. ASSUME NEW p \in Proc,
             Exit(p) \/ WriteFails(p) \/ ReleaseFails(p) \/ Crash(p)
      PROVE  OneStarter' /\ NoneAged'
  BY <1>3, <1>4 DEF Exit, WriteFails, ReleaseFails, Crash
<1>5. ASSUME NEW p \in Proc,
             AcquireFails(p) \/ StatFails(p) \/ OpenFails(p) \/ InitFails(p)
      PROVE  OneStarter' /\ NoneAged'
  BY <1>5 DEF AcquireFails, StatFails, OpenFails, InitFails
<1>6. CASE Age
  BY <1>6 DEF Age
<1>7. CASE UNCHANGED vars
  BY <1>7 DEF vars
<1> QED
  BY <1>1, <1>2, <1>4, <1>5, <1>6, <1>7, <1>8 DEF Next, Start, Advance, Fail

(* With serial starts, or with no file that gets old, the race does not    *)
(* happen: NoRace is a hypothesis that the operation of the core can meet. *)
THEOREM CalmAvoidsRace == Calm => (Spec => []NoRace)
<1> SUFFICES ASSUME Calm PROVE Spec => []NoRace
  OBVIOUS
<1>1. Init => OneStarter /\ NoneAged
  BY DEF Init, OneStarter, NoneAged, Judging, Acquiring, NoFile
<1>2. TypeOK /\ OneStarter /\ NoneAged => NoRace
  BY DEF Calm, OneStarter, NoneAged, NoRace, Judging, Filling, Acquiring
<1> QED
  BY <1>1, <1>2, CalmPreserved, TypeCorrect, PTL DEF Spec

(* At most one `serve` process is between lock.Acquire and Release, as     *)
(* long as no file is filled in under a judge.                             *)
THEOREM AtMostOneOwner == Spec /\ []NoRace => []MutualExclusion
<1>1. IndInv => MutualExclusion
  BY DEF IndInv, HolderOwns, Holding, MutualExclusion
<1> QED
  BY <1>1, Inductive, PTL

(* Whoever has the database open owns the lock file. *)
THEOREM DatabaseIsLocked == Spec /\ []NoRace => []OpenDbIsLocked
<1>1. IndInv => OpenDbIsLocked
  BY DEF IndInv, TypeOK, OpenInside, HolderOwns, Holding, Owning, OpenDbIsLocked
<1> QED
  BY <1>1, Inductive, PTL

(* A step that takes the file from its owner is the owner's own step. *)
THEOREM LockIsNotStolen == Spec /\ []NoRace => LockNotStolen
<1> USE NullsAreFresh
<1>1. IndInv /\ [Next]_vars => [LosesOwnLockOnly]_vars
  <2> SUFFICES ASSUME IndInv, Next, NEW q \in Proc, file.owner = q, file'.owner # q
               PROVE pc'[q] # pc[q]
    BY DEF LosesOwnLockOnly
  <2>1. ASSUME NEW p \in Proc, RemoveStale(p) PROVE FALSE
    BY <2>1 DEF IndInv, RemoveIsSafe, RemoveStale
  <2>2. ASSUME NEW p \in Proc, Release(p) PROVE pc'[q] # pc[q]
    BY <2>2 DEF IndInv, TypeOK, HolderOwns, Holding, Owning, Release
  <2>3. ASSUME NEW p \in Proc, Exit(p) PROVE FALSE
    BY <2>3 DEF IndInv, OwnerHolds, Holding, Owning, Acquiring, Exit, Abandoned
  <2>4. ASSUME NEW p \in Proc, WriteFails(p) \/ ReleaseFails(p) \/ Crash(p)
        PROVE pc'[q] # pc[q]
    BY <2>4 DEF IndInv, TypeOK, WriteFails, ReleaseFails, Crash, Abandoned
  <2>5. ASSUME NEW p \in Proc, WriteMeta(p) \/ Create(p) PROVE FALSE
    <3>1. file \in LockFile
      BY DEF IndInv, TypeOK, NoFile
    <3>2. ~ Create(p)
      BY DEF Create, NoFile
    <3> QED BY <2>5, <3>1, <3>2 DEF WriteMeta, LockFile
  <2>6. ASSUME Age PROVE FALSE
    BY <2>6 DEF IndInv, TypeOK, Age, LockFile, NoFile
  <2> QED
    BY <2>1, <2>2, <2>3, <2>4, <2>5, <2>6
       DEF Next, Start, Advance, Fail, Launch, Stat, Read, Probe, CreateRefused,
           OpenDb, InitStore, Stop, CloseDb, AcquireFails, StatFails, OpenFails,
           InitFails
<1> QED
  BY <1>1, Inductive, PTL DEF Spec, LockNotStolen

(* Whoever owns the file at the path is between Create and Release, even   *)
(* when processes race: the file a process owns is one it has created, and *)
(* every way out of that stretch removes it or gives it up.                *)
LEMMA OwnerIsInside == Spec => []OwnerHolds
<1>1. Init => OwnerHolds
  BY NullsAreFresh DEF Init, OwnerHolds, NoFile
<1>2. TypeOK /\ OwnerHolds /\ [Next]_vars => OwnerHolds'
  <2> SUFFICES ASSUME TypeOK, OwnerHolds, [Next]_vars
               PROVE  OwnerHolds'
    OBVIOUS
  <2> USE NullsAreFresh DEF OwnerHolds, Holding, Owning, TypeOK
  <2>1. ASSUME NEW p \in Proc,
               \/ Launch(p) \/ Stat(p) \/ Read(p) \/ Probe(p) \/ RemoveStale(p)
               \/ Create(p) \/ CreateRefused(p)
        PROVE  OwnerHolds'
    BY <2>1 DEF Launch, Stat, Read, Probe, RemoveStale, Create, CreateRefused, NoFile
  <2>2. ASSUME NEW p \in Proc, WriteMeta(p)
        PROVE  OwnerHolds'
    <3>1. CASE file.owner = p
      BY <2>2, <3>1 DEF WriteMeta, LockFile, NoFile
    <3>2. CASE file.owner # p
      BY <2>2, <3>2 DEF WriteMeta
    <3> QED BY <3>1, <3>2
  <2>3. ASSUME NEW p \in Proc,
               OpenDb(p) \/ InitStore(p) \/ Stop(p) \/ CloseDb(p) \/ Release(p)
        PROVE  OwnerHolds'
    BY <2>3 DEF OpenDb, InitStore, Stop, CloseDb, Release, NoFile
  <2>4. ASSUME NEW p \in Proc, file' = Abandoned(p),
               \A q \in Proc \ {p} : pc'[q] = pc[q] /\ pid'[q] = pid[q]
        PROVE  OwnerHolds'
    BY <2>4 DEF Abandoned, LockFile, NoFile
  <2>5. ASSUME NEW p \in Proc,
               Exit(p) \/ WriteFails(p) \/ ReleaseFails(p) \/ Crash(p)
        PROVE  OwnerHolds'
    BY <2>4, <2>5 DEF Exit, WriteFails, ReleaseFails, Crash
  <2>6. ASSUME NEW p \in Proc,
               AcquireFails(p) \/ StatFails(p) \/ OpenFails(p) \/ InitFails(p)
        PROVE  OwnerHolds'
    BY <2>6 DEF AcquireFails, StatFails, OpenFails, InitFails
  <2>7. CASE Age
    BY <2>7 DEF Age, LockFile, NoFile
  <2>8. CASE UNCHANGED vars
    BY <2>8 DEF vars
  <2> QED
    BY <2>1, <2>2, <2>3, <2>5, <2>6, <2>7, <2>8 DEF Next, Start, Advance, Fail
<1> QED BY <1>1, <1>2, TypeCorrect, PTL DEF Spec

(* Only a crash, or an error in writing or removing the file, orphans it,  *)
(* whatever the race does: the error paths of New do return the lock.      *)
THEOREM NothingLeftBehind == Spec => NoLockLeftBehind
<1> USE NullsAreFresh
<1>1. TypeOK /\ OwnerHolds /\ [Next]_vars => [LeavesLockOnFault]_vars
  <2> SUFFICES ASSUME TypeOK, OwnerHolds, Next, NEW q \in Proc, file.owner = q, file'.owner = Orphan
               PROVE \/ crashes' # crashes
                     \/ errors' # errors /\ pc[q] \in {"write", "release"}
    BY DEF LeavesLockOnFault
  <2>1. ASSUME NEW p \in Proc, RemoveStale(p) \/ Release(p) \/ Create(p) PROVE FALSE
    BY <2>1 DEF RemoveStale, Release, Create, NoFile
  <2>2. ASSUME NEW p \in Proc, Exit(p) PROVE FALSE
    BY <2>2 DEF OwnerHolds, Holding, Owning, Acquiring, Exit, Abandoned
  <2>3. ASSUME NEW p \in Proc, WriteFails(p) \/ ReleaseFails(p)
        PROVE errors' # errors /\ pc[q] \in {"write", "release"}
    BY <2>3 DEF TypeOK, WriteFails, ReleaseFails, Abandoned
  <2>4. ASSUME NEW p \in Proc, Crash(p) PROVE crashes' # crashes
    BY <2>4 DEF TypeOK, Crash
  <2>5. ASSUME NEW p \in Proc, WriteMeta(p) PROVE FALSE
    BY <2>5 DEF TypeOK, WriteMeta, LockFile, NoFile
  <2>6. ASSUME Age PROVE FALSE
    BY <2>6 DEF TypeOK, Age, LockFile, NoFile
  <2> QED
    BY <2>1, <2>2, <2>3, <2>4, <2>5, <2>6
       DEF Next, Start, Advance, Fail, Launch, Stat, Read, Probe, CreateRefused,
           OpenDb, InitStore, Stop, CloseDb, AcquireFails, StatFails, OpenFails,
           InitFails
<1> QED
  BY <1>1, TypeCorrect, OwnerIsInside, PTL DEF Spec, NoLockLeftBehind

(***************************************************************************)
(* The lock file implements the lock.  Creating the file takes the lock;   *)
(* removing it, abandoning it or dying gives the lock up.                  *)
(***************************************************************************)
(* A step of the lock file is a step of the abstract lock, or none. *)
LEMMA StepImplements ==
  IndInv /\ [Next]_vars => [Abstract!Next]_(Abstract!vars)
<1> USE NullsAreFresh DEF Holding, Owning, Acquiring
<1> SUFFICES ASSUME IndInv, [Next]_vars PROVE [Abstract!Next]_(Abstract!vars)
  OBVIOUS
<1>1. ASSUME NEW p \in Proc, Create(p) PROVE Abstract!Take(p)
  BY <1>1 DEF Create, NoFile, answering, Abstract!Take
<1>2. ASSUME NEW p \in Proc, OpenDb(p) PROVE Abstract!Open(p)
  BY <1>2 DEF IndInv, HolderOwns, OpenDb, answering, Abstract!Open
<1>3. ASSUME NEW p \in Proc, CloseDb(p) PROVE Abstract!Close(p)
  BY <1>3 DEF IndInv, HolderOwns, CloseDb, answering, Abstract!Close
<1>4. ASSUME NEW p \in Proc, Release(p) \/ WriteFails(p) \/ ReleaseFails(p)
      PROVE Abstract!Drop(p)
  <2>1. file.owner = p /\ p \notin opened /\ file \in LockFile
    BY <1>4 DEF IndInv, TypeOK, HolderOwns, OpenInside, Release, WriteFails,
                ReleaseFails, NoFile
  <2>2. file'.owner \notin Proc /\ UNCHANGED opened
    BY <1>4, <2>1 DEF Release, WriteFails, ReleaseFails, Abandoned, LockFile, NoFile
  <2> QED BY <2>1, <2>2 DEF answering, Abstract!Drop
<1>5. ASSUME NEW p \in Proc, Crash(p), file.owner = p PROVE Abstract!Die(p)
  <2>1. file'.owner = Orphan
    BY <1>5 DEF IndInv, TypeOK, Crash, Abandoned, LockFile, NoFile
  <2> QED BY <1>5, <2>1 DEF Crash, answering, Abstract!Die
<1>6. ASSUME NEW p \in Proc, Crash(p) \/ Exit(p), file.owner # p
      PROVE UNCHANGED <<answering, opened>>
  <2>1. p \notin opened
    BY <1>6 DEF IndInv, OpenInside, HolderOwns
  <2>2. opened' = opened \ {p} /\ file' = file
    BY <1>6 DEF Crash, Exit, Abandoned
  <2> QED BY <2>1, <2>2 DEF answering
<1>7. ASSUME NEW p \in Proc, Exit(p), file.owner = p PROVE FALSE
  BY <1>7 DEF IndInv, OwnerHolds, Exit
<1>8. ASSUME NEW p \in Proc, RemoveStale(p) PROVE UNCHANGED <<answering, opened>>
  BY <1>8 DEF IndInv, RemoveIsSafe, RemoveStale, NoFile, answering
<1>9. ASSUME NEW p \in Proc, WriteMeta(p) PROVE UNCHANGED <<answering, opened>>
  BY <1>9 DEF IndInv, TypeOK, WriteMeta, LockFile, NoFile, answering
<1>10. ASSUME Age PROVE UNCHANGED <<answering, opened>>
  BY <1>10 DEF IndInv, TypeOK, Age, LockFile, NoFile, answering
<1>11. CASE UNCHANGED vars
  BY <1>11 DEF vars, answering, Abstract!vars
<1>12. ASSUME NEW p \in Proc,
              \/ Launch(p) \/ Stat(p) \/ Read(p) \/ Probe(p) \/ CreateRefused(p)
              \/ InitStore(p) \/ Stop(p) \/ AcquireFails(p) \/ StatFails(p)
              \/ OpenFails(p) \/ InitFails(p)
       PROVE UNCHANGED <<answering, opened>>
  BY <1>12 DEF Launch, Stat, Read, Probe, CreateRefused, InitStore, Stop,
               AcquireFails, StatFails, OpenFails, InitFails, answering
<1> QED
  BY <1>1, <1>2, <1>3, <1>4, <1>5, <1>6, <1>7, <1>8, <1>9, <1>10, <1>11, <1>12
     DEF Next, Start, Advance, Fail, Abstract!Next, Abstract!vars

(* The lock file implements the abstract lock of ExclusiveAccess. *)
THEOREM Implements == Spec /\ []NoRace => ImplementsExclusiveAccess
<1>1. Init => Abstract!Init
  BY NullsAreFresh DEF Init, NoFile, answering, Abstract!Init
<1> QED
  BY <1>1, StepImplements, Inductive, PTL
     DEF Spec, ImplementsExclusiveAccess, Abstract!Spec

(* What the refinement is for: of all processes one at most has the        *)
(* database open, wherever the others are in New, serve or Close.          *)
OneDatabaseUser == \A p, q \in opened : p = q

(* Between New and Close a process is alone with the database, as long as  *)
(* nobody fills the path while another judges it.                          *)
THEOREM DatabaseHasOneUser == Spec /\ []NoRace => []OneDatabaseUser
<1>1. None \notin Proc
  BY NullsAreFresh
<1>2. Abstract!Spec => []Abstract!OpenedByHolder
  BY <1>1, Abstract!OneUser
<1>3. Abstract!OpenedByHolder => OneDatabaseUser
  BY DEF Abstract!OpenedByHolder, OneDatabaseUser
<1> QED BY <1>2, <1>3, Implements, PTL DEF ImplementsExclusiveAccess

(* For an operator: start one process at a time, or several while no lock  *)
(* file is old, and one at most has the database open.                     *)
THEOREM CalmIsSafe == Calm => (Spec => []OneDatabaseUser)
  BY CalmAvoidsRace, DatabaseHasOneUser, PTL
=============================================================================
