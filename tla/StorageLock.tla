----------------------------- MODULE StorageLock -----------------------------
(***************************************************************************)
(* The lock file that lets one `serve` process at a time open the SQLite   *)
(* database of a data directory: internal/storage/lock/lock.go, with the   *)
(* part of internal/storage/store.go that takes and returns the lock (New  *)
(* and Close) and the part of `serve` that calls them.                     *)
(*                                                                         *)
(* Every system call is a step of its own, because another process may run *)
(* between any two of them.  A process walks through                       *)
(*                                                                         *)
(*   stat -> read -> probe -> remove -> create -> write     lock.Acquire   *)
(*        -> open -> init -> serving -> closing -> release  store, serve   *)
(*        -> exit -> down                                                  *)
(*                                                                         *)
(* taking the short cuts and the error returns of the code.                *)
(***************************************************************************)
EXTENDS Naturals, FiniteSets

CONSTANTS
    Proc,           \* slots in which `serve` processes run, one after another
    Pid,            \* process ids the operating system hands out
    None,           \* no process, no process id
    Orphan,         \* owner of a lock file that nobody is going to remove
    SerialStarts,   \* TRUE: a process is started only when no other is in Acquire
    Ageing,         \* TRUE: five minutes may pass while a lock file exists
    PidReuse,       \* TRUE: a new process may get the id a lock file mentions
    MaxCrashes,     \* bound on the crashes of a behaviour
    MaxErrors       \* bound on the failing system calls of a behaviour

ASSUME NullsAreFresh ==
    None \notin Proc \cup Pid /\ Orphan \notin Proc /\ Orphan # None
ASSUME FlagsAreBoolean ==
    SerialStarts \in BOOLEAN /\ Ageing \in BOOLEAN /\ PidReuse \in BOOLEAN
ASSUME BoundsAreNatural == MaxCrashes \in Nat /\ MaxErrors \in Nat

VARIABLES
    pc,         \* the system call each process makes next
    pid,        \* os.Getpid() of each running process
    file,       \* what the lock path names
    seenAged,   \* is the mtime a process got from os.Stat five minutes old?
    seenPid,    \* what extractPID found in the content a process has read
    opened,     \* processes that have the database open
    crashes, errors

vars == <<pc, pid, file, seenAged, seenPid, opened, crashes, errors>>
faults == <<crashes, errors>>

(* owner is the process that created the file and still answers for it.    *)
(* pid is None until Fprintf has written the metadata: extractPID then     *)
(* finds no "pid=" line and returns 0.  aged: the mtime is 5 minutes old.  *)
LockFile == [owner : Proc \cup {Orphan}, pid : Pid \cup {None}, aged : BOOLEAN]
NoFile == [owner |-> None, pid |-> None, aged |-> FALSE]

Acquiring == {"stat", "read", "probe", "remove", "create", "write"}
Owning    == {"open", "init", "serving", "closing", "release"}
PC        == Acquiring \cup Owning \cup {"down", "exit"}

Running(x) == \E q \in Proc : pc[q] # "down" /\ pid[q] = x

Go(p, from, to) == pc[p] = from /\ pc' = [pc EXCEPT ![p] = to]

(* The file as p leaves it when p will not remove it any more. *)
Abandoned(p) == IF file.owner = p THEN [file EXCEPT !.owner = Orphan] ELSE file

Init ==
    /\ pc = [p \in Proc |-> "down"]
    /\ pid = [p \in Proc |-> None]
    /\ file = NoFile
    /\ seenAged = [p \in Proc |-> FALSE]
    /\ seenPid = [p \in Proc |-> None]
    /\ opened = {}
    /\ crashes = 0 /\ errors = 0

-----------------------------------------------------------------------------
(* `serve` is started, reads its configuration and reaches storage.New.    *)
Launch(p) ==
    /\ Go(p, "down", "stat")
    /\ SerialStarts => \A q \in Proc : pc[q] \notin Acquiring
    /\ \E x \in Pid :
          /\ ~ Running(x)
          /\ PidReuse \/ x # file.pid
          /\ pid' = [pid EXCEPT ![p] = x]
    /\ UNCHANGED <<file, seenAged, seenPid, opened, faults>>

(* handlePotentialStaleLock returns nil at once when there is no file;     *)
(* otherwise it keeps the FileInfo, whose mtime it looks at after reading. *)
Stat(p) ==
    /\ Go(p, "stat", IF file = NoFile THEN "create" ELSE "read")
    /\ seenAged' = [seenAged EXCEPT ![p] = file.aged]
    /\ UNCHANGED <<pid, file, seenPid, opened, faults>>

(* Mutant of Read: the age test is dropped. *)
ReadAnyAge(p) ==
    /\ Go(p, "read", IF file = NoFile THEN "exit" ELSE "probe")
    /\ seenPid' = [seenPid EXCEPT ![p] = file.pid]
    /\ UNCHANGED <<pid, file, seenAged, opened, faults>>

(* os.ReadFile, then the age test: the file may have vanished since Stat,  *)
(* or be another file than the one whose mtime was taken.                  *)
Read(p) ==
    /\ Go(p, "read", IF file = NoFile \/ ~ seenAged[p] THEN "exit" ELSE "probe")
    /\ seenPid' = [seenPid EXCEPT ![p] = IF seenAged[p] THEN file.pid ELSE None]
    /\ seenAged' = [seenAged EXCEPT ![p] = seenAged[p] /\ file # NoFile]
    /\ UNCHANGED <<pid, file, opened, faults>>

(* Mutants of Probe: age alone decides; a file without id counts as owned. *)
ProbeAgeOnly(p) ==
    /\ Go(p, "probe", "remove")
    /\ UNCHANGED <<pid, file, seenAged, seenPid, opened, faults>>

ProbeEmptyIsLive(p) ==
    /\ Go(p, "probe", IF seenPid[p] = None \/ Running(seenPid[p])
                      THEN "exit" ELSE "remove")
    /\ UNCHANGED <<pid, file, seenAged, seenPid, opened, faults>>

(* pid > 0 && processExists(pid): the owner is alive, give up. *)
Probe(p) ==
    /\ Go(p, "probe", IF seenPid[p] # None /\ Running(seenPid[p])
                      THEN "exit" ELSE "remove")
    /\ seenPid' = [seenPid EXCEPT ![p] = None]
    /\ seenAged' = [seenAged EXCEPT ![p] = FALSE]
    /\ UNCHANGED <<pid, file, opened, faults>>

(* os.Remove deletes whatever the path names by now. *)
RemoveStale(p) ==
    /\ Go(p, "remove", "create")
    /\ file' = NoFile
    /\ UNCHANGED <<pid, seenAged, seenPid, opened, faults>>

(* Mutant of Create: without O_EXCL an existing file is truncated. *)
CreateShared(p) ==
    /\ Go(p, "create", "write")
    /\ file' = [owner |-> p, pid |-> None, aged |-> FALSE]
    /\ UNCHANGED <<pid, seenAged, seenPid, opened, faults>>

(* OpenFile with O_CREATE|O_EXCL. *)
Create(p) ==
    /\ file = NoFile
    /\ Go(p, "create", "write")
    /\ file' = [owner |-> p, pid |-> None, aged |-> FALSE]
    /\ UNCHANGED <<pid, seenAged, seenPid, opened, faults>>

CreateRefused(p) ==
    /\ file # NoFile
    /\ Go(p, "create", "exit")
    /\ UNCHANGED <<pid, file, seenAged, seenPid, opened, faults>>

(* Fprintf goes to the open descriptor: when another process has unlinked  *)
(* the file in between, the path does not see it.                          *)
WriteMeta(p) ==
    /\ Go(p, "write", "open")
    /\ file' = IF file.owner = p
               THEN [file EXCEPT !.pid = pid[p], !.aged = FALSE] ELSE file
    /\ UNCHANGED <<pid, seenAged, seenPid, opened, faults>>

(* sql.Open gives the process its database handle. *)
OpenDb(p) ==
    /\ Go(p, "open", "init")
    /\ opened' = opened \cup {p}
    /\ UNCHANGED <<pid, file, seenAged, seenPid, faults>>

(* configureConnection, runMigrations and ensureFilePermission succeed. *)
InitStore(p) ==
    /\ Go(p, "init", "serving")
    /\ UNCHANGED <<pid, file, seenAged, seenPid, opened, faults>>

(* Mutant of Stop: the lock is released while the database is still open. *)
StopLockFirst(p) ==
    /\ Go(p, "serving", "release")
    /\ UNCHANGED <<pid, file, seenAged, seenPid, opened, faults>>

(* server.Run returns; the deferred store.Close follows. *)
Stop(p) ==
    /\ Go(p, "serving", "closing")
    /\ UNCHANGED <<pid, file, seenAged, seenPid, opened, faults>>

(* Close: the database first, whether or not db.Close returns an error ... *)
CloseDb(p) ==
    /\ Go(p, "closing", "release")
    /\ opened' = opened \ {p}
    /\ UNCHANGED <<pid, file, seenAged, seenPid, faults>>

(* ... then Release, which removes the path without asking whose file it   *)
(* names, and does not mind when there is none.                            *)
Release(p) ==
    /\ Go(p, "release", "exit")
    /\ file' = NoFile
    /\ UNCHANGED <<pid, seenAged, seenPid, opened, faults>>

(* The process returns from main. *)
Exit(p) ==
    /\ Go(p, "exit", "down")
    /\ pid' = [pid EXCEPT ![p] = None]
    /\ opened' = opened \ {p}
    /\ file' = Abandoned(p)
    /\ UNCHANGED <<seenAged, seenPid, faults>>

-----------------------------------------------------------------------------
(* Failing system calls. *)
Fault == errors < MaxErrors /\ errors' = errors + 1 /\ UNCHANGED crashes

(* MkdirAll, a directory at the path, ReadFile, Remove or OpenFile: Acquire *)
(* returns the error and has changed nothing.                               *)
AcquireFails(p) ==
    /\ Fault
    /\ \E at \in {"stat", "read", "remove", "create"} : Go(p, at, "exit")
    /\ seenAged' = [seenAged EXCEPT ![p] = FALSE]
    /\ UNCHANGED <<pid, file, seenPid, opened>>

(* Any error of os.Stat counts as "there is no lock". *)
StatFails(p) ==
    /\ Fault
    /\ Go(p, "stat", "create")
    /\ UNCHANGED <<pid, file, seenAged, seenPid, opened>>

(* Fprintf fails: Acquire returns an error and leaves the file behind. *)
WriteFails(p) ==
    /\ Fault
    /\ Go(p, "write", "exit")
    /\ file' = Abandoned(p)
    /\ UNCHANGED <<pid, seenAged, seenPid, opened>>

(* Mutant of OpenFails: New returns the error and forgets the lock. *)
OpenFailsKeepsLock(p) ==
    /\ Fault
    /\ Go(p, "open", "exit")
    /\ UNCHANGED <<pid, file, seenAged, seenPid, opened>>

(* sql.Open fails: New releases the lock. *)
OpenFails(p) ==
    /\ Fault
    /\ Go(p, "open", "release")
    /\ UNCHANGED <<pid, file, seenAged, seenPid, opened>>

(* A pragma, the migration or chmod fails: New closes the store. *)
InitFails(p) ==
    /\ Fault
    /\ Go(p, "init", "closing")
    /\ UNCHANGED <<pid, file, seenAged, seenPid, opened>>

(* os.Remove fails in Release: the file stays. *)
ReleaseFails(p) ==
    /\ Fault
    /\ Go(p, "release", "exit")
    /\ file' = Abandoned(p)
    /\ UNCHANGED <<pid, seenAged, seenPid, opened>>

(* The process is killed, wherever it is; nothing deferred runs. *)
Crash(p) ==
    /\ crashes < MaxCrashes /\ crashes' = crashes + 1 /\ UNCHANGED errors
    /\ pc[p] # "down"
    /\ pc' = [pc EXCEPT ![p] = "down"]
    /\ pid' = [pid EXCEPT ![p] = None]
    /\ file' = Abandoned(p)
    /\ opened' = opened \ {p}
    /\ seenAged' = [seenAged EXCEPT ![p] = FALSE]
    /\ seenPid' = [seenPid EXCEPT ![p] = None]

(* Five minutes (staleAfter) pass, whatever the processes do: nothing      *)
(* refreshes the mtime of the lock file, and a FileInfo taken before is as *)
(* old as the file it describes.                                           *)
Age ==
    /\ Ageing /\ file # NoFile /\ ~ file.aged
    /\ file' = [file EXCEPT !.aged = TRUE]
    /\ seenAged' = [p \in Proc |-> seenAged[p] \/ pc[p] = "read"]
    /\ UNCHANGED <<pc, pid, seenPid, opened, faults>>

-----------------------------------------------------------------------------
(* What a process does by itself, given processor time.  Stopping a server *)
(* is somebody else's decision, and so is starting one.                    *)
Advance(p) ==
    \/ Stat(p) \/ Read(p) \/ Probe(p) \/ RemoveStale(p)
    \/ Create(p) \/ CreateRefused(p) \/ WriteMeta(p)
    \/ OpenDb(p) \/ InitStore(p) \/ CloseDb(p) \/ Release(p) \/ Exit(p)

Fail(p) ==
    \/ AcquireFails(p) \/ StatFails(p) \/ WriteFails(p)
    \/ OpenFails(p) \/ InitFails(p) \/ ReleaseFails(p) \/ Crash(p)

Start == \E p \in Proc : Launch(p)

Next == Start \/ Age \/ \E p \in Proc : Advance(p) \/ Stop(p) \/ Fail(p)

Spec == Init /\ [][Next]_vars

(* The scheduler runs every process, time passes, and a supervisor starts  *)
(* `serve` again and again.                                                *)
FairSpec == Spec /\ WF_vars(Start) /\ WF_vars(Age)
                 /\ \A p \in Proc : WF_vars(Advance(p))

-----------------------------------------------------------------------------
(* Type correctness.  Only a process that has seen an old mtime and is     *)
(* about to use it remembers one; the others must not act on stale data.   *)
TypeOK ==
    /\ pc \in [Proc -> PC]
    /\ pid \in [Proc -> Pid \cup {None}]
    /\ file \in LockFile \cup {NoFile}
    /\ seenAged \in [Proc -> BOOLEAN]
    /\ seenPid \in [Proc -> Pid \cup {None}]
    /\ opened \subseteq Proc
    /\ crashes \in 0..MaxCrashes /\ errors \in 0..MaxErrors
    /\ \A p \in Proc : pc[p] = "probe" => seenAged[p]

(* At most one process at a time is past lock.Acquire and has not yet      *)
(* called Release (store_test.go: the second instance fails).              *)
MutualExclusion ==
    \A p, q \in Proc : pc[p] \in Owning /\ pc[q] \in Owning => p = q

(* Whoever has the database open owns the file at the lock path: New opens *)
(* after Acquire, Close closes before Release, on every path.              *)
OpenDbIsLocked == \A p \in opened : file.owner = p

(* A process's lock file disappears or changes hands only by a step of the *)
(* process itself: neither the stale-lock clean-up nor the Release of      *)
(* another process takes it away.                                          *)
LosesOwnLockOnly ==
    \A p \in Proc : file.owner = p /\ file'.owner # p => pc'[p] # pc[p]
LockNotStolen == [][LosesOwnLockOnly]_vars

(* The error paths of New return the lock: a file is left behind only by a *)
(* crash, or when writing or removing that very file fails.                *)
LeavesLockOnFault ==
    \A p \in Proc : file.owner = p /\ file'.owner = Orphan =>
        \/ crashes' # crashes
        \/ errors' # errors /\ pc[p] \in {"write", "release"}
NoLockLeftBehind == [][LeavesLockOnFault]_vars

(* The lock file implements the lock of ExclusiveAccess: whoever answers   *)
(* for the file at the path holds the lock.                                *)
answering == IF file.owner \in Proc THEN file.owner ELSE None
Abstract == INSTANCE ExclusiveAccess WITH holder <- answering
ImplementsExclusiveAccess == Abstract!Spec

(* When the lock file is enough.  p is judging an old lock file when it    *)
(* has seen its age and not yet given up or removed it; q is filling the   *)
(* path when it is about to create the file or to write its id into it.    *)
(* Whatever is removed is what the path names by then: as long as nobody   *)
(* fills the path under a judge, the judge removes what it has judged.     *)
Judging(p) == (pc[p] \in {"read", "probe"} /\ seenAged[p]) \/ pc[p] = "remove"
Filling(q) == pc[q] \in {"create", "write"}
NoRace     == \A p, q \in Proc : ~ (Judging(p) /\ Filling(q))

(* Two ways to keep out of the race: processes are started one at a time,  *)
(* or no lock file in sight is old enough to be judged.                    *)
Calm == SerialStarts \/ ~ Ageing

(* The inductive invariant behind the properties above, of the behaviours  *)
(* without the race.  A process that has created the file and not yet      *)
(* removed it is the owner of the file at the path, the only one, and its  *)
(* id is in it from WriteMeta on; whoever is about to judge the file by a  *)
(* process id holds the id that is in it now, so that nobody gets to       *)
(* remove the file of a living process.                                    *)
Holding == {"write"} \cup Owning

PidsKnown  == \A p \in Proc : pc[p] # "down" => pid[p] \in Pid
HolderOwns == \A p \in Proc : pc[p] \in Holding => file.owner = p
OwnerHolds == \A p \in Proc : file.owner = p =>
                  pc[p] \in Holding /\ (pc[p] # "write" => file.pid = pid[p])
SeenIsCurrent == \A p \in Proc :
                  pc[p] = "probe" /\ file.owner \in Proc => seenPid[p] = file.pid
RemoveIsSafe == \A p \in Proc : pc[p] = "remove" => file.owner \notin Proc
OpenInside   == \A p \in opened : pc[p] \in {"init", "serving", "closing"}

IndInv == /\ TypeOK /\ PidsKnown /\ HolderOwns /\ OwnerHolds
          /\ SeenIsCurrent /\ RemoveIsSafe /\ OpenInside

(* What Calm means for Acquire: one process at a time, or no judge.        *)
OneStarter == SerialStarts => \A p, q \in Proc :
                  pc[p] \in Acquiring /\ pc[q] \in Acquiring => p = q
NoneAged   == ~ Ageing => ~ file.aged /\ \A p \in Proc : ~ Judging(p)

(* "Stale lock is auto-cleaned" (README.md): a file nobody answers for     *)
(* does not stay for ever.                                                 *)
StaleLockCleaned == file.owner = Orphan ~> file.owner # Orphan
=============================================================================
