---------------------------- MODULE MCStorageLock ----------------------------
(* Instances of StorageLock for TLC: the processes and the process ids are *)
(* interchangeable.                                                        *)
EXTENDS StorageLock, TLC

Symmetric == Permutations(Proc) \cup Permutations(Pid)
=============================================================================
