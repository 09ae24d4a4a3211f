SPECIFICATION Spec
CONSTANTS
    Proc = {p1, p2, p3}
    Pid = {x1, x2, x3}
    None = None
    Orphan = Orphan
    SerialStarts = FALSE
    Ageing = TRUE
    PidReuse = TRUE
    MaxCrashes = 2
    MaxErrors = 2
SYMMETRY Symmetric
CONSTRAINT NoRace
INVARIANTS MutualExclusion OpenDbIsLocked IndInv
PROPERTIES LockNotStolen NoLockLeftBehind ImplementsExclusiveAccess
