SPECIFICATION Spec
CONSTANTS
    Proc = {p1, p2}
    Pid = {x1, x2, x3}
    None = None
    Orphan = Orphan
    SerialStarts = FALSE
    Ageing = TRUE
    PidReuse = FALSE
    MaxCrashes = 1
    MaxErrors = 0
INVARIANTS MutualExclusion
