SPECIFICATION FairSpec
CONSTANTS
    Proc = {p1, p2}
    Pid = {x1, x2, x3}
    None = None
    Orphan = Orphan
    SerialStarts = TRUE
    Ageing = TRUE
    PidReuse = FALSE
    MaxCrashes = 2
    MaxErrors = 1
PROPERTIES StaleLockCleaned
