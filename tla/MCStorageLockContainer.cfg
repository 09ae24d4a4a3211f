SPECIFICATION FairSpec
CONSTANTS
    Proc = {p1}
    Pid = {x1}
    None = None
    Orphan = Orphan
    SerialStarts = TRUE
    Ageing = TRUE
    PidReuse = TRUE
    MaxCrashes = 1
    MaxErrors = 0
PROPERTIES StaleLockCleaned
