SPECIFICATION Spec
CONSTANTS
    Keys <- MCKeys
    Proc = {p1, p2}
    UserFiles <- MCFiles
    Settings <- MCSettings
    Explicit = TRUE
    MaxEdits = 0
    MaxErrors = 0
    MaxCrashes = 0
INVARIANTS FirstLoadSucceeds
CHECK_DEADLOCK FALSE
