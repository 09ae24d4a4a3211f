SPECIFICATION FairSpec
CONSTANTS
    Keys <- MCKeys
    Proc = {p1, p2}
    UserFiles <- MCFiles
    Settings <- MCSettings
    Explicit = FALSE
    MaxEdits = 1
    MaxErrors = 1
    MaxCrashes = 1
INVARIANTS IndInv Precedence UserFileIsUsed BrokenIsBeingWritten
           ServerIsFound
PROPERTIES UserFileIsKept BrokenIsTransient
CHECK_DEADLOCK FALSE
