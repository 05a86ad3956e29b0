SPECIFICATION Spec
CONSTANTS
    Word = 8
    N = 4
    Threshold = 3
    Windows <- MCEmptyWindows
    Seeds = {0}
    Element <- MCElement
    MaxCrashes = 0
    NoArchive = NoArchive
CHECK_DEADLOCK FALSE
INVARIANT
    EndIsExact
