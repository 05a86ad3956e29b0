SPECIFICATION WalkSpec
CONSTANTS
    Word = 16
    Maxes = {2, 4, 6, 7, 8}
    t1 = t1
    t2 = t2
    Threads = {t1, t2}
    Owner = t1
    Idle = Idle
    MaxRounds = 2
    LaneWord = 32
    Lanes = 2
    MaxCrashes = 1
    NoArchive = NoArchive
CHECK_DEADLOCK FALSE
INVARIANTS
    UniqueInFirstCycle
    UniqueInEveryCycle
    FirstCycleComplete
    GetStepAnnouncesDraw
    LanesAreDraws
    WalkCoversList
PROPERTIES
    WalkImplementsLedger
    WalkEnds
