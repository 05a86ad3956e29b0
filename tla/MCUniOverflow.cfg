SPECIFICATION WalkSpec
CONSTANTS
    Word = 16
    Maxes = {12}
    t1 = t1
    t2 = t2
    Threads = {t1, t2}
    Owner = t1
    Idle = Idle
    MaxRounds = 1
    LaneWord = 32
    Lanes = 2
    MaxCrashes = 0
    NoArchive = NoArchive
CHECK_DEADLOCK FALSE
INVARIANT
    UniqueInFirstCycle
