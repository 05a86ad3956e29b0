SPECIFICATION Spec
CONSTANTS
    Word = 8
    N = 4
    Threshold = 3
    Windows <- MCWindows
    Seeds = {0, 1}
    Element <- MCElement
    MaxCrashes = 2
    NoArchive = NoArchive
CHECK_DEADLOCK FALSE
INVARIANTS
    TypeOK
    ArchiveIsHonest
    StepDoneAssertion
    SizesAreCounts
    EndMeansScanned
PROPERTIES
    ImplementsLedger
    WalkEnds
