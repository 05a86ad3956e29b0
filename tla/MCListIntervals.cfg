SPECIFICATION Spec
CONSTANTS
    Word = 8
    Addable <- MCAddable
    Removable <- MCRemovable
    Others <- MCOthers
    BlockSizes = {1, 2, 4}
    EntrySizes = {1, 2}
    MaxLength = 2
CHECK_DEADLOCK FALSE
INVARIANTS
    SizeCountsValues
    ReadyForLookup
PROPERTY
    ImplementsIntervalSet
