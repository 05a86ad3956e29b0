SPECIFICATION Spec
CONSTANTS
    Word = 9
    MaxLength = 5
    Lists <- MCLists
    EntrySizes = {1, 2, 3}
    Tradeoff = 1
CHECK_DEADLOCK FALSE
INVARIANTS
    StaysInside
    ContainsIsMembership
    FindsRthValue
PROPERTY
    Terminates
