SPECIFICATION Spec
CONSTANTS
    Word = 5
    MaxLength = 2
    Lists <- MCListsWithEmpty
    EntrySizes = {1, 2}
    Tradeoff = 4
CHECK_DEADLOCK FALSE
INVARIANT
    FindsRthValue
