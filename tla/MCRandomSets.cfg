SPECIFICATION Spec
CONSTANTS
    Word = 16
    Maxes = {4, 5, 6, 8}
    Rounds = {1, 2}
    Sizes = {0, 1, 3, 9}
    Asked = {0, 1, 2, 5}
CHECK_DEADLOCK FALSE
INVARIANTS
    TypeOK
    NoValueTwice
    EveryValueHandedOver
    SetsFitTheBuffer
PROPERTY
    SetsEnd
