SPECIFICATION Spec
CONSTANTS
    Word = 5
    MaxAdded = 2
    MaxRemoved = 2
    MaxUnits = 3
    Lists <- MCLists
    RemovedLists <- MCRemovedLists
CHECK_DEADLOCK FALSE
INVARIANTS
    TypeOK
    KeepsTheDifference
    ResultInOrder
    LoopsComputeAggregated
PROPERTY
    Terminates
