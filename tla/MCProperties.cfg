SPECIFICATION ListSpec
CONSTANTS
    Word = 16
    Addable <- MCAddable
    Plain <- MCPlain
    MaxAdded = 3
    MaxStored = 5
    Tradeoff = 1
    NoProperty = NoProperty
    BitsPerChunk = 2
    GrowBy = 1
    Garbage = Garbage
    Bits = 1
    PortRadix = 4
    Ranges <- MCRanges
    Objects <- MCObjects
    Texts <- MCTexts
    Listed = {2, 4, 12}
    SetSize = 2
INVARIANTS
    PiecesAreMerged
    EndsAfterItsBegin
    ValuesHaveTheirProperties
    MemoryHoldsEnds
