SPECIFICATION AddressSpec
CONSTANTS
    Word = 256
    Bits = 2
    PortRadix = 16
    Addable = {}
    Removable = {}
    Others <- MCOthers
    BlockSizes = {1}
    EntrySizes = {1}
    MaxLength = 32
    Digits <- MCDigits
    Addresses <- MCAddresses
    LastBytes <- MCLastBytes
    BlockParts <- MCBlockParts
    Malformed <- MCMalformed
    Lines <- MCLines
    Protocols = {1, 2}
    Garbage = {0, 3}
    MaxHeld = 2
    MaxCount = 8
CHECK_DEADLOCK FALSE
INVARIANT
    DocumentedFormsAreRead
