SPECIFICATION FairSpec
CONSTANTS
    Chars <- MCChars
    Freed = 99
    StaticTable <- MCStaticTable
    ENTRY_OVERHEAD = 2
    InitTableBytes = 7
    High = 16
    LastMax = 15
    HuffmanDecode <- MCHuffmanDecode
    Blocks <- MCBlocks
    MaxBytes = 6
INVARIANTS
    TableSound
PROPERTIES
    UsesTable DecodeReturns EveryStepAdvances
CHECK_DEADLOCK FALSE
