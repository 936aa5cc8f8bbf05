SPECIFICATION CarefulSpec
CONSTANTS
    Chars <- MCChars
    Freed = 99
    StaticTable <- MCStaticTable
    ENTRY_OVERHEAD = 2
    InitTableBytes = 9
    High = 16
    LastMax = 15
    HuffmanDecode <- MCHuffmanDecode
    Blocks = {}
    MaxBytes = 14
    Names <- MCNames
    Values <- MCValues
    Sizes = {0, 4, 9}
INVARIANTS
    EndsAgree
CHECK_DEADLOCK FALSE
