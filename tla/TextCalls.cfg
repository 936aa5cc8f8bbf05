SPECIFICATION Spec
CONSTANTS
    W32 = 7
    W64 = 10
    SearchLimit = 4
    SPACE = 32
    TAB = 9
    COMMA = 44
    Chars <- MCChars
    Radices <- MCRadices
    BufferLens <- MCBufferLens
    Texts <- MCTexts
    Patterns <- MCPatterns
    Lists <- MCLists
    Lengths <- MCLengths
    Objects = {s, t}
    minCapacity = 3
    Align = 4
    Pieces <- MCPieces
    Sizes = {1, 5}
    MaxStringCalls = 4
SYMMETRY MCSymmetry
INVARIANTS
    NumbersExact StringsExact StringsSound
CHECK_DEADLOCK FALSE
