SPECIFICATION FairSpec
CONSTANTS
    CR = "r"
    LF = "n"
    Chars = {"x", "y", "r", "n"}
    Input <- MCInput
    InitialBufferSize = 2
    HalfRange = 32
    DestLens = {0, 1, 3}
    MaxLengths = {2, 5}
    Patterns <- MCPatterns
INVARIANTS
    BufferHoldsUnread LineExactUnlessAfterCR PeekSound DiscardExact BufferBounded
PROPERTIES
    ImplementsByteStream CallsReturn
