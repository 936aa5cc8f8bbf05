SPECIFICATION Spec
CONSTANTS
    Short <- MCShort
    MaxText = 3
INVARIANTS
    DecodesExactly EncodesExactly
CHECK_DEADLOCK FALSE
