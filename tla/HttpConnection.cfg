SPECIFICATION FairSpec
CONSTANTS
    Inputs <- MCInputs
    Failures = TRUE
    Range32 = 4
    BufferLens = {0, 1, 2, 5}
INVARIANTS
    TypeOK RequestsInStep ContentExact ReadsProgress OneAnswerEach
PROPERTIES
    RunEnds
CHECK_DEADLOCK FALSE
