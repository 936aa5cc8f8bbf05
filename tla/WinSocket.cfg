SPECIFICATION Spec
CONSTANTS
    Threads = {t1, t2}
    Names = {h1, h2}
    MaxObjs = 3
    MaxCalls = 6
    MaxRetries = 2
INVARIANTS
    Accounted ResultsAsKernel CallbackFindsAwaiter
PROPERTIES
    ForeignOnlyInClose CloseEndsCalls
CHECK_DEADLOCK FALSE
