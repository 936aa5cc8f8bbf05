SPECIFICATION Spec
CONSTANTS
    Lengths = {1, 2}
    Sizes = {0, 1, 2}
    MaxCalls = 6
    Failures = TRUE
INVARIANTS
    AnswerFramed DeliveredComplete OkIsAnswered
CHECK_DEADLOCK FALSE
