SPECIFICATION Spec
CONSTANTS
    Connections = {c1, c2}
    MaxShutdowns = 0
    Hangups = FALSE
    Failures = FALSE
INVARIANT
    AnswersGoToAsker
CHECK_DEADLOCK FALSE
