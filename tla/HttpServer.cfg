SPECIFICATION FairSpec
CONSTANTS
    Connections = {c1, c2}
    MaxShutdowns = 2
    Hangups = TRUE
    Failures = TRUE
INVARIANTS
    OkMeansClosed CrashOnlyAfterLoop SoleClientServed
PROPERTIES
    ShutdownStopsServer
CHECK_DEADLOCK FALSE
