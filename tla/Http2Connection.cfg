SPECIFICATION Spec
CONSTANTS
    ByteRange = 4
    Inputs <- MCInputs
    StrayHeaders <- MCStrayHeaders
    BitOr <- MachineOr
    BitAnd <- MachineAnd
INVARIANTS
    FramesAsSent
PROPERTIES
    RunEnds
CHECK_DEADLOCK FALSE
