SPECIFICATION Spec
CONSTANTS
    Inputs <- PathArrays
    InitialCapacity = 2
INVARIANT
    BetweenOnly
CHECK_DEADLOCK FALSE
