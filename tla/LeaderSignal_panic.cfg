SPECIFICATION Spec
CONSTANTS
    MaxChange = 5
    MaxTick = 2
INVARIANT
    NoPanic
CHECK_DEADLOCK FALSE
