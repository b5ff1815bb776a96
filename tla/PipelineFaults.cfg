CONSTANTS
    MaxSegments = 2
    SegBytes = 1
    SteadyClock = FALSE
    Faults = TRUE
    HighWater = 0
    LowWater = 0
    MaxCrashes = 1
SPECIFICATION Spec
PROPERTY ImplementsLifecycle
CHECK_DEADLOCK TRUE
