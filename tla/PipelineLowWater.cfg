CONSTANTS
    MaxSegments = 3
    SegBytes = 2
    SteadyClock = TRUE
    Faults = FALSE
    HighWater = 3
    LowWater = 1
    MaxCrashes = 0
SPECIFICATION Spec
PROPERTY PruneReachesLowWater
CHECK_DEADLOCK TRUE
