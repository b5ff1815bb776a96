CONSTANTS
    MaxSegments = 2
    SegBytes = 1
    SteadyClock = TRUE
    Faults = FALSE
    HighWater = 2
    LowWater = 1
    MaxCrashes = 0
SPECIFICATION Spec
INVARIANT FailedWriteNeverOffered
CHECK_DEADLOCK TRUE
