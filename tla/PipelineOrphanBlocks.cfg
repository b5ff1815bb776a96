CONSTANTS
    MaxSegments = 2
    SegBytes = 1
    SteadyClock = TRUE
    Faults = FALSE
    HighWater = 1
    LowWater = 0
    MaxCrashes = 1
SPECIFICATION LiveSpec
PROPERTY StoredEventuallyServed
CHECK_DEADLOCK TRUE
