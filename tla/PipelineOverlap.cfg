CONSTANTS
    MaxSegments = 2
    SegBytes = 1
    SteadyClock = FALSE
    Faults = FALSE
    HighWater = 0
    LowWater = 0
    MaxCrashes = 1
SPECIFICATION OverlapSpec
CONSTRAINT SecondsOnward
VIEW View
INVARIANTS
    WritersKeepSegments
    OpenSegmentsNotUploaded
    EveryFileTracked
PROPERTIES
    OnlyDeathsLeaveRows
    ImplementsLifecycle
CHECK_DEADLOCK TRUE
