CONSTANTS
    MaxSegments = 3
    SegBytes = 2
    SteadyClock = TRUE
    Faults = FALSE
    HighWater = 1
    LowWater = 1
    MaxCrashes = 0
SPECIFICATION LiveSpec
INVARIANTS
    TypeOK
    ServerHoldsSegment
    NeverUploadOpenSegment
    UploadingIsCurrent
    DiskBounded
PROPERTIES
    PruneNeverOverdeletes
    PendingEventuallyServed
    StopEventuallyJoins
CHECK_DEADLOCK TRUE
