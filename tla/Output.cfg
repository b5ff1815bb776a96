CONSTANTS
    SegmentTicks = 2
    BaseTicks = 1
    MaxTicks = 5
    MaxFailures = 4
SPECIFICATION LiveSpec
INVARIANTS
    TypeOK
    OnlyOpenMuxerUsed
    OnlyFailedInitsLeak
PROPERTIES
    RtmpComesBack
CHECK_DEADLOCK TRUE
