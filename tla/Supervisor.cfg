CONSTANTS
    Pids = 3
    Buffers = 3
    BaseDelay = 1
    MaxDelay = 5
SPECIFICATION LiveSpec
INVARIANTS
    TypeOK
    EveryChildKnown
    FrameNotShared
    AckIsForFrame
    ExitLeavesNoChild
PROPERTIES
    StreamComesBack
    ShutdownCompletes
CHECK_DEADLOCK TRUE
