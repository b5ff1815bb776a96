CONSTANTS
    MaxRows = 3
    BatchSize = 2
    MaxSamples = 5
    MaxCrashes = 1
    MaxFaults = 1
SPECIFICATION LiveSpec
INVARIANTS
    TypeOK
    ResentOncePerFault
    QueueBounded
PROPERTIES
    OnlyFaultsLose
    ImplementsStoreAndForward
    BacklogDrains
    StopEventuallyReturns
CHECK_DEADLOCK TRUE
