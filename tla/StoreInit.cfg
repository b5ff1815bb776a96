CONSTANTS
    Threads = {mqtt, uploader}
    Child = child
    Columns = 3
    MaxCrashes = 2
    MaxFaults = 1
SPECIFICATION LiveSpec
INVARIANTS
    TypeOK
    OpenMeansWhole
    CheckStillHolds
    FailsOnlyByFault
PROPERTIES
    EveryOpenReturns
CHECK_DEADLOCK FALSE
