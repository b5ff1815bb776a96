SPECIFICATION LiveSpec
INVARIANT TypeOK
PROPERTIES
    TornByOneRound
    DangerSettles
CHECK_DEADLOCK TRUE
