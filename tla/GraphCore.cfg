SPECIFICATION FairSpec
CONSTANTS
    MaxSteps = 2
    NActions = 2
    Deadlines = TRUE
    MaxEpoch = 1
    MaxWorld = 1
    StepBound = 3
CHECK_DEADLOCK FALSE
INVARIANTS TypeOK StopOwnsStatus
PROPERTIES NoTransactionAfterStop CallReturns
