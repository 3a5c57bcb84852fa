SPECIFICATION Spec
CONSTANTS
    MaxSteps = 3
    NActions = 2
    Deadlines = TRUE
    MaxEpoch = 1
    MaxWorld = 1
    StepBound = 3
CHECK_DEADLOCK FALSE
PROPERTY ConsentIsExact
