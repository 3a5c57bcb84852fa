SPECIFICATION Spec
CONSTANTS
    Contents = {"terminal"}
    MaxIndex = 2
    PerAdvance = 2
    MaxResumes = 1
    MaxNav = 0
    MaxSessions = 2
    MaxDisturbances = 2
    Nothing = Nothing
CHECK_DEADLOCK FALSE
INVARIANTS TypeOK IdentityHolds LoopRuns
PROPERTIES KeepsLedger NoBlindInput SettledIsFinal
