SPECIFICATION FairSpec
CONSTANTS
    Contents = {"click"}
    MaxIndex = 1
    PerAdvance = 1
    MaxResumes = 1
    MaxNav = 1
    MaxSessions = 2
    MaxDisturbances = 1
    Nothing = Nothing
CHECK_DEADLOCK FALSE
PROPERTIES StopAnswered ContinuationEnds
