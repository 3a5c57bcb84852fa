SPECIFICATION Spec
CONSTANTS
    r1 = r1
    r2 = r2
    Runs = {r1, r2}
    Nobody = Nobody
    Name <- MCName
CHECK_DEADLOCK FALSE
INVARIANTS TypeOK DriveAccounted ArtifactKept
PROPERTY NoRetry
