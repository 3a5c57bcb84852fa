SPECIFICATION FairSpec
CONSTANTS
    r1 = r1
    r2 = r2
    r3 = r3
    k1 = k1
    k2 = k2
    Requests = {r1, r2}
    Keys = {k1}
    Digests = {d1, d2}
    Verdicts = {"allowed", "approval_required", "blocked"}
    NActions = 1
    LocalPointerFreshness = TRUE
    MaxEpoch = 0
    MaxWorld = 1
    None = None
CHECK_DEADLOCK FALSE
INVARIANTS TypeOK AnswerHonest
PROPERTIES ImplementsLedger Answered StopQuiesces
