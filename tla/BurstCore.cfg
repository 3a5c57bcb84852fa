SPECIFICATION Spec
CONSTANTS
    r1 = r1
    r2 = r2
    r3 = r3
    k1 = k1
    k2 = k2
    Requests = {r1, r2, r3}
    Keys = {k1, k2}
    Digests = {d1}
    Verdicts = {"allowed"}
    NActions = 2
    LocalPointerFreshness = FALSE
    MaxEpoch = 1
    MaxWorld = 0
    None = None
CHECK_DEADLOCK FALSE
INVARIANT SingleFlight
PROPERTIES NoRepeatAfterUnsafe
SYMMETRY Symmetry3
