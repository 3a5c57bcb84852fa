SPECIFICATION FairSpec
CONSTANTS
    p0 = p0
    p1 = p1
    p2 = p2
    Calls = {"verifier", "controller"}
    Providers = {p0, p1, p2}
    Route <- MCRoute
    Ready = {p1, p2}
    Reservation <- MCReservation
    Charges = {1, 3}
    MaxAttempts = 3
    MaxCost = 4
INVARIANT WithinBudget
PROPERTY CallEnds
