SPECIFICATION Spec
CONSTANTS
    Profiles <- Deliveries
    MaxBackspaces = 2
CHECK_DEADLOCK FALSE
INVARIANTS TypeOK VerifiedHolds StopBounded FieldKept FocusGuard
