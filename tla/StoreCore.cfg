SPECIFICATION Spec
CONSTANTS
    c1 = c1
    c2 = c2
    Copies = {c1, c2}
    Tasks = {"verifier", "controller"}
    Window = 1
    MaxEvents = 4
    None = None
SYMMETRY Symmetry
INVARIANTS TypeOK StateIsNewest
PROPERTY NothingLost
