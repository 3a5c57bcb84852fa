SPECIFICATION Spec
CONSTANTS
    a = a
    b = b
    s1 = s1
    s2 = s2
    k1 = k1
    k2 = k2
    Readers = {a, b}
    Screens = {s1, s2}
    Keyboards = {k1, k2}
    MaxFrames = 4
    None = None
SYMMETRY Symmetry
INVARIANTS TypeOK VersionNamesScreen GuardHonest
