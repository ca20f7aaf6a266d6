SPECIFICATION Spec
CONSTANTS
    a = a
    b = b
    c1 = c1
    c2 = c2
    f = f
    g = g
    Sessions = {a, b}
    Coords = {c1, c2}
    Paths = {f}
    MaxTurns = 3
    Nobody = Nobody
CHECK_DEADLOCK FALSE
SYMMETRY Twins
INVARIANTS
    Accounted
    OverlapKnown
PROPERTIES
    SplitOwn
    Reviewed
