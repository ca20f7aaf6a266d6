SPECIFICATION Spec
CONSTANTS
    r = r
    k1 = k1
    k2 = k2
    c1 = c1
    c2 = c2
    Roots <- MCRoots
    Kids <- MCKids
    Cancellers <- MCCancellers
    Waiters <- OnKid
    NoToken = NoToken
CHECK_DEADLOCK FALSE
INVARIANTS
    DownwardOnly
    ReachesAll
PROPERTIES
    WakesUp
