SPECIFICATION Spec
CONSTANTS
    a = a
    b = b
    c = c
    d1 = d1
    d2 = d2
    d3 = d3
    Procs <- MCProcs
    Dirs <- MCDirs
    MaxGen = 1
    Nobody = Nobody
    Nothing = Nothing
CHECK_DEADLOCK FALSE
SYMMETRY Twins
INVARIANTS
    TakenOnce
    NothingLost
PROPERTIES
    OwnerKeepsDir
