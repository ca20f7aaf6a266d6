SPECIFICATION FilesSpec
CONSTANTS
    u = u
    v = v
    f = f
    g = g
    Windows = {u, v}
    Paths = {f, g}
    Jobs = {1}
    Movers = {u}
    LastMove = 2
    MaxEdits = 2
    MaxCalls = 3
    MaxEscs = 1
    Deletes = FALSE
    NoFile = NoFile
    Unseen = Unseen
    Nobody = Nobody
CHECK_DEADLOCK FALSE
SYMMETRY Twins
PROPERTIES
    Survives
    OwnWorkKnown
    MoveSafe
