SPECIFICATION Spec
CONSTANTS
    main = main
    work = work
    a = a
    x = x
    y = y
    home = home
    proj = proj
    Convs = {a, x, y}
    Routes = {main, work}
    RouteOf <- MCRouteOf
    Roots = {home, proj}
    Home = home
    Primary = main
    Says <- MCSays
    Permits = 2
    Depth = 1
    MaxMsgs = 3
    MaxGen = 2
    MaxCrashes = 2
    Nobody = Nobody
    NoFile = NoFile
CHECK_DEADLOCK FALSE
INVARIANTS
    OneWriterPerRoot
    InOrder
    HistoryTrue
PROPERTIES
    Settles
