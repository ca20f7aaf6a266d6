SPECIFICATION Spec
CONSTANTS
    MAX_PARALLEL = 2
    Plans <- AllPlans
    MaxTurns = 2
    MaxOuter = 1
    Droppable = TRUE
CHECK_DEADLOCK FALSE
INVARIANTS
    SerialView
    ReportsTrue
    WritesGuarded
PROPERTIES
    BatchSettles
