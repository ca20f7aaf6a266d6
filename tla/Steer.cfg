SPECIFICATION SteerSpec
CONSTANTS
    MaxMsgs = 4
    MaxIters = 1
    MaxEscs = 1
    MAX_PENDING = 2
INVARIANTS
    Conserved
    InTurnOrder
PROPERTIES
    LandedSettles
