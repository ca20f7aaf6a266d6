SPECIFICATION Spec
CONSTANTS
    c0 = c0
    c1 = c1
    c2 = c2
    Convs <- MCConvs
    LenOf <- MCLenOf
    Drafts = {d1, d2}
    NoConv = NoConv
    NoDraft = NoDraft
    Nothing = Nothing
    MaxGen = 3
    Faults = {"early"}
INVARIANTS
    LastCommitRecoverable
    OfferIsLastCommit
    EffectsFlagged
PROPERTIES
    ImplementsRegister
CHECK_DEADLOCK FALSE
