CONSTANTS
    Procs = {p1, p2}
    Trees = {t1, t2}
    Half = half
    None = none
    MaxId = 3
    MaxGen = 4
    Keep = 1
    KeepSafety = 0
SPECIFICATION Spec
PROPERTY
    SaveKeepsWork
