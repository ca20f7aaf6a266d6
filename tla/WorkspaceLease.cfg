SPECIFICATION WriterSpec
CONSTANTS
    p = p
    q = q
    w1 = w1
    d1 = d1
    d2 = d2
    a1 = a1
    a2 = a2
    a3 = a3
    b1 = b1
    ka = ka
    kb = kb
    Procs = {p, q}
    Worktrees = {w1}
    Dirs = {d1, d2}
    Turns <- MCTurns
    ProcOf <- MCProcOf
    DirOf <- MCDirOf
    WorktreeOf <- MCWorktreeOf
    Kids <- MCKids
    Spawner <- MCSpawner
    Sealers <- MCSealers
    Nobody = Nobody
INVARIANTS
    Exclusion
    NoSelfWait
    LocksMatch
