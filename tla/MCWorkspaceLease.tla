--------------------------- MODULE MCWorkspaceLease ---------------------------
(* Process p has two lanes in the directory d1 of worktree w1 and one in its *)
(* part d2, process q one REPL turn in d1; a turn of each process may        *)
(* delegate to a writing sub-agent.                                          *)
EXTENDS WorkspaceLease, TLC
CONSTANTS p, q, w1, d1, d2, a1, a2, a3, b1, ka, kb
MCTurns == {a1, a2, a3, b1}
MCKids == {ka, kb}
MCProcOf == a1 :> p @@ a2 :> p @@ a3 :> p @@ b1 :> q
MCDirOf == a1 :> d1 @@ a2 :> d1 @@ a3 :> d2 @@ b1 :> d1
MCWorktreeOf == d1 :> w1 @@ d2 :> w1
MCSpawner == ka :> a1 @@ kb :> b1
MCSealers == {b1}

=============================================================================
