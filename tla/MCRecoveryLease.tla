--------------------------- MODULE MCRecoveryLease ---------------------------
(* Two conversations, one of them empty (never offered), one draft.        *)
EXTENDS RecoveryLease, TLC
CONSTANTS c0, c1, c2
MCConvs == {c0, c1, c2}
MCLenOf == c0 :> 0 @@ c1 :> 1 @@ c2 :> 1
=============================================================================
