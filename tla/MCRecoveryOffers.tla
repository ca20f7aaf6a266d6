--------------------------- MODULE MCRecoveryOffers ---------------------------
(* Processes are interchangeable, and so are the directory objects.          *)
EXTENDS RecoveryOffers, TLC
CONSTANTS a, b, c, d1, d2, d3
MCProcs == {a, b, c}
MCDirs == {d1, d2, d3}
Twins == Permutations(MCProcs) \cup Permutations(MCDirs)
=============================================================================
