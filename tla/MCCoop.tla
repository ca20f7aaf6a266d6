-------------------------------- MODULE MCCoop --------------------------------
(* Two windows and two coordinators on one worktree.                         *)
EXTENDS Coop, TLC
CONSTANTS a, b, c1, c2, f, g
Twins == Permutations({a, b}) \cup Permutations({c1, c2}) \cup Permutations({f, g})
=============================================================================
