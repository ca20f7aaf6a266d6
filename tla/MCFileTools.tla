----------------------------- MODULE MCFileTools -----------------------------
(* Two windows and an editor, on two files.                                  *)
EXTENDS FileTools, TLC
CONSTANTS u, v, f, g
Twins == Permutations({f, g})
=============================================================================
