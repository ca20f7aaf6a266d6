------------------------------- MODULE MCSteer -------------------------------
(* Messages are numbered in typing order, so no symmetry applies.           *)
EXTENDS Steer
=============================================================================
