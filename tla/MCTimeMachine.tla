---- MODULE MCTimeMachine ----
EXTENDS TimeMachine, TLC
Symmetric == Permutations(Procs) \cup Permutations(Trees)
====
