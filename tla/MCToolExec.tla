----------------------------- MODULE MCToolExec -----------------------------
(* Responses of up to three calls: with MAX_PARALLEL = 2 a run of safe      *)
(* calls can need two windows, and a barrier can stand first, between and   *)
(* last, as a write or as a task.                                           *)
EXTENDS ToolExec

R == "read"
W == "write"
T == "task"
MixedPlans == {<<R, W, R>>, <<W, W, R>>, <<R, R, W>>, <<W, R, R>>, <<R, T>>, <<T, W, R>>}
ReadPlans  == {<<R, R, R>>, <<R>>}
AllPlans   == MixedPlans \cup ReadPlans
=============================================================================
