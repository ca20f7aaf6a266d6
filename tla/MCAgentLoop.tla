----------------------------- MODULE MCAgentLoop -----------------------------
(* One run after the other, in two projects: turns of the REPL, chat turns,  *)
(* sub-agents.                                                               *)
EXTENDS AgentLoop
CONSTANTS r1, p1, p2
=============================================================================
