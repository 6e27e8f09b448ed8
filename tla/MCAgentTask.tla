----------------------------- MODULE MCAgentTask -----------------------------
(* TLC instances of AgentTask.                                               *)
EXTENDS AgentTask, TLC

Symmetry == Permutations(Workers) \cup Permutations(Calls) \cup Permutations(Keys)
=============================================================================
