--------------------------- MODULE MCAgentRequests ---------------------------
(* Small instances of AgentRequests for TLC. *)
EXTENDS AgentRequests, TLC

CallersSymmetry == Permutations(Callers)
=============================================================================
