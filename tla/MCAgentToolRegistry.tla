--------------------------- MODULE MCAgentToolRegistry ---------------------------
(* Instances of AgentToolRegistry for TLC. *)
EXTENDS AgentToolRegistry, TLC

Symmetry == Permutations(Calls) \cup Permutations(Workers)

===============================================================================
