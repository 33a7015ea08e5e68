------------------------------ MODULE MCEventStream ------------------------------
(* Instances of EventStream for TLC. *)
EXTENDS EventStream, TLC

Symmetry ==
  Permutations(Sessions) \cup Permutations(Handlers) \cup Permutations(Clients)

===============================================================================
