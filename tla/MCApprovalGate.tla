----------------------------- MODULE MCApprovalGate -----------------------------
(* Instances of ApprovalGate for TLC. Requests and keys are interchangeable. *)
EXTENDS ApprovalGate, TLC

Symmetry == Permutations(Requests) \cup Permutations(Keys)

===============================================================================
