----------------------------- MODULE MCIssueClosure -----------------------------
(* Instances of IssueClosure for TLC: two epics that share a batch. *)
EXTENDS IssueClosure, TLC

MCBatchOrder == <<1, 2>>
MCEpicOrder == <<11, 12>>
MCNamed == {{1}, {1, 2}, {2, 11}}
MCBatchesOf == 11 :> <<1, 2>> @@ 12 :> <<2>>

Symmetry == Permutations(Runs)

===============================================================================
