----------------------------- MODULE MCExportLedger -----------------------------
(* Instances of ExportLedger for TLC. *)
EXTENDS ExportLedger, TLC

Symmetry ==
  Permutations(Requests) \cup Permutations(Campaigns) \cup Permutations(Exports)
    \cup Permutations(Videos)

===============================================================================
