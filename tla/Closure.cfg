SPECIFICATION Spec
CONSTANTS
  BatchOrder <- MCBatchOrder
  EpicOrder <- MCEpicOrder
  BatchesOf <- MCBatchesOf
  Named <- MCNamed
  Runs = {r1, r2}
  MaxEdits = 1
  MaxFailures = 1
SYMMETRY Symmetry
INVARIANTS ClosureInv EpicHasBatches EpicNotForgotten RerunIsQuiet
CHECK_DEADLOCK FALSE
