SPECIFICATION Spec
CONSTANTS
  Runs = {r1, r2}
  Earlier = Earlier
  Requests <- MCRequests
  Present <- MCPresent
  NoOut = NoOut
  NoName = NoName
  Partial = Partial
  SlugWords = 2
SYMMETRY Symmetry
INVARIANTS RegistrationInv RecordedIsStored FailedLeavesStranded
