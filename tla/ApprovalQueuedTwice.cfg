SPECIFICATION Spec
CONSTANTS
  Requests = {h1, h2, h3}
  Approvals = {a1}
  Keys = {k1}
  NoKey = NoKey
  NoJob = NoJob
  NoRequest = NoRequest
  Nobody = Nobody
  TTLs = {1}
  MaxClock = 1
  MaxRestarts = 0
SYMMETRY Symmetry
INVARIANT QueuedOnce
CHECK_DEADLOCK FALSE
