SPECIFICATION LaunchSpec
CONSTANTS
  Requests = {h1, h2, h3}
  Approvals = {a1}
  Keys = {k1}
  NoKey = NoKey
  NoJob = NoJob
  NoRequest = NoRequest
  Nobody = Nobody
  TTLs = {0, 1}
  MaxClock = 1
  MaxRestarts = 1
  NSteps = 1
  Workers = {w1, w2}
INVARIANTS
  GateInv WorkIsGranted OneJobPerApproval AnsweredWorkExists QueueKept
PROPERTIES
  KeepsContract
CHECK_DEADLOCK FALSE
