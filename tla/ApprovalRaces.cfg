SPECIFICATION FairSpec
CONSTANTS
  Requests = {h1, h2, h3}
  Approvals = {a1}
  Keys = {k1}
  NoKey = NoKey
  NoJob = NoJob
  NoRequest = NoRequest
  Nobody = Nobody
  TTLs = {1}
  MaxClock = 1
  MaxRestarts = 1
INVARIANTS
  ClientsAgree LaunchAudited LostClaimIsExpired
PROPERTIES
  NoRevival EveryRequestAnswered
CHECK_DEADLOCK FALSE
