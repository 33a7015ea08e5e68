SPECIFICATION StreamFairSpec
CONSTANTS
  Sessions = {s1}
  Handlers = {h1, h2, h3}
  Clients = {c1}
  MaxBatch = 2
  MaxReloads = 1
INVARIANTS StreamInv SkippedOnlyWhenOverlapped
PROPERTY EveryEventDelivered
CHECK_DEADLOCK FALSE
