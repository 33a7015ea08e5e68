SPECIFICATION StreamSpec
CONSTANTS
  Sessions = {s1}
  Handlers = {h1, h2}
  Clients = {c1}
  MaxBatch = 2
  MaxReloads = 0
SYMMETRY Symmetry
INVARIANT NoEventSkipped
CHECK_DEADLOCK FALSE
