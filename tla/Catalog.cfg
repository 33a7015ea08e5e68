SPECIFICATION Spec
CONSTANTS
  Requests = {h1, h2, h3}
  Campaigns = {p1}
  Characters = {c1}
  Episodes = {e1, e2}
  Scenes = {s1}
  Lines = {l1}
  Beats = {b1}
  Catalogs <- MCCatalogs
  Top = Top
  Unborn = Unborn
  Gone = Gone
  Null = Null
  Unstorable = Unstorable
  Keep = Keep
SYMMETRY Symmetry
INVARIANTS NothingDangles ErrorsNeedADelete
PROPERTIES LostWereReached ChangesWereAsked
