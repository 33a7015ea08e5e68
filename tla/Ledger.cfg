SPECIFICATION Spec
CONSTANTS
  Requests = {h1, h2, h3}
  Campaigns = {c1, c2}
  Exports = {e1, e2}
  Videos = {v1, v2}
  Times = {t1}
  NoVideo = NoVideo
  Blank = Blank
  NoRow = NoRow
  None = None
SYMMETRY Symmetry
INVARIANTS LedgerInv RowsAgree
PROPERTY AttachedTogether
CHECK_DEADLOCK FALSE
