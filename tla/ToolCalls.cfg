SPECIFICATION FairSpec
CONSTANTS
  Tools = {t1}
  Calls = {c1, c2, c3}
  Workers = {w1, w2}
  NoCall = NoCall
INVARIANTS RegistryInv AuditIsAnswer
PROPERTY EveryCallAnswered
CHECK_DEADLOCK FALSE
