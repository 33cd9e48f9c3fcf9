SPECIFICATION FairSpec
CONSTANTS
  c1 = c1
  c2 = c2
  c3 = c3
  NULL = NULL
  Threads = {t1, t2}
  Contexts = {c1, c2}
  MaxDepth = 2
  May <- Ordered
INVARIANTS
  TypeOK
  AssertionsHold
  NoCircularWait
PROPERTIES
  EveryCallReturns
