SPECIFICATION Spec
CONSTANTS
  NULL = NULL
  Threads = {t1, t2}
  Items = {a, b}
  BadItem = bad
  LossyItem = lossy
  CutItem = cut
  MaxItems = 2
INVARIANTS
  TypeOK
  AssignmentsAreWhole
  ReadsAreWhole
