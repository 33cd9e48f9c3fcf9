SPECIFICATION FairSpec
CONSTANTS
  t1 = t1
  c1 = c1
  NULL = NULL
  Threads = {t1, t2}
  Contexts = {c1}
  Slots = {s1}
  Callables = {f, g}
  GIL = TRUE
  Uses <- Shared
INVARIANTS
  TypeOK
  AssertionsHold
  AttachmentDiscipline
  MutualExclusion
  HookMatchesCallable
PROPERTIES
  CallbacksFixedDuringOperation
  EveryCallReturns
