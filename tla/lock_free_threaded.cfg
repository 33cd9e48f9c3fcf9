SPECIFICATION Spec
CONSTANTS
  t1 = t1
  c1 = c1
  NULL = NULL
  Threads = {t1, t2}
  Contexts = {c1, c2}
  Slots = {passphrase, progress}
  Callables = {f}
  GIL = FALSE
  Uses <- OneOwn
INVARIANTS
  IndInv
  ResultIsOwnUntilRelease
PROPERTIES
  ImplementsMonitor
