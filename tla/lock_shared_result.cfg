SPECIFICATION Spec
CONSTANTS
  t1 = t1
  c1 = c1
  NULL = NULL
  Threads = {t1, t2}
  Contexts = {c1}
  Slots = {s1}
  Callables = {f}
  GIL = TRUE
  Uses <- Shared
INVARIANTS
  ResultIsOwn
