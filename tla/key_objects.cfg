SPECIFICATION Spec
CONSTANTS
  NULL = NULL
  Threads = {t1, t2}
  GpgKeys = {g1}
  Objects = {o1, o2, o3, o4, o5}
  Length <- SmallLength
SYMMETRY Symmetry
INVARIANTS
  TypeOK
  ViewsValid
  CountsExact
