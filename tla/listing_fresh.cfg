SPECIFICATION Spec
CONSTANTS
  NULL = NULL
  k1 = k1
  k2 = k2
  k3 = k3
  p1 = p1
  p2 = p2
  Contexts = {c1, c2}
  Iters = {i1, i2}
  Keys = {k1, k2, k3}
  Patterns = {p1, p2}
  Matches <- SmallMatches
  MaxYielded = 2
SYMMETRY Symmetry
INVARIANTS
  TypeOK
  ContextRefsExact
  LatestIteratorInOrder
CHECK_DEADLOCK FALSE
