SPECIFICATION Spec
CONSTANTS
  Keys = {k1, k2}
  SequenceKinds = {"tuple", "iterator"}
  WarningsRaise = FALSE
INVARIANTS
  NoReferenceLost
