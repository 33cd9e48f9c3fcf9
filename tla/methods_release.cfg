SPECIFICATION Spec
CONSTANTS
  Keys = {k1, k2}
  SequenceKinds = {"tuple", "iterator", "list"}
  WarningsRaise = TRUE
INVARIANTS
  TypeOK
  EverythingReleased
  ReleasesProper
  ArgumentsValid
  RaisesIffNull
  ResultsWhole
  FixedSequenceKeepsKeys
