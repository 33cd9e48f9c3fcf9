SPECIFICATION Spec
CONSTANTS
  NULL = NULL
  MaxCallbacks = 3
  FileSize = 3
  BufferSize = 2
INVARIANTS
  TypeOK
  ExceptionsSurface
  NestedErrorSurvives
  NothingPending
  PositionsAgree
