CONSTANTS
  U32Max = 5
  AppIds = {0, 1, 2, 3}
  Lens = {0, 1, 2, 3, 5, 6}
  Sizes = {0, 1, 2, 3, 5}
  MaxItems = 2
  Items <- MCItems
  Foreign <- MCForeign
SPECIFICATION Spec
INVARIANTS
  TypeOK
  IndexTiles
  BuilderDecidesExactly
  DecodedIsIndex
  AuthorNeverRejected
  ErrorFlagSurvives
  DecodedContiguous
CHECK_DEADLOCK FALSE
