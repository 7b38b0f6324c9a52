CONSTANTS
  Thread = {t1, t2}
  U16Max = 7
  DimsSet <- MCDims
  MaxCells = 2
  Requests <- MCRequests
SPECIFICATION FairSpec
INVARIANTS
  TypeOK
  LockIsShort
PROPERTIES
  Answers
  KeepsProofPromise
CHECK_DEADLOCK FALSE
