CONSTANTS
  U32Max = 159
  DimsSet <- MCDims
  AppIds = {0, 1, 2}
  MaxApps = 2
  Paddings = {1}
  Ops = {"all"}
  Ids = {0}
  Symbol <- MCSymbol
  ExtendColumn <- MCExtend
  Reconstruct <- MCReconstruct
  Requests <- MCRequests
SPECIFICATION Spec
INVARIANT ReconstructsAll
CHECK_DEADLOCK FALSE
