CONSTANTS
  U32Max = 159
  DimsSet <- MCDims
  AppIds = {0, 1, 2}
  MaxApps = 2
  Paddings = {1}
  Ops = {"app", "all", "decode", "columns"}
  Ids = {0, 1}
  Symbol <- MCSymbol
  ExtendColumn <- MCExtend
  Reconstruct <- MCReconstruct
  Requests <- MCRequests
SPECIFICATION Spec
INVARIANTS
  ColumnsExact
  NoPanic
  RowsAndCellsAgree
PROPERTY KeepsPromise
CHECK_DEADLOCK FALSE
