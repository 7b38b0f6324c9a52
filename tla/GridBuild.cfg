CONSTANTS
  DATA_CHUNK_SIZE = 3
  SCALAR_SIZE = 4
  CHUNK_SIZE = 4
  MINIMUM_BLOCK_SIZE = 8
  MaxExponent = 10
  U16Max = 8
  U32Max = 64
  MaxXts = 3
  Ids = {0, 1}
  Lengths = {0, 1, 8}
  LargestDims <- MCDims
  Bounds <- MCBounds
  Factors = {2, 3}
  Origs <- MCOrigs
  Requests <- MCRequests
SPECIFICATION BuildSpec
INVARIANTS
  SubmittedIsStored
  DimensionsAreExact
  AppRowsHoldTheApp
  SameBlock
CHECK_DEADLOCK FALSE
