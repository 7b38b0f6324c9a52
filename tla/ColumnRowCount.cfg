CONSTANTS
  Prime = 17
  Generator = 3
  RowCounts = {6}
  MaxDefects = 0
  Columns <- MCColumns
SPECIFICATION Spec
INVARIANT RowCountIsPowerOfTwo
CHECK_DEADLOCK FALSE
