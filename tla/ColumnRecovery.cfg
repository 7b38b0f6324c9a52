CONSTANTS
  Prime = 17
  Generator = 3
  RowCounts = {2, 4, 8}
  MaxDefects = 1
  Columns <- MCColumns
SPECIFICATION Spec
INVARIANTS
  ShiftedDivisorHasNoZero
  AnyHalfSuffices
CHECK_DEADLOCK FALSE
