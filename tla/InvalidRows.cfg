CONSTANTS
  U32Max = 159
  DomainSize <- MCDomainSize
  MaxCells = 4
  Queries <- MCQueries
SPECIFICATION CheckSpec
INVARIANTS
  InvalidRowsAreMissing
CHECK_DEADLOCK FALSE
