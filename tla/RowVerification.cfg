CONSTANTS
  U32Max = 159
  DomainSize <- MCDomainSize
  MaxCells = 4
  Queries <- MCQueries
SPECIFICATION CheckSpec
INVARIANTS
  VerifiedAreAuthored
  VerifiedOrMissing
  CompleteRowsAreVerified
  ServerRowsPass
  OthersDoNoHarm
CHECK_DEADLOCK FALSE
