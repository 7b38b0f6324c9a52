CONSTANTS
  Prime = 17
  Generator = 3
  Precision = 11
  Fractions = {1, 2, 3, 5, 11}
  Jobs <- MCJobs
  Mangle <- MCMangle
SPECIFICATION FleetSpec
INVARIANTS
  ConfirmedIsGenuine
  FleetSeesAll
  HonestIsVerified
CHECK_DEADLOCK FALSE
