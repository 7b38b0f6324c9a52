CONSTANTS
  U32Max = 3
  U32Size = 4
  MaxBlocks = 2
  MaxTxs = 3
  Txs <- MCTxs
  Lookups <- MCLookups
  DamageHeader <- MCDamageHeader
  DamageProof <- MCDamageProof
SPECIFICATION Spec
INVARIANTS
  ProvenWereSubmitted
  HonestIsAccepted
  HeldHeaderIsGenuine
  FaultyIsSeen
  IdsLeadBack
PROPERTY KeepsBridge
CHECK_DEADLOCK FALSE
