CONSTANTS
  U32Max = 255
  DATA_CHUNK_SIZE = 5
  SCALAR_SIZE = 6
  MaxExponent = 4
  Arity = 10
  AppComponent = 9
  HashLimit = 14
  Chain = 30
  MaxSubmits = 2
  Accounts <- MCAccounts
  Additional <- MCAdditional
  Txs <- MCTxs
  Damage <- MCDamage
SPECIFICATION Spec
INVARIANTS
  SignersMeantIt
  HonestIsIncluded
  DecodedIsCanonical
  ClientReadsTheBlock
PROPERTY KeepsStream
CHECK_DEADLOCK FALSE
