SPECIFICATION Spec
CONSTANTS
  TxnsIn <- OneEach
  Confs <- OtherConfs
  MaxEpoch = 2
  MaxStarts = 3
  MaxDrops = 1
  MaxFreeze = 1
  MaxPurge = 0
  MaxTorn = 1
INVARIANTS  NoTransactionTwice TornTailIsCut
PROPERTY SealedKept
CHECK_DEADLOCK FALSE
