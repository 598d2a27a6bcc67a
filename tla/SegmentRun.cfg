SPECIFICATION FairSpec
CONSTANTS
  TxnsIn <- TwoThenOne
  Confs <- GTIDUpload
  MaxEpoch = 2
  MaxStarts = 3
  MaxDrops = 1
  MaxFreeze = 0
  MaxPurge = 1
  MaxTorn = 0
INVARIANTS TypeOK CheckpointIsStored ExecutedIsStored NoTransactionTwice NoHole GuardsNeverTrip
PROPERTY AllBackedUp
CHECK_DEADLOCK FALSE
