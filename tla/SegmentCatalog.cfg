SPECIFICATION Spec
CONSTANTS
  TxnsIn <- OneEach
  Confs <- GTIDUpload
  MaxEpoch = 2
  MaxStarts = 3
  MaxDrops = 0
  MaxFreeze = 0
  MaxPurge = 0
  MaxTorn = 0
INVARIANT SealedCataloged
CHECK_DEADLOCK FALSE
