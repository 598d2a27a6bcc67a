CONSTANTS
  w1 = w1
  w2 = w2
  Worker <- MCWorker
  None = None
  TTL = 2
  Grace = 0
  MaxEpoch = 2
SYMMETRY Symmetry
CONSTRAINT OneReleaseWaits
SPECIFICATION Spec
INVARIANTS
  TypeOK
  EpochNamesOneWorker
  FreshRunHoldsLease
PROPERTIES
  LostStaysLost
  CheckpointEpochGrows
  ImplementsEpochFence
CHECK_DEADLOCK FALSE
