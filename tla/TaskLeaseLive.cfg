CONSTANTS
  w1 = w1
  w2 = w2
  Worker <- MCWorker
  None = None
  TTL = 1
  Grace = 1
  MaxEpoch = 2
SPECIFICATION FairSpec
PROPERTY TakenOverRunEnds
CHECK_DEADLOCK FALSE
