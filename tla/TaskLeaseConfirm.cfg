CONSTANTS
  w1 = w1
  w2 = w2
  Worker <- MCWorker
  None = None
  TTL = 3
  Grace = 0
  MaxEpoch = 2
SYMMETRY Symmetry
SPECIFICATION Spec
INVARIANT ConfirmedRunHoldsLease
CHECK_DEADLOCK FALSE
