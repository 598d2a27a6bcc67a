CONSTANTS
  n1 = n1
  n2 = n2
  None = None
  Node <- MCNode
  Budget = 2
SPECIFICATION FairSpec
INVARIANTS TypeOK HolderNotLockedOut
PROPERTIES FenceHolds FailureReported LateReported 
CHECK_DEADLOCK FALSE
