CONSTANTS
  n1 = n1
  n2 = n2
  None = None
  Node <- MCNode
  Budget = 3
SPECIFICATION Spec
PROPERTIES OldEpochNotRetried
CHECK_DEADLOCK FALSE
