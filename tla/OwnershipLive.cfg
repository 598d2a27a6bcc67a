CONSTANTS
  n1 = n1
  n2 = n2
  None = None
  Node <- MCNode
  PerNode = TRUE
  RetryBudget = 1
  MaxEpoch = 9
  Budget = 4
SPECIFICATION LiveSpec
PROPERTIES StopFinishes DeleteFinishes StartFinishes
CHECK_DEADLOCK FALSE
