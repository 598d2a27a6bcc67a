CONSTANTS
  n1 = n1
  n2 = n2
  None = None
  Node <- MCNode
  PerNode = TRUE
  RetryBudget = 2
  MaxEpoch = 2
SYMMETRY Symmetry
SPECIFICATION Spec
INVARIANT Covered
