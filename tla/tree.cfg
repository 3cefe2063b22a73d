SPECIFICATION Spec
CONSTANTS
  Order = 4
  Keys <- TreeKeys
  p1 = p1
  p2 = p2
  Values = {p1, p2}
  Workloads <- TreeWorkloads
  Panic = Panic
INVARIANTS SearchTree OnlySeparatorsLost
CHECK_DEADLOCK FALSE
