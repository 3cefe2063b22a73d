SPECIFICATION Spec
CONSTANTS
  Null = Null
  MaxFaults = 1
  Inputs <- AllInputs
  Conditions <- AllConditions
  Depth <- Nesting
INVARIANTS TablesCombined SelectionRight GroupsRight SortedAndStable PagesPartition
CHECK_DEADLOCK FALSE
