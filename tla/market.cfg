SPECIFICATION Spec
CONSTANTS
  None = None
  Views <- SomeViews
  Ids = {1}
CHECK_DEADLOCK FALSE
INVARIANTS RefreshShowsTheRow
PROPERTIES PageSettles
