SPECIFICATION Spec
CONSTANTS
  v1 = v1
  v2 = v2
  Null = Null
  Panic = Panic
  Order = 8
  Keys = {1, 2, 3, 4, 5, 6, 7, 8}
  Values <- Pages
  Vals = {v1, v2}
  MaxRowsPerPage = 100
  MaxStatements = 2
  Inserts <- OnlyInserts
  Wheres = {}
  Sets = {}
INVARIANTS Unique
CHECK_DEADLOCK FALSE
