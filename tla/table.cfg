SPECIFICATION Spec
CONSTANTS
  v1 = v1
  v2 = v2
  Null = Null
  Panic = Panic
  Order = 4
  Keys = {1, 2, 3, 4}
  Values <- Pages
  Vals = {v1, v2}
  MaxRowsPerPage = 2
  MaxStatements = 5
  Inserts <- SomeInserts
  Wheres <- SomeWheres
  Sets <- ValSets
INVARIANTS TypeOK PagesBounded UniqueKeys IndexCoversRows
PROPERTIES ImplementsRelation
CHECK_DEADLOCK FALSE
