SPECIFICATION Spec
CONSTANTS
  a = a
  b = b
  c = c
  x = x
  y = y
  NoRow = NoRow
  MaxId = 3
  Vals <- TwoVals
  Allowed = {"create", "read", "update", "delete"}
  Slots <- TwoSlots
  Workload <- BulkWork
  InitTables <- MCOneRow
  AutoInc = TRUE
  MaxOpen = 0
  Faults = {"statement"}
INVARIANTS BatchInProgress FailedBatchChangesNothing
PROPERTY ImplementsItemStore
