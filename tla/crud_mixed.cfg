SPECIFICATION Spec
CONSTANTS
  a = a
  b = b
  c = c
  x = x
  y = y
  NoRow = NoRow
  MaxId = 3
  Vals <- TwoVals
  Allowed = {"create", "read", "update", "delete"}
  Slots <- TwoSlots
  Workload <- MixedWork
  InitTables <- MCOneRow
  AutoInc = FALSE
  MaxOpen = 0
  Faults = {"leave", "metadata", "rows"}
INVARIANTS IInv ConnectionsReturned
PROPERTY ImplementsItemStore
