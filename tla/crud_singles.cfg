SPECIFICATION Spec
CONSTANTS
  a = a
  b = b
  c = c
  x = x
  y = y
  NoRow = NoRow
  MaxId = 3
  Vals <- TwoVals
  Allowed = {"create", "read", "update", "delete"}
  Slots <- TwoSlots
  Workload <- SingleWork
  InitTables <- MCTables
  AutoInc = TRUE
  MaxOpen = 2
  Faults = {"statement", "reply"}
INVARIANTS TypeOK ReadYourWrite
PROPERTY ImplementsItemStore
