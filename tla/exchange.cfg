SPECIFICATION XSpec
CONSTANTS
  a = a
  b = b
  x = x
  y = y
  z = z
  NoRow = NoRow
  MaxId = 2
  Vals <- MCVals
  NoColumns = z
  Allowed = {"create", "read", "delete"}
  Slots <- TwoSlots
  Calls <- MCCalls
  ReadOnly <- FirstSlot
  Workload <- MCWorkload
  InitTables <- MCOneRow
  AutoInc = TRUE
  MaxOpen = 2
  Faults = {"rows", "metadata", "leave"}
INVARIANTS XInv RefusalsChangeNothing
PROPERTY ImplementsForCaller
