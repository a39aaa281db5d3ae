SPECIFICATION XSpec
CONSTANTS
  a = a
  b = b
  x = x
  y = y
  z = z
  NoRow = NoRow
  MaxId = 3
  Vals <- MCVals
  NoColumns = z
  Allowed = {"create", "read", "update", "delete"}
  Slots <- OneSlot
  Calls <- Replaces
  ReadOnly <- FirstSlot
  Workload <- MCWorkload
  InitTables <- MCOneRow
  AutoInc = TRUE
  MaxOpen = 0
  Faults = {}
INVARIANT ReplacesById
