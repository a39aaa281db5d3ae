SPECIFICATION FairSpec
CONSTANTS
  a = a
  b = b
  c = c
  x = x
  y = y
  NoRow = NoRow
  MaxId = 3
  Vals <- TwoVals
  Allowed = {"create", "read", "update", "delete"}
  Slots <- TwoSlots
  Workload <- ReplaceWork
  InitTables <- MCOneRow
  AutoInc = TRUE
  MaxOpen = 2
  Faults = {}
PROPERTY EveryRequestAnswered
CHECK_DEADLOCK FALSE
