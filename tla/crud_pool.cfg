SPECIFICATION FairSpec
CONSTANTS
  a = a
  b = b
  c = c
  x = x
  y = y
  NoRow = NoRow
  MaxId = 2
  Vals <- OneVal
  Allowed = {"create", "read", "update"}
  Slots <- ThreeSlots
  Workload <- PoolWork
  InitTables <- MCOneRow
  AutoInc = FALSE
  MaxOpen = 2
  Faults = {"leave"}
INVARIANT ConnectionComesBack
PROPERTIES EveryRequestAnswered TransactionsEnd
