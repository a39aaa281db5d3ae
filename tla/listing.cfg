SPECIFICATION FairSpec
CONSTANTS
  a = a
  Loaders <- OneLoader
  Clients = {"rest", "memory"}
  Batch = 2
  MaxBorn = 4
  Faults = {"statement", "rows"}
INVARIANTS IInv NoRowTwice LoadedIsSnapshot
PROPERTY LoadAllEnds
