SPECIFICATION FairSpec
CONSTANTS
  b1 = b1
  b2 = b2
  odd = odd
  NoEntry = NoEntry
  NoBackend = NoBackend
  Names <- AllNames
  Named <- GoodNames
  Files <- MCFiles
  Faults = {"server", "ddl", "reply", "listen", "kill"}
INVARIANTS Inv ServedIsReady HandlesAccounted
PROPERTY StartServes
