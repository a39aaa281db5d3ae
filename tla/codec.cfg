SPECIFICATION Spec
CONSTANTS
  Texts = 7
  Place <- MCPlace
  TextNumber <- MCTextNumber
  NumberText <- MCNumberText
  BoolText <- MCBoolText
  NilText = 1
  MaxNumber = 1
  Columns <- MCColumns
  Expressions <- MCExpressions
  OrderLists <- MCOrderLists
  Offsets <- MCOffsets
  Sizes <- MCSizes
  Foreign <- MCForeign
  Half = 8
INVARIANTS RemoteMeansLocal FilterKept InMemoryAgrees ReencodingIsStable
