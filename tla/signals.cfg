SPECIFICATION Spec
CONSTANTS
  MaxExact = 1000000
  WideShift = 1
  None = None
  Messages = {1}
  Names <- MCNames
  Databases <- MCDatabases
  Given <- MCGiven
  Foreign <- MCForeign
  MaxWire = 2
INVARIANTS CacheHoldsGiven RowsAreDecoded
PROPERTY GivenIsDecoded
