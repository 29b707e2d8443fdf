SPECIFICATION Spec
CONSTANTS
  MaxExact = 1000000
  WideShift = 1
  None = None
  Messages = {1}
  Names <- MCNames
  Databases <- TwoDatabases
  Given <- MCGiven
  Foreign <- MCForeign
  MaxWire = 1
PROPERTY PeriodicIsUpdated
