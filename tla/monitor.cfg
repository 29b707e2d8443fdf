SPECIFICATION Spec
CONSTANTS
  f = f
  g = g
  Frames = {f, g}
  Patterns <- MCPatterns
  Keys <- MCKeys
  MaxRows = 2
  RowCountMax = 2
  MaxSeen = 3
INVARIANTS TypeOK AppliedAsShown SavedIsRestored ShowsLatest UniqueShowsLatest
PROPERTY ShowsAccepted
\* the program may crash
CHECK_DEADLOCK FALSE
