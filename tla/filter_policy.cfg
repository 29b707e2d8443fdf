SPECIFICATION Spec
CONSTANTS
  f = f
  g = g
  Frames = {f, g}
  Patterns <- MCPatterns
  Keys <- MCKeys
  MaxRows = 1
  RowCountMax = 1
  MaxSeen = 1
INVARIANT DefaultPolicyApplied
CHECK_DEADLOCK FALSE
