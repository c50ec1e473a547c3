SPECIFICATION SettingsSpec
CONSTANTS
  n1 = n1
  n2 = n2
  g = g
  b = b
  Nodes = {n1, n2}
  Plain = {g}
  Binding = b
  Values = {0, 1}
  Empty = 0
  InitValue = 0
  MaxVersion = 3
INVARIANTS
  NoCopyIsAhead
PROPERTIES
  SaveIsNotBlind
  ConfirmedOperationRuns
SYMMETRY NodeSymmetry
CHECK_DEADLOCK FALSE
