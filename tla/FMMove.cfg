CONSTANTS
  N = 2
  Dirs = {d1}
  Names = {n1, n2}
  MaxWrites = 1
  MaxForeign = 1
  MaxCalls = 2
  MaxCrashes = 1
SPECIFICATION Spec
INVARIANTS MoveTypeOK CopyKept RestartFindsFile NoLeftover
PROPERTIES NeverOverwrites
