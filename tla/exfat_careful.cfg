\* Careful commands and restarts; the shell may wait at its prompt for ever.
SPECIFICATION CarefulSpec
CONSTANTS
  ClusterCount = 7
  RootOffset = 3
  NumSlots = 2
  MaxLen = 8
  MaxFill = 2
  Images <- OneDirectory
  RootFlags = {FALSE}
  RawClusters = {}
  RawEntries = {}
  System <- MCSystem
INVARIANTS OwnedIsMarked
PROPERTIES ForeignFatKept ImplementsOwnership
CHECK_DEADLOCK FALSE
