\* The entry of a linked chain is removed.
SPECIFICATION CarefulSpec
CONSTANTS
  ClusterCount = 8
  RootOffset = 3
  NumSlots = 2
  MaxLen = 9
  MaxFill = 1
  Images <- LinkedImage
  RootFlags = {FALSE}
  RawClusters = {}
  RawEntries = {}
  System <- MCSystem
INVARIANT RemovedIsReleased
CHECK_DEADLOCK FALSE
