\* Fill and trim only.
SPECIFICATION FillTrimSpec
CONSTANTS
  ClusterCount = 9
  RootOffset = 3
  NumSlots = 3
  MaxLen = 10
  MaxFill = 2
  Images <- MixedImage
  RootFlags = {FALSE}
  RawClusters = {}
  RawEntries = {}
  System <- MCSystem
INVARIANTS ExactlyAccounted SizeIsExact
PROPERTY CommandReturns
