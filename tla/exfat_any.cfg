\* Any command, raw ones too, on any state, with restarts.
SPECIFICATION Spec
CONSTANTS
  ClusterCount = 5
  RootOffset = 3
  NumSlots = 1
  MaxLen = 6
  MaxFill = 2
  Images <- SmallImage
  RootFlags = {FALSE}
  RawClusters = {4, 9}
  RawEntries <- MCRawEntries
  System <- MCSystem
INVARIANTS TypeOK BitmapCoherent ChosenIsFree
CONSTRAINTS FewStrayWrites SmallCache
