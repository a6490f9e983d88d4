\* File commands only, on a directory of three clusters.
SPECIFICATION ShellSpec
CONSTANTS
  CountofClusters = 6
  ClusterCount = 6
  NumSlots = 2
  MaxGrow = 2
  Images <- OneLong
  RawEntries = {}
INVARIANT LastIsLast
