\* No command is killed, and each is one that can succeed.
SPECIFICATION CarefulSpec
CONSTANTS
  CountofClusters = 8
  ClusterCount = 7
  NumSlots = 3
  MaxGrow = 3
  Images <- ThreeImages
  RawEntries = {}
PROPERTIES CommandReturns AsAsked
