\* Any command but a raw one that harms a chain, and kills.
SPECIFICATION FileSpec
CONSTANTS
  CountofClusters = 7
  ClusterCount = 6
  NumSlots = 3
  MaxGrow = 2
  Images <- FourImages
  RawEntries <- MCRawEntries
INVARIANTS TypeOK NoLinkToFree OneWayIn
PROPERTY ImplementsOwnership
