\* A directory from which every file was removed.
SPECIFICATION CarefulSpec
CONSTANTS
  Name <- MCName
  Given <- MCGiven
  NoName = ""
  Hash <- MCHash
  Seen <- MCSeen
  Chunks <- MCChunks
  Shown <- MCShown
  Random = {"a", "r"}
  Counts = {6, 9}
  PerCluster = 4
  MaxClusters = 3
  Images <- MCImages
  Stale <- MCStale
INVARIANT EmptyIsEmpty
