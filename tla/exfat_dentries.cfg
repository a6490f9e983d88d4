\* One directory of up to three clusters: what is listed, removed and moved.
SPECIFICATION CarefulSpec
CONSTANTS
  Name <- MCName
  Given <- MCGiven
  NoName = ""
  Hash <- MCHash
  Seen <- MCSeen
  Chunks <- MCChunks
  Shown <- MCShown
  Random = {"a", "r"}
  Counts = {6, 9}
  PerCluster = 4
  MaxClusters = 3
  Images <- MCImages
  Stale <- MCStale
INVARIANTS TypeOK KidsAreFiles NoNameTwice UnusedIsLast RemovesItsOwn
PROPERTIES TrimIsTight ImplementsDirectory
