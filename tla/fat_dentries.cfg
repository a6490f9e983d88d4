\* One FAT directory of up to two clusters, or a fixed root: what is listed, removed and moved.
SPECIFICATION CarefulSpec
CONSTANTS
  Name <- MCName
  Given = {"A", "a", "lo"}
  NoName = ""
  Short <- MCShort
  Pieces <- MCPieces
  Shown <- MCShown
  Garbage = {0}
  Checksum <- MCChecksum
  Random = {"R", "S"}
  Counts = {2, 4}
  PerSector = 2
  PerCluster = 4
  MaxClusters = 2
  Images <- MCImages
  Stale <- MCStale
INVARIANTS TypeOK KidsAreFiles SetsAreWhole UnusedIsLast
PROPERTIES TrimIsTight ImplementsDirectory
