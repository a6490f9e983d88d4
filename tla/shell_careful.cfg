\* Careful use of the shell: the names are those on disk, and nothing is lost.
SPECIFICATION CarefulSpec
CONSTANTS
  Cluster <- MCCluster
  Root = 4
  Name <- MCName
  NoName = ""
  Upper <- MCUpper
  ListSize = 8
  Images <- MCImages
  Paths <- MCPaths
  Garbage = {FALSE}
  MaxEntries = 2
  MaxDepth = 2
INVARIANTS TypeOK CacheIsDisk PwdIsCluster OneNamePerCluster NeverAborts
PROPERTIES MakesWhereAsked ImplementsNamespace
