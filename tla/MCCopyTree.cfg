CONSTANTS
  Entry <- MCEntry
  Root = 0
  Trees <- MCTrees
  Bits = {"w", "o"}
  Umask = {"o"}
  BufSize = 2
  OpenMax = 4
SPECIFICATION Spec
INVARIANTS
  CopyTypeOK
  CopyIsRight
  PartialOnPath
  FailsExplained
PROPERTIES
  CopyEnds
