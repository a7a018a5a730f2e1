SPECIFICATION Spec
CONSTANTS
  NoNode <- MCNoNode
  Node <- SimpleNodes
  Kind <- MCKind
  Left <- MCLeft
  Right <- MCRight
  HasFile <- MCFile
  Cmd <- MCCmd
  Height <- MCHeight
  Line <- SimpleLines
  Pid = {sh, p1}
  Shell = sh
  Reaper = init
  FdLimits = {5, 6, 7, 8, 9, 10}
  MaxFd = 10
  PipeCap = 2
  Work = 1
  MaxBody = 2
  MaxLines = 2
  MaxSignals = 0
INVARIANTS DescriptorsRestored
PROPERTIES KeepsPromise EveryLineEnds
