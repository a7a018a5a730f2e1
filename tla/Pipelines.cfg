SPECIFICATION Spec
CONSTANTS
  NoNode <- MCNoNode
  Node <- PipeNodes
  Kind <- MCKind
  Left <- MCLeft
  Right <- MCRight
  HasFile <- MCFile
  Cmd <- MCCmd
  Height <- MCHeight
  Line <- PipeLines
  Pid = {sh, p1, p2, p3, p4}
  Shell = sh
  Reaper = init
  FdLimits = {5, 6, 7, 8, 9}
  MaxFd = 9
  PipeCap = 1
  Work = 2
  MaxBody = 1
  MaxLines = 1
  MaxSignals = 0
INVARIANTS TypeOK ChildrenReaped DescriptorsRestored
PROPERTIES KeepsPromise EveryLineEnds
