SPECIFICATION Spec
CONSTANTS
  NoNode <- MCNoNode
  Node <- NestedNodes
  Kind <- MCKind
  Left <- MCLeft
  Right <- MCRight
  HasFile <- MCFile
  Cmd <- MCCmd
  Height <- MCHeight
  Line <- NestedLines
  Pid = {sh, p1, p2, p3, p4, p5, p6, p7}
  Shell = sh
  Reaper = init
  FdLimits = {9}
  MaxFd = 9
  PipeCap = 1
  Work = 2
  MaxBody = 0
  MaxLines = 1
  MaxSignals = 0
INVARIANTS NobodyFeedsItself
PROPERTIES EveryLineEnds
