SPECIFICATION Spec
CONSTANTS
  NoNode <- MCNoNode
  Node <- SignalNodes
  Kind <- MCKind
  Left <- MCLeft
  Right <- MCRight
  HasFile <- MCFile
  Cmd <- MCCmd
  Height <- MCHeight
  Line <- SignalLines
  Pid = {sh, p1, p2, p3, p4}
  Shell = sh
  Reaper = init
  FdLimits = {9}
  MaxFd = 9
  PipeCap = 1
  Work = 1
  MaxBody = 1
  MaxLines = 1
  MaxSignals = 1
INVARIANTS ChildrenAwaited
PROPERTIES ShellStays KeepsPromise
