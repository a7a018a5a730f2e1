SPECIFICATION Spec
CONSTANTS
  NoNode <- MCNoNode
  Node <- OneLines
  Kind <- MCKind
  Left <- MCLeft
  Right <- MCRight
  HasFile <- MCFile
  Cmd <- MCCmd
  Height <- MCHeight
  Line <- OneLines
  Pid = {sh, p1}
  Shell = sh
  Reaper = init
  FdLimits = {9}
  MaxFd = 9
  PipeCap = 1
  Work = 2
  MaxBody = 1
  MaxLines = 1
  MaxSignals = 0
INVARIANTS PromptHandlesInterrupt
