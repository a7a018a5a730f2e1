SPECIFICATION Spec
CONSTANTS
  Name <- MCName
  Builtin <- MCBuiltin
  Session = {"stages"}
  Line <- OneLine
  Environments <- OneEnvironments
  Program <- OneProgram
  MaxLines <- Once
  MaxChanges <- Never
INVARIANTS EveryStageRuns
CHECK_DEADLOCK FALSE
