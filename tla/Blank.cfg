SPECIFICATION Spec
CONSTANTS
  Name <- MCName
  Builtin <- MCBuiltin
  Session = {"blank"}
  Line <- OneLine
  Environments <- OneEnvironments
  Program <- OneProgram
  MaxLines <- Once
  MaxChanges <- Never
INVARIANTS SpacesDoNothing
CHECK_DEADLOCK FALSE
