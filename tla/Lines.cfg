SPECIFICATION Spec
CONSTANTS
  Name <- MCName
  Builtin <- MCBuiltin
  Session <- MCSession
  Line <- MCLine
  Environments <- MCEnvironments
  Program <- MCProgram
  MaxLines <- MCMaxLines
  MaxChanges <- MCMaxChanges
INVARIANTS TypeOK OperatorsAreBare WordsRead CommandRead PipelineRead RedirectionRead TreeIsTree OnlyBlankCrashes TypesAreFresh AssignmentsRead
CHECK_DEADLOCK FALSE
