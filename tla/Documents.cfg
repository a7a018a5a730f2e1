SPECIFICATION Spec
CONSTANTS
  Char <- MCChar
  NL = "nl"
  NUL = "zero"
  NULL = NULL
  Inputs <- MCInputs
  Delim <- MCDelim
  BUFFER_SIZE = 2
  PipeCap = 2
  MaxFailures = 1
INVARIANTS LinesAreWhole NothingLost
PROPERTIES KeepsOrder DocumentEnds
CHECK_DEADLOCK FALSE
