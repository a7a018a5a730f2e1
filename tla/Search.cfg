SPECIFICATION Spec
CONSTANTS
  Letter = {"a", "b"}
  PathValues <- MCPathValues
  NULL = NULL
  Cwd <- MCCwd
  Word = "ls"
  Others = {"x"}
  Contents <- MCContents
  NoDir = NoDir
  MaxChanges = 2
  MaxFailures = 1
INVARIANTS FilledFits ListTells RunsFirstOnPath
CHECK_DEADLOCK FALSE
