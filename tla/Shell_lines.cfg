SPECIFICATION FairSpec
CONSTANTS
  Scripts <- AllScripts
  Program <- Programs
  PIPE_SIZE = 1
  PROC_BOUND = 4
  FD_BOUND = 8
CHECK_DEADLOCK FALSE
INVARIANTS
  TypeOK
  RunsAsWritten
  NothingLeft
  StdinConnected
  WordsKept
PROPERTIES
  ScriptEnds
