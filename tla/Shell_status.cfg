SPECIFICATION Spec
CONSTANTS
  Scripts <- Lists
  Program <- Programs
  PIPE_SIZE = 1
  PROC_BOUND = 4
  FD_BOUND = 8
CHECK_DEADLOCK FALSE
INVARIANTS
  StatusOfLastCommand
