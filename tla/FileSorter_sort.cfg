SPECIFICATION Spec
CONSTANTS
  Coros = {c1, c2}
  coro_sched = coro_sched
  NULL = NULL
  FILE_COUNT = 2
  MAX_NUMBER = 3
  MAX_COUNT = 3
  Contents <- SmallContents
CHECK_DEADLOCK FALSE
INVARIANTS
  SortedOnce
  SortCorrect
  OutputMerged
PROPERTIES
  Terminates
