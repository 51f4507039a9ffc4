SPECIFICATION FairSpec
CONSTANTS
  Tasks = {t1, t2, t3}
  Clients = {c1}
  NULL = NULL
  TPOOL_MAX_THREADS = 1
  TPOOL_MAX_TASKS = 3
  SharedQueries = FALSE
CHECK_DEADLOCK FALSE
PROPERTIES
  DeleteReturns
