SPECIFICATION Spec
CONSTANTS
  Tasks = {t1, t2, t3}
  Clients = {c1, c2}
  NULL = NULL
  TPOOL_MAX_THREADS = 2
  TPOOL_MAX_TASKS = 3
  SharedQueries = TRUE
CHECK_DEADLOCK FALSE
INVARIANTS
  QueryHasPool
