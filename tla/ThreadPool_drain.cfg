SPECIFICATION FairSpec
CONSTANTS
  Tasks = {t1, t2}
  Clients = {c1, c2}
  NULL = NULL
  TPOOL_MAX_THREADS = 2
  TPOOL_MAX_TASKS = 2
  SharedQueries = FALSE
CHECK_DEADLOCK FALSE
PROPERTIES
  QueueDrains
