SPECIFICATION Spec
CONSTANTS
  Tasks = {t1, t2, t3}
  Clients = {c1, c2}
  NULL = NULL
  TPOOL_MAX_THREADS = 2
  TPOOL_MAX_TASKS = 2
  SharedQueries = FALSE
SYMMETRY Symmetry
CHECK_DEADLOCK FALSE
INVARIANTS
  TypeOK
  PoolPartition
  ExclusiveExecution
  RunningCountExact
  NoLostWakeup
  NoForgottenJoiner
  FreshResult
  TaskLifetimes
PROPERTIES
  ImplementsTaskPool
