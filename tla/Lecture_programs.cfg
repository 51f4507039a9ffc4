SPECIFICATION Spec
CONSTANTS
  Coros = {c1, c2, c3}
  coro_sched = coro_sched
  NULL = NULL
  CThreads = {t1, t2, t3}
  Waiters = {w1, w2, w3}
  Signaller = main
  MAX_SIGNALS = 3
  Counters = {k1, k2, k3}
  ROUNDS = 2
  KINDS = {"pipe", "mem"}
  nfiles = 2
  SIZES = {0, 2, 4}
  SIZE_BYTES = 2
  MEM_SIZE = 3
  APIS = {"select", "poll", "epoll", "kqueue"}
  Clients = {s1, s2, s3}
  Server = server
  NUMBERS = 1
  FENCES = {TRUE, FALSE}
  Consumers = {e1, e2}
  MAX_EVENTS = 2
  MAX_MESSAGES = 4
INVARIANTS
  CoroInvariants
  StacksSafe
  SignalTakenOnce
  CountExact
  ArraysDelivered
  ServerAnswers
  FenceStopsReordering
  EventsReadable
PROPERTIES
  ImplementsCoro
  EveryTurnComes
  ProgramsProgress
CHECK_DEADLOCK FALSE
