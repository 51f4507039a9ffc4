SPECIFICATION Spec
CONSTANTS
  Threads = {main, worker}
  Main = main
  Uses <- Each
  Addrs = {a1, a2}
  NULL = NULL
  Static = Static
  static_size = 3
  ALLOCATION_BATCH_SIZE = 2
SYMMETRY Symmetry
INVARIANTS
  NoAbort
  TrackedOnce
  ObjectsAccounted
  LeaksCounted
CHECK_DEADLOCK FALSE
