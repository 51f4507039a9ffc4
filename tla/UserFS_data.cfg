SPECIFICATION Spec
CONSTANTS
  Names = {n1}
  Files = {f1, f2}
  Byte = {x}
  GARBAGE = GARBAGE
  NULL = NULL
  BLOCK_SIZE = 2
  MAX_FILE_SIZE = 3
  INT_MAX = 15
  FlagSets <- CreateOnly
  Sizes = {0, 1, 2, 3}
  Grow = FALSE
  FD_BOUND = 2
SYMMETRY Symmetry
CHECK_DEADLOCK FALSE
INVARIANTS
  WithinLimits
PROPERTIES
  ImplementsFileSystem
