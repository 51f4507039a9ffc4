SPECIFICATION Spec
CONSTANTS
  Names = {n1, n2}
  Files = {f1, f2, f3}
  Byte = {x}
  GARBAGE = GARBAGE
  NULL = NULL
  BLOCK_SIZE = 1
  MAX_FILE_SIZE = 1
  INT_MAX = 15
  FlagSets <- TwoFlags
  Sizes = {0, 1}
  Grow = FALSE
  FD_BOUND = 3
SYMMETRY Symmetry
CHECK_DEADLOCK FALSE
INVARIANTS
  TableInBounds
  FilesHeldExactly
  UniqueNames
