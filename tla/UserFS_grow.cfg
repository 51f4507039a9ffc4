SPECIFICATION Spec
CONSTANTS
  Names = {n1}
  Files = {f1}
  Byte = {x}
  GARBAGE = GARBAGE
  NULL = NULL
  BLOCK_SIZE = 2
  MAX_FILE_SIZE = 8
  INT_MAX = 31
  FlagSets <- CreateOnly
  Sizes = {0, 1, 2, 5}
  Grow = TRUE
  FD_BOUND = 1
CHECK_DEADLOCK FALSE
INVARIANTS
  GrownBlocksExist
