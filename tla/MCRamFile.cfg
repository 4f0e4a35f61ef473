SPECIFICATION Spec
CONSTANTS
  MEM_MIN_SIZE = 2
  HEAP_START = 1
  HEAP_SIZE = 10
  MAX_REQUEST = 3
  Files = {f1, f2}
  Data = {1, 2}
  FOREIGN = 9
INVARIANTS OnlyWordEndsLost BlocksApart StrayOnlyAtLimit
CHECK_DEADLOCK FALSE
