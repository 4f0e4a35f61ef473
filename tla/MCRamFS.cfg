SPECIFICATION RamfsSpec
CONSTANTS
  Names = {a, b}
  HEAP_NODES = 8
  MAX_PATH = 2
SYMMETRY NameSymmetry
VIEW LiveState
INVARIANTS ListedIsFound LinksLeadHome NoLeakWhileRoom
PROPERTY ImplementsFileTree
CHECK_DEADLOCK FALSE
