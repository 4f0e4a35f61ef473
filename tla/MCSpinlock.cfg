SPECIFICATION FairSpec
CONSTANTS
  c1 = c1
  c2 = c2
  c3 = c3
  Cores <- MCCores
  NoOwner = NoOwner
  BUFFER_DEPTH = 3
  DATA_VALUES = 4
INVARIANTS TypeOK MutualExclusion NoLostUpdate
PROPERTY ImplementsLock
