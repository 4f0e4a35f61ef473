SPECIFICATION FairSpec
CONSTANTS
  CPU_Num = 4
  BSP_ID = 1
  Present <- MCPresent
  HEAP_BLOCKS = 4
  TICKS_10MS = 2
  COUNT_200US = 1
CHECK_DEADLOCK FALSE
INVARIANTS OwnStack MainAfterRelease
  
