SPECIFICATION FairSpec
CONSTANTS
  UINT32 = 4
  HIGHS = 3
  LoadOrders <- BothOrders
  TICK_GAP = 2
  Waits <- MCWaits
  US_PER_MS = 2
  WaitsUs <- MCWaitsUs
INVARIANTS TornOnlyByCarry WaitNotEarly
PROPERTY WaitTerminates
