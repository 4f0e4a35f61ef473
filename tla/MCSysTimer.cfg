SPECIFICATION FairSpec
CONSTANTS
  OS_TIMERS_N = 2
  OS_TIME_SLICE = 3
  SYS_TICK_INCREMENT_MS = 2
  TickAdjustReload = 2
  MS_PER_SEC = 4
  UINT32 = 4
  UINT64 = 6
  CountDowns <- MCCountDowns
  RtcTimes <- MCRtcTimes
INVARIANTS TypeOK TimerNeverEarly TimerNeverLate
PROPERTIES RunningOnlyCountsDown StartedTimerExpires
