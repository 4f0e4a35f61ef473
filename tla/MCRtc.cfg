SPECIFICATION Spec
CONSTANTS
  Starts <- MCStarts
  UPDATES = 8
  UINT32 = 1073741824
INVARIANT ShowsTheClock
PROPERTY DateIsShown
CHECK_DEADLOCK FALSE
