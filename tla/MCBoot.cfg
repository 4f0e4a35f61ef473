SPECIFICATION Spec
CONSTANTS
  NULL = NULL
  Irqs = {0, 1, 2, 8}
  Stray <- MCStray
  MAX_SUPP_PROC_NUM = 2
  HW_INT_START = 32
  GSIs = {0, 1, 2, 3, 8}
  Firmwares <- MCFirmwares
  Drivers = {1}
  WAIT = 1
INVARIANTS NeverCallsNull NothingLeftInService EntersAsInstalled TriggersAsToldUnlessExplicit ConfIsTheMachine
PROPERTIES BootsAndKeepsTime
CHECK_DEADLOCK FALSE
