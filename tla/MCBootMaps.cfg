SPECIFICATION Spec
CONSTANTS
  PAGE_SIZE = 2
  PAGE_TAB_ENTRIES = 2
  DIRS = 5
  WithTable = {0, 1, 2}
  TextPages = {3}
  DataPages = {0}
  Cores = {0, 1}
  BSP = 0
  ModuleLists <- MCModuleLists
  DevicePages = {0, 4, 6}
  HasApic = {TRUE, FALSE}
INVARIANTS NothingStale KernelStaysMapped NoFaultWithTables
CHECK_DEADLOCK FALSE
