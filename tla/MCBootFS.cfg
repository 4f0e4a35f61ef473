SPECIFICATION BootSpec
CONSTANTS
  Names = {"initrd"}
  HEAP_NODES = 90
  MAX_PATH = 1
  Machines <- MCMachines
  PCI_DEV_PER_BUS = 2
  PCI_FUNC_PER_DEV = 3
  UCHAR = 16
INVARIANTS LoadedAsPacked ScannedAsWired ScanIsBounded
PROPERTY BootFsEnds
