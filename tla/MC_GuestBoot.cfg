\* The boot of the primary guest on maps where the hide succeeds.
CONSTANTS
  W = 128
  MapW = 256
  PAGE_SIZE = 4
  SECTOR_SIZE = 1
  HDR_SIZE = 1
  BOOT_PARAMS_SIZE = 4
  ENTRY_SIZE = 1
  DEFAULT_SECTOR_NUM = 4
  MAX_SECTOR_NUM = 8
  E820MAX = 8
  HideBase = 96
  HideSize = 16
  Maps <- PassMaps
  Headers <- AllHeaders
  Kernels <- PassKernels
  Initrds <- PassInitrds
  CmdLens = {3, 9}
  ModsCounts = {1, 2}
  HeapBaseV = 8
  HeapBytesV = 16
  HeapCurrents = {8, 12}
SPECIFICATION Spec
INVARIANTS TypeOK MonitorHiddenAtJump InitrdInFreeRam  BlocksInHeap RamRefusedOnlyWhenNone InitrdPlacedHighest
CHECK_DEADLOCK FALSE
