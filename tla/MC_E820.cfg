\* Contiguous maps: the hide transform against its reference.
CONSTANTS
  W64 = 32
  W32 = 16
  InputMaps <- ContiguousMaps
  HideAddrs = {0, 1, 2, 3, 4, 5, 6, 7, 8, 9}
  HideSizes = {1, 2, 3}
SPECIFICATION Spec
INVARIANT TypeOK
INVARIANT HideWithinArray
INVARIANT HidePreservesMap
INVARIANT HideSucceedsWhenContained
CHECK_DEADLOCK FALSE
