\* One cycle; the continuation returns: what still holds.
CONSTANTS
  MaxCpu = 5
  Aps = {1, 2, 3, 4}
  RespondIn <- RespondOneCycle
  LateAps = {}
  ContinuationReturns = TRUE
  PostOsLaunch = FALSE
  BootAps = {}
  MaxCycles = 1
  MaxReady = 6
  Pages = {0, 32768}
  Func = Func
  NULL = NULL
SPECIFICATION Spec
INVARIANT TypeOK
INVARIANT StacksExclusive
CHECK_DEADLOCK FALSE
