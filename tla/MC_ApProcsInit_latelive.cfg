\* One post-OS cycle targeting APs 1-4: APs 3 and 4 answer their SIPI only
\* after the BSP's timeout, AP 5 is not targeted.
CONSTANTS
  MaxCpu = 6
  Aps = {1, 2, 3, 4, 5}
  RespondIn <- RespondLate
  LateAps = {3, 4}
  ContinuationReturns = FALSE
  PostOsLaunch = TRUE
  BootAps = {1, 2, 3, 4}
  MaxCycles = 1
  MaxReady = 5
  Pages = {0, 32768}
  Func = Func
  NULL = NULL
SPECIFICATION Spec
PROPERTY RunReturns
CHECK_DEADLOCK FALSE
