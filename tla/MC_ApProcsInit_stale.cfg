\* Two cycles; AP 3 answers in the first and not in the second.
CONSTANTS
  MaxCpu = 5
  Aps = {1, 2, 3, 4}
  RespondIn <- RespondThenStop
  LateAps = {}
  ContinuationReturns = FALSE
  PostOsLaunch = FALSE
  BootAps = {}
  MaxCycles = 2
  MaxReady = 4
  Pages = {0, 32768}
  Func = Func
  NULL = NULL
SPECIFICATION Spec
PROPERTY RunReturns
CHECK_DEADLOCK FALSE
