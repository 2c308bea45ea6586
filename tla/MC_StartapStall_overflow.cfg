\* A TSC fast enough that stall_usec * ticks_per_msec passes 2^32 for the
\* long stalls (any real CPU above about 21 MHz).
CONSTANTS
  W = 64
  UsecPerMs = 4
  MsTicks = 9
  Steps = {1}
  TscInit <- AnyTsc
  MaxNow = 512
  Stalls <- StartupStalls
SPECIFICATION Spec
INVARIANT StallNotShort
CHECK_DEADLOCK FALSE
