\* A TSC slow enough that stall_usec * ticks_per_msec stays below 2^32,
\* read at every tick, from every initial value of its low 32 bits.
CONSTANTS
  W = 64
  UsecPerMs = 4
  MsTicks = 3
  Steps = {1}
  TscInit <- AnyTsc
  MaxNow = 512
  Stalls <- StartupStalls
SPECIFICATION Spec
INVARIANTS TypeOK StallNotShort
PROPERTY StallsReturn
CHECK_DEADLOCK FALSE
