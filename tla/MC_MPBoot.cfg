\* A single-package machine: CPUID counts four logical processors, so the
\* loader allocates three stacks, and the three APs that answer fit them;
\* or it counts none, and startap gets no init32.  Three bring-up cycles,
\* the continuation does not return.
CONSTANTS
  W = 16777216
  PAGE_SIZE = 16
  Descs <- BootDescs
  Mbis <- BootMbis
  Cpus <- BootCpus
  LogicalCounts = {0, 4}
  E820Sources = {"multiboot"}
  Sfis <- BootSfis
  MaxCpu = 5
  Aps = {1, 2, 3, 4}
  RespondIn <- RespondAllButThree
  LateAps = {}
  ContinuationReturns = FALSE
  PostOsLaunch = FALSE
  BootAps = {}
  MaxCycles = 3
  MaxReady = 4
  Pages = {0, 32768}
  Func = Func
  NULL = NULL
SPECIFICATION BootSpec
INVARIANT BootTypeOK
INVARIANT EnumerationExact
INVARIANT StacksExclusive
INVARIANT RunWaitsForAll
INVARIANT StacksAllocated
PROPERTY RunReturns
PROPERTY BarrierRefined
\* The loader's error path and the continuation both end in a spin.
CHECK_DEADLOCK FALSE
