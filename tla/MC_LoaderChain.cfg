\* Every failure point of the chain, machines with 0, 3, 79 and 80 APs
\* (80 APs need one page more than the heap has left after the e820 page).
CONSTANTS
  W = 16777216
  PAGE_SIZE = 16
  Descs <- PassDescs
  Mbis <- PassMbis
  Cpus <- PassCpus
  LogicalCounts = {0, 4, 80, 81}
  E820Sources = {"multiboot", "efi", "sfi"}
  Sfis <- PassSfis
SPECIFICATION Spec
INVARIANT TypeOK
INVARIANT LoaderRegionsOrdered
INVARIANT StacksOwned
INVARIANT E820PageFits
INVARIANT CpuStateCaptured
PROPERTY HeapRefined
\* Both ends of the chain are halts: startap's entry and the while (1) of
\* the error path.
CHECK_DEADLOCK FALSE
