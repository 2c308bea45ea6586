\* Any failure of the chain reaches the scrub of starter_main.
CONSTANTS
  W = 16777216
  PAGE_SIZE = 16
  Descs <- PassDescs
  Mbis <- PassMbis
  Cpus <- PassCpus
  LogicalCounts = {4}
  E820Sources = {"multiboot"}
  Sfis <- PassSfis
SPECIFICATION Spec
INVARIANT ScrubWithinLoader
CHECK_DEADLOCK FALSE
