\* Pages beyond the region handed out.
CONSTANTS
  BUCKET_SIZE = 4
  TOTAL_BUCKET_COUNT = 3
  IntBits = 2
  PAGE_SIZE = 1
  MemoryMaps <- PartialMaps
  KernelSpans <- NoKernel
  Counts = {1, 2, 3, 4}
  NULL = NULL
SPECIFICATION Spec
INVARIANTS
  GrantsInsideRegion
CHECK_DEADLOCK FALSE
