\* A page handed out a second time.
CONSTANTS
  BUCKET_SIZE = 4
  TOTAL_BUCKET_COUNT = 3
  IntBits = 2
  PAGE_SIZE = 1
  MemoryMaps <- ExactMaps
  KernelSpans <- NoKernel
  Counts = {1, 2}
  NULL = NULL
SPECIFICATION Spec
INVARIANTS
  NoPageGrantedTwice
CHECK_DEADLOCK FALSE
