\* The choice of the region, its bitmap and the runs of pages handed out of it.
CONSTANTS
  BUCKET_SIZE = 4
  TOTAL_BUCKET_COUNT = 3
  IntBits = 2
  PAGE_SIZE = 2
  MemoryMaps <- AllMaps
  KernelSpans <- BootSpans
  Counts = {1, 2, 3}
  NULL = NULL
SPECIFICATION Spec
INVARIANTS
  TypeOK
  RegionIsUsable
  LargestRegionChosen
  PresentPagesStartFree
  GrantsInsideShortRegion
  NullMeansNoRun
PROPERTIES
  LaterRunsBeginInUse
CHECK_DEADLOCK FALSE
