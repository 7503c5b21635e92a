\* What kfree takes for a free buddy once the heap has several regions.
CONSTANTS
  MEM_BLOCKS_MAX_LEVEL_COUNT = 5
  PageLevel = 2
  BlockSize <- MCBlockSize
  MetaSize = 2
  Requests <- GrowRequests
  PageRuns <- SomePages
  NULL = NULL
  WordBits = 8
  IntBits = 4
  SmearShifts <- FourBitShifts
  MEM_BLOCKS_BASE_LEVEL = 0
SPECIFICATION Spec
INVARIANT
  MergesListedBuddy
CHECK_DEADLOCK FALSE
