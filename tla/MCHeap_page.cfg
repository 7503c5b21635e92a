\* The heap within its first page, which holds eight smallest blocks.
CONSTANTS
  MEM_BLOCKS_MAX_LEVEL_COUNT = 6
  PageLevel = 5
  BlockSize <- MCBlockSize
  MetaSize = 2
  Requests <- PageRequests
  PageRuns <- OnePage
  NULL = NULL
  WordBits = 8
  IntBits = 4
  SmearShifts <- FourBitShifts
  MEM_BLOCKS_BASE_LEVEL = 0
SPECIFICATION Spec
INVARIANTS
  FullyCoalesced
  MergesListedBuddyBeforeGrowth
CHECK_DEADLOCK FALSE
