\* A thread ends while its cache holds blocks.
CONSTANTS
  ALIGNMENT = 2
  BLOCK_HEADER_SIZE = 2
  FREE_BLOCK_HEADER_SIZE = 2
  CANARY_SIZE = 1
  DAM_SMALL_MAX = 4
  DAM_GENERAL_MAX = 10
  DAM_SMALL_MIN = 2
  DAM_SIZE_CLASS_COUNT = 2
  SIZE_CLASS_HEADER_SIZE = 2
  POOL_HEADER_SIZE = 2
  SIZE_CLASS_BLOCKS_PER_POOL = 2
  THREAD_CACHE_MAX_BLOCKS_PER_CLASS = 2
  TRACE_SIZE = 2
  SIZE_MAX = 3
  ADDRESS_SPACE = 40
  MmapBases = {2}
  CacheMmapMayFail = FALSE
  t1 = t1
  t2 = t2
  Threads <- TwoThreads
  Sizes = {1}
  Calls = {"exit"}
  MaxLive = 2
SPECIFICATION Spec
INVARIANTS
  NothingLost
CHECK_DEADLOCK FALSE
