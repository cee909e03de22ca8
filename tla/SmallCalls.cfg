\* Every call, the mistaken ones included.
CONSTANTS
  ALIGNMENT = 2
  BLOCK_HEADER_SIZE = 2
  FREE_BLOCK_HEADER_SIZE = 2
  CANARY_SIZE = 1
  DAM_SMALL_MAX = 4
  DAM_GENERAL_MAX = 10
  DAM_SMALL_MIN = 2
  DAM_SIZE_CLASS_COUNT = 2
  SIZE_CLASS_HEADER_SIZE = 2
  POOL_HEADER_SIZE = 2
  SIZE_CLASS_BLOCKS_PER_POOL = 1
  THREAD_CACHE_MAX_BLOCKS_PER_CLASS = 1
  TRACE_SIZE = 1
  SIZE_MAX = 3
  ADDRESS_SPACE = 40
  MmapBases = {2, 20}
  CacheMmapMayFail = TRUE
  t1 = t1
  t2 = t2
  Threads <- TwoThreads
  Sizes = {2, 3, 5}
  Calls = {"trace", "snapshot", "exit", "free", "realloc"}
  MaxLive = 2
SPECIFICATION Spec
SYMMETRY Symmetric
INVARIANTS
  TypeOK
  RequestsFit
CHECK_DEADLOCK FALSE
