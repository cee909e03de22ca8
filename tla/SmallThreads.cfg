\* Two threads, two pools, mmap refusing pools and caches; the abstract heap.
CONSTANTS
  ALIGNMENT = 2
  BLOCK_HEADER_SIZE = 2
  FREE_BLOCK_HEADER_SIZE = 2
  CANARY_SIZE = 1
  DAM_SMALL_MAX = 4
  DAM_GENERAL_MAX = 10
  DAM_SMALL_MIN = 2
  DAM_SIZE_CLASS_COUNT = 2
  SIZE_CLASS_HEADER_SIZE = 2
  POOL_HEADER_SIZE = 2
  SIZE_CLASS_BLOCKS_PER_POOL = 3
  THREAD_CACHE_MAX_BLOCKS_PER_CLASS = 2
  TRACE_SIZE = 2
  SIZE_MAX = 3
  ADDRESS_SPACE = 42
  MmapBases = {2, 22}
  CacheMmapMayFail = TRUE
  t1 = t1
  t2 = t2
  Threads <- TwoThreads
  Sizes = {1, 3, 5}
  Calls = {}
  MaxLive = 2
SPECIFICATION Spec
SYMMETRY Symmetric
INVARIANTS
  ListsSound
  NothingLost
  BinsCounted
  RequestsFit
  BlocksApart
PROPERTIES
  ImplementsAbstractHeap
  
CHECK_DEADLOCK FALSE
