\* Quarantine while another thread reallocates.
CONSTANTS
  ALIGNMENT = 2
  BLOCK_HEADER_SIZE = 2
  FREE_BLOCK_HEADER_SIZE = 2
  CANARY_SIZE = 1
  DAM_SMALL_MAX = 2
  DAM_GENERAL_MAX = 10
  POOL_GENERAL_SIZE = 2
  INITIAL_POOL_SIZE = 14
  MAX_POOLS = 1
  ADDRESS_SPACE = 40
  MmapBases = {2}
  t1 = t1
  t2 = t2
  NoThread = NoThread
  Threads <- TwoThreads
  Sizes = {3, 9}
  OtherSizes = {4}
  Misuse = {"overrun"}
  MaxLive = 2
  MaxOther = 0
SPECIFICATION Spec
PROPERTIES
  QuarantineExcludes
