\* One thread, late calls with old pointers, overrun canaries and quarantine; two pools of this
\* layer and one of another, mmap and MAX_POOLS refusing.
CONSTANTS
  ALIGNMENT = 2
  BLOCK_HEADER_SIZE = 2
  FREE_BLOCK_HEADER_SIZE = 2
  CANARY_SIZE = 1
  DAM_SMALL_MAX = 2
  DAM_GENERAL_MAX = 30
  POOL_GENERAL_SIZE = 2
  INITIAL_POOL_SIZE = 8
  MAX_POOLS = 2
  ADDRESS_SPACE = 116
  MmapBases = {2, 40}
  t1 = t1
  t2 = t2
  NoThread = NoThread
  Threads <- OneThread
  Sizes = {3, 30}
  OtherSizes = {4}
  Misuse = {"free", "realloc", "overrun"}
  MaxLive = 3
  MaxOther = 1
SPECIFICATION Spec
INVARIANTS
  TypeOK
  BlocksTile
  FreeListsExact
  FreshPoolServes
  EveryBlockOwned
PROPERTIES
  QuarantineExcludes
CHECK_DEADLOCK FALSE
