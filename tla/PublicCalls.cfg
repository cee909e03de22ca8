\* Two allocations of all layers, two unique_ptr<T[]> and one unique_ptr<T>.
CONSTANTS
  ALIGNMENT = 2
  BLOCK_HEADER_SIZE = 2
  FREE_BLOCK_HEADER_SIZE = 2
  CANARY_SIZE = 1
  DAM_SMALL_MAX = 4
  DAM_GENERAL_MAX = 10
  ClassSizes = {2, 4}
  POOL_HEADER_SIZE = 2
  PAGE_SIZE = 8
  TRACE_SIZE = 2
  DAM_DIRECT_SHRINK_PERCENTAGE = 80
  SIZE_MAX = 4095
  MEMORY = 40
  Slacks = {0, 2}
  p1 = p1
  p2 = p2
  a1 = a1
  a2 = a2
  s1 = s1
  Pointers <- TwoPointers
  NULL = NULL
  Sizes = {0, 3, 6, 12, 15, 30, 4088}
  TracedSizes = {14, 18}
  Products <- TwoProducts
  UafCalls <- Plain
  Objects = {a1, a2, s1}
  Arrays = {a1, a2}
  SIZEOF_T = 3
  Lengths = {0, 1, 2}
  ResizeLengths = {1, 4}
SPECIFICATION PtrSpec
SYMMETRY Symmetric
INVARIANTS
  AllocFit
  NoHarm
  OwnedOnce
PROPERTIES
  KeepsContents
CHECK_DEADLOCK FALSE
