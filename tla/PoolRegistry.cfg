\* All layers in turn, or one layer at any time.
CONSTANTS
  t1 = t1
  t2 = t2
  p1 = p1
  p2 = p2
  p3 = p3
  Threads <- TwoThreads
  NoThread = NoThread
  Pools <- ThreePools
  NULL = NULL
  MAX_POOLS = 2
  Programs <- Disciplined
SPECIFICATION FairSpec
INVARIANTS
  AllPoolsListed
  LookupsSafe
PROPERTIES
  LocksReleased
