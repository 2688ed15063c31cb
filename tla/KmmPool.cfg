\* Two threads over a primary region and two segments, each with a fragment
\* no block fits in.
SPECIFICATION FairSpec
CONSTANTS
  Threads = {t1, t2}
  PrimaryCap = 5
  HeapSize = 2
  GrowSeg = 2
  Page = 3
  Batch = 3
  MaxSegs = 2
  Single = t1
  None = None
INVARIANTS
  GrantsBacked
  CommittedBeforeUse
PROPERTIES
  ImplementsBlockPool
  RefillReturns
