\* Three threads over two slots: blocked, woken, timed-out and barging threads
\* of both kinds, and a close; two promises, a map and a group, and a caller.
SPECIFICATION MCSpec
CONSTANTS
  Threads = {t1, t2, t3}
  Messages = {m1, m2}
  Capacity = 2
  Null = Null
INVARIANTS
  NobodyStranded
PROPERTIES
  ImplementsFifo
  CloseReleases
  FuturesComplete
CHECK_DEADLOCK FALSE
