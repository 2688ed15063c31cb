\* Three tasks through a ring of two slots (one usable) that grows to four,
\* wrapped or not; the clients and workers stop when the tasks are used up.
SPECIFICATION PoolSpec
CONSTANTS
  Workers = {w1, w2}
  Clients = {c1, c2}
  Tasks = {j1, j2, j3}
  InitCapacity = 2
  NoTask = NoTask
  Nobody = Nobody
CHECK_DEADLOCK FALSE
PROPERTIES
  PoolImplementsFifo
  WaitMeansTaken
  TasksRun
  DestroyReturns
