\* Two threads that add, two that poll, two tasks, CAS that fail spuriously.
SPECIFICATION LoopSpec
CONSTANTS
  Adders = {t1, t2}
  Pollers = {t2, t3}
  LoopTasks = {a, b}
  Weak = TRUE
  Stalled = {}
  Dummy = Dummy
  NoNode = NoNode
PROPERTIES
  EmptyMeansTaken
  LoopImplementsFifo
  TasksDispatched
