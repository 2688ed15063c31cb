\* Stack scopes and offset scopes in any nesting of three, with overflow and
\* underflow of the scope stack, and resets.  An abort() ends the process, and so
\* does an object without memory.  Two threads over a bucket of two slots in one
\* word and an area for one large object.
SPECIFICATION MCSpec
CONSTANTS
  Blocks = {b1, b2}
  NULL = NULL
  HeapSize = 3
  Sizes = {1, 2}
  MaxDepth = 2
  WordSize = 16
  MaxNesting = 3
  Threads = {t1, t2}
  Slots = 2
  WordBits = 2
  LargeCapacity = 2
  LargeSize = 2
  Batch = 1
  MaxCheckpoints = 1
SYMMETRY Symmetry
CHECK_DEADLOCK FALSE
INVARIANTS
  MemorySafe
  SurvivorsApart
