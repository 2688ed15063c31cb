\* Two variables, one element position, one nested scope, two release edges; functions
\* of five statements over two variables and a parameter.
\* The view leaves out errors, which no statement reads.
SPECIFICATION MCSpec
CONSTANTS
  Names = {x, y}
  Params = {p}
  Inits = {"none", "alloc", "extern"}
  FirstId = 9
  MaxLength = 5
  MaxShared = 3
  MaxNesting = 1
  Paths = {e}
  NoPath = NoPath
  LetKinds <- MCLetKinds
  Typed = TRUE
  MaxObjects = 3
  MaxEdges = 2
  MaxDepth = 1
SYMMETRY Symmetry
VIEW Unreported
CHECK_DEADLOCK FALSE
INVARIANTS
  
  
  FreesOnlyItsOwn
  HandedOutLives
PROPERTIES
  ResourcesKept
