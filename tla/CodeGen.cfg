\* Three nested constructs: two functions and a body, a function and a block of
\* a match arm, a branch outside every function with a function in it.
SPECIFICATION Spec
CONSTANTS
  MaxDepth = 3
  MaxPending = 1
  MaxInstances = 1
INVARIANTS
  ScopesBalanced
  
  ValuesReturned
