\* A spend statement of up to three clauses over up to two elements or variants, or
\* an expression of up to three operators; a translation ends.
SPECIFICATION MCSpec
CONSTANTS
  MaxElements = 2
  MaxClauses = 3
  Variants = 2
  Operators = {"=", "==", "<<", "&", "+", "-", "*"}
  Prefixes = {"-", "&", "!", "*"}
  MaxOperators = 3
  MaxParens = 1
  MaxTyped = 2
INVARIANTS
  OnlyOverlookedPanics
  ConsumesAll
  MeaningKept
  TypesAgree
CHECK_DEADLOCK FALSE
