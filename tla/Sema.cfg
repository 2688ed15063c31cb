SPECIFICATION Spec
CONSTANTS
  Names = {x}
  MaxDepth = 3
  MaxDecls = 2
INVARIANTS
  ResolvesLexically
  DereferenceWasChecked
  WarnedIsUnread
CHECK_DEADLOCK FALSE
