SPECIFICATION Spec
CONSTANT
  Sessions <- Sessions_
CHECK_DEADLOCK FALSE
INVARIANTS
  Restores
  RunsInOrder
  AstOK
