SPECIFICATION Spec
CONSTANTS
  Proc = {p1, p2}
  MaxDepth = 3
  PruneLength = 1
  MaxLines = 4
SYMMETRY ProcSymmetry
CHECK_DEADLOCK FALSE
INVARIANTS
  HistoryKept
