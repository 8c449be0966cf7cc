SPECIFICATION Spec
CONSTANTS
  LoopLevel = 4
  Sessions <- Sessions_
  GNUHash <- Hash
CHECK_DEADLOCK FALSE
INVARIANTS
  NothingStale
  AnswersRight
