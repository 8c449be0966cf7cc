SPECIFICATION Spec
CONSTANTS
  File = {f1, f2}
  Lib = {f2}
  Address = {a1, a2, a3, a4, a5}
  None = None
  MaxLen = 4
SYMMETRY AddressSymmetry
INVARIANTS
  PointsStay
  RevertsOnlyLater
  IteratorValid
  LoopEnds
