SPECIFICATION Spec
CONSTANTS
  File = {f1, f2}
  BadFile = BadFile
  MaxFD = 7
  MaxStack = 3
SYMMETRY FileSymmetry
INVARIANTS
  DescriptorsKept
  StreamsGo
PROPERTY
  TwoStacks
