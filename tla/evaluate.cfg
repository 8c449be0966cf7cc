SPECIFICATION Spec
CONSTANTS
  v1 = v1
  v2 = v2
  Handle = {v1, v2}
  Session <- MCSession
  Inputs <- MCInputs
  WrapPointOf <- WrapPoint
  Calls <- MCCalls
  MaxInputs <- MCMaxInputs
SYMMETRY Symmetry
CHECK_DEADLOCK FALSE
INVARIANTS
  Wraps
  
  PrintsIffAsked
  OwnsItsObjects
PROPERTY
  ValuesSpec
