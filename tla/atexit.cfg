SPECIFICATION Spec
CONSTANTS
  Txn = {t1, t2, t3}
  Handler = {h1, h2, h3, h4}
  None = None
SYMMETRY AtExitSymmetry
INVARIANTS
  OrderSync
  HandlersKept
PROPERTY
  NewestFirst
