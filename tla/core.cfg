SPECIFICATION Spec
CONSTANTS
  Txn = {t1, t2, t3, t4, t5}
  None = None
  Fuel = 1
  Reenter <- ReenterCommit
SYMMETRY TxnSymmetry
INVARIANTS
  TypeOK
  TreeOK
  DequeOK
  ScopesOK
  RollbackOK
PROPERTY
  LogRefined
