SPECIFICATION FairSpec
CONSTANTS
  Txn = {t1, t2, t3}
  None = None
  Fuel = 1
  Reenter <- ReenterCommit
PROPERTY
  Quiesces
