SPECIFICATION FairSpec
CONSTANTS
  Nobody = Nobody
  Caller = {c1}
  Worker = {w1}
  LockBound = 1
CHECK_DEADLOCK FALSE
PROPERTY Returns
