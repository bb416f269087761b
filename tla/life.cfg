SPECIFICATION FairSpec
CONSTANTS
  Nobody = Nobody
  Caller = {c1, c2}
  Worker = {w1, w2}
  LockBound = 1
CHECK_DEADLOCK FALSE
INVARIANT TypeOK
INVARIANT Intact
INVARIANT PidAlive
INVARIANT WorkerKnown
PROPERTY ReturnsUndamaged
