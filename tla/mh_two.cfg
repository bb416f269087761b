SPECIFICATION BusySpec
CONSTANTS
  MaxTimers = 2
  Cell = {a1, a2, a3}
  Null = Null
  Caller = {c1, c2}
  Worker = {w1, w2}
  Intervals = {1, 2}
  LateReads = 1
SYMMETRY Symmetry
VIEW View
CHECK_DEADLOCK FALSE
INVARIANT TypeOK
INVARIANT MemorySafe
INVARIANT HeapSound
INVARIANT LeastFirst
INVARIANT MutexGivenUp
PROPERTY PopsWhatFired
