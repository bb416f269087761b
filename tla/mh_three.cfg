SPECIFICATION BusySpec
CONSTANTS
  MaxTimers = 3
  Cell = {a1, a2, a3}
  Null = Null
  Caller = {c1}
  Worker = {w1}
  Intervals = {1}
  LateReads = 5
SYMMETRY Symmetry
VIEW View
CHECK_DEADLOCK FALSE
INVARIANT MemorySafe
