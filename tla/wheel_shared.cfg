SPECIFICATION ProperSpec
CONSTANTS
  TimerMax = 3
  ByteBits = 4
  ZeroedBytes = 4
  SlotNums = {2}
  Intervals = {1, 2}
  Addr = {a1, a2}
  Null = Null
  Poison = Poison
  LateReads = 1
  CntBound = 2
SYMMETRY Symmetry
CHECK_DEADLOCK FALSE
INVARIANT MemorySafe
