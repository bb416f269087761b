SPECIFICATION FairServing
CONSTANTS
  TimerMax = 2
  ByteBits = 4
  ZeroedBytes = 4
  SlotNums = {3}
  Intervals = {1, 2, 3, 4}
  Addr = {a1}
  Null = Null
  Poison = Poison
  LateReads = 3
  CntBound = 2
CHECK_DEADLOCK FALSE
PROPERTY OnTimeAlone
PROPERTY Served
