\* No spare bit, so that id 0 is given out; the bit of id 2 starts as garbage.
SPECIFICATION ProperSpec
CONSTANTS
  TimerMax = 2
  ByteBits = 1
  ZeroedBytes = 1
  SlotNums = {2}
  Intervals = {1, 2}
  Addr = {a1, a2}
  Null = Null
  Poison = Poison
  LateReads = 1
  CntBound = 2
CHECK_DEADLOCK FALSE
PROPERTY RefinesIds
PROPERTY OneWorker
PROPERTY FiresOnce
