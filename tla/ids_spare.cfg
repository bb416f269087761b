\* Two bytes of 4 bits, the last bit spare.
SPECIFICATION Spec
CONSTANTS
  TimerMax = 7
  ByteBits = 4
  ZeroedBytes = 4
INVARIANTS
  TypeOK
  FreshId
  LeastFree
  CountCoversHeld
  RoomMeansId
CHECK_DEADLOCK FALSE
