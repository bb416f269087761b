\* The program may stop at a division by zero.
SPECIFICATION Spec
CONSTANTS
  Width = 4
  TimeSlots = {0, 1, 2, 3, 4, 5}
  SlotNums = {1, 2, 3, 4, 5, 9}
  Intervals = {1, 2, 3, 4, 5, 6, 7, 8, 9, 10, 11, 12, 13, 14, 15}
CHECK_DEADLOCK FALSE
INVARIANT TypeOK
PROPERTY RunsWithinTwoSlots
PROPERTY Runs
