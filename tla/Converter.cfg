\* A few ticks are enough for the search, the MIB, deliveries and drops.
CONSTANTS
  Len = 6
  Taps = 4
  Shifts <- MCShifts
  Blank = Blank
  MaxTime = 42
SPECIFICATION Spec
CHECK_DEADLOCK FALSE
INVARIANTS
  BodyKeepsTiming
  HeadIsLastTick
