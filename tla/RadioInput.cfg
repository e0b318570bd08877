\* A ring of a few packets; subframes and packets of different lengths.
CONSTANTS
  Size = 8
  Blank = Blank
  Spp = 3
  FrameSize = 4
  FrameMod = 2
  StartOffset = 0
  Shifts <- MCShifts
  Losses = {0, 9}
  StartTimes = {7, 8}
  MaxTime = 27
SPECIFICATION Spec
CHECK_DEADLOCK FALSE
INVARIANTS
  PulledInTime
  WithinOneSample
PROPERTY Contiguous
