\* A recording of a cell of another bandwidth than the receiver was opened with.
CONSTANTS
  Cells = {1, 2}
  NoCell = NoCell
  Rbs = {6, 50}
  InitRbs = 6
  IsFile = TRUE
  SpuriousMib = FALSE
  SssLimit = 2
  PbchSyncLimit = 4
  PbchLimit = 2
  PdschLimit = 3
SPECIFICATION Spec
CHECK_DEADLOCK FALSE
INVARIANT DeviceMatchesMib
