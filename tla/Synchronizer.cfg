\* A device, with the code's own limits; two cells and two bandwidths.
CONSTANTS
  Cells = {1, 2}
  NoCell = NoCell
  Rbs = {6, 50}
  InitRbs = 6
  IsFile = FALSE
  SpuriousMib = FALSE
  SssLimit = 4
  PbchSyncLimit = 20
  PbchLimit = 10
  PdschLimit = 100
SPECIFICATION Spec
CHECK_DEADLOCK FALSE
INVARIANTS
  TypeOK
  MissesFitState
  PbchIsTransient
  LabelsAreTrue
  OneCell
  DeviceMatchesMib
PROPERTY ResetNotLost
