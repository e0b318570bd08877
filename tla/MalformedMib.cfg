\* A device, and a MIB that passes its CRC but names a bandwidth that is reserved.
CONSTANTS
  Cells = {1, 2}
  NoCell = NoCell
  Rbs = {6, 50}
  InitRbs = 6
  IsFile = FALSE
  SpuriousMib = TRUE
  SssLimit = 2
  PbchSyncLimit = 4
  PbchLimit = 2
  PdschLimit = 3
SPECIFICATION Spec
CHECK_DEADLOCK FALSE
INVARIANT BandwidthIsValid
