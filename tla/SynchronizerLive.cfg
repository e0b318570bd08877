\* A recording, whose MIB may be malformed; the limits scaled down, in the same
\* order, so that the liveness properties can be checked.
CONSTANTS
  Cells = {1, 2}
  NoCell = NoCell
  Rbs = {6, 50}
  InitRbs = 6
  IsFile = TRUE
  SpuriousMib = TRUE
  SssLimit = 2
  PbchSyncLimit = 4
  PbchLimit = 2
  PdschLimit = 3
SPECIFICATION FairSpec
CHECK_DEADLOCK FALSE
PROPERTIES
  LossIsNoticed
  StopEndsLoop
