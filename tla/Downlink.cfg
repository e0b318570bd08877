\* The operations of the decoding library, one call after the other
CONSTANTS
  ControlInputs <- MCControlInputs
  DataInputs <- MCDataInputs
  BroadcastCells = {0, 1, 2, 302}
  ReferenceInputs <- MCReferenceInputs
  PilotInputs <- MCPilotInputs
  PairInputs <- MCPairInputs
  DciInputs <- MCDciInputs
  RivInputs <- MCRivInputs
  BitmapInputs <- MCBitmapInputs
  GrantInputs <- MCGrantInputs
  SizeRows = {0, 9, 15, 26}
  InterleaverSizes = {1, 2, 60, 61, 93, 125, 188}
  Words <- MCWords
  ControlWords <- MCControlWords
  MibWords <- MCMibWords
  Behind <- MCBehind
  SharedWords <- MCSharedWords
  Cfis <- MCCfis
  CellsHeard <- MCCellsHeard
  PssTables <- MCPssTables
  PssInputs <- MCPssInputs
  Seeds <- MCSeeds
SPECIFICATION Spec
INVARIANTS
  ElementsAreExact
  GrantsAreRead
  SignalsAreReadBack
  SharedWordsAreReadBack
  CellIsNamed
