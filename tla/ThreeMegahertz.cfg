\* The shared channel of a band of 3 MHz alone; the block that takes half the centre
\* is not read in full.
CONSTANTS
  ControlInputs = {}
  DataInputs <- MCThreeMegahertz
  BroadcastCells = {}
  ReferenceInputs = {}
  PilotInputs = {}
  PairInputs = {}
  DciInputs = {}
  RivInputs = {}
  BitmapInputs = {}
  GrantInputs = {}
  SizeRows = {}
  InterleaverSizes = {}
  Words = {}
  ControlWords = {}
  MibWords = {}
  Behind = {}
  SharedWords = {}
  Cfis = {}
  CellsHeard = {}
  PssTables <- MCPssTables
  PssInputs = {}
  Seeds = {}
SPECIFICATION Spec
INVARIANT SharedChannelIsWhole
