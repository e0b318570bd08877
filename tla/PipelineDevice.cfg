\* From a device: two buffers, two decoders, two cells, two subframe numbers;
\* a window that is averaged after every push, and a subframe of lag.
CONSTANTS
  Buffers = {b1, b2}
  Decoders = {d1, d2}
  Sync = sync
  CellIds = {1, 2}
  Mibs = {m}
  NumSubframes = 2
  Window = 1
  Lag = 1
  IsFile = FALSE
  NoBuffer = NoBuffer
  NoConfig = NoConfig
SPECIFICATION Spec
SYMMETRY Symmetry
INVARIANTS
  OneOwner
  NoneLost
  NobodySleepsOnWork
  DecodesAsStamped
  CrcCountedOnce
PROPERTIES
  DropsOnlyWhenAllInFlight
  ImplementsDispatch
