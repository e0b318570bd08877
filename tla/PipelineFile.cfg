\* Playing a file: the synchronizer blocks instead of dropping.  One cell and one
\* subframe number, so that the liveness properties can be checked; the averager's
\* window is longer than the buffers in flight, as 200 is longer than 128.
CONSTANTS
  Buffers = {b1, b2}
  Decoders = {d1, d2}
  Sync = sync
  CellIds = {1}
  Mibs = {m}
  NumSubframes = 1
  Window = 4
  Lag = 0
  IsFile = TRUE
  NoBuffer = NoBuffer
  NoConfig = NoConfig
SPECIFICATION FairSpec
INVARIANT StaleBounded
PROPERTIES
  DispatchProgresses
  EveryBufferReturns
  SyncReturnsToRadio
