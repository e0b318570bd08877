\* A decoder thread with a table of two DCIs.  The process may end, so deadlock
\* is not checked.
CONSTANTS
  Cells <- MCCells
  SubframeNumbers = {1}
  Rntis <- MCRntis
  SiRnti = 65535
  DciMax = 2
  Masks <- MCMasks
  Payloads <- MCPayloads
  NoGrant = NoGrant
  NoCell = NoCell
  NoDci = NoDci
SPECIFICATION FairSpec
CHECK_DEADLOCK FALSE
INVARIANTS
  NoCceTwice
  OnlyFreshDcis
  BlockMatchesGrant
  ExitsBeforeSearch
PROPERTIES
  ReferencesMatch
  SubframeComesBack
