SPECIFICATION FairSpec
CONSTANTS
  Goroutines = {g1, g2}
  Handles = {h1, h2}
  HandleOf <- OwnHandle
  OpenCloseSync <- Closing
  MaxCalls = 7
  MaxFaults = 1
  None = None
  g1 = g1
  g2 = g2
  g3 = g3
  h1 = h1
  h2 = h2
CHECK_DEADLOCK FALSE
INVARIANT LockHasOwner
INVARIANT NoLostUpdate
PROPERTY ImplementsMutex
PROPERTY CallsReturn
