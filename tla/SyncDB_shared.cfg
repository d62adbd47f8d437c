SPECIFICATION Spec
CONSTANTS
  Goroutines = {g1, g2}
  Handles = {h1}
  HandleOf <- OneHandle
  OpenCloseSync <- Never
  MaxCalls = 7
  MaxFaults = 0
  None = None
  g1 = g1
  g2 = g2
  g3 = g3
  h1 = h1
  h2 = h2
INVARIANT LockHasOwner
CHECK_DEADLOCK FALSE
