SPECIFICATION FairSpec
CONSTANTS
  Sessions = {s1}
  Priority <- MCPriority
  Calls <- Clears
  Reopen = TRUE
  MaxResyncs = 1
  MaxNotices = 0
  MaxRuns = 2
  MaxChunks = 2
  MaxCalls = 2
  None = None
  s1 = s1
  s2 = s2
INVARIANT TypeOK
INVARIANT TailedInOrder
PROPERTY CallsReturn
