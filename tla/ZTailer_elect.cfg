SPECIFICATION MCSpec
CONSTANTS
  Sessions = {s1, s2}
  Priority <- MCPriority
  Calls <- Tails
  Reopen = FALSE
  MaxResyncs = 0
  MaxNotices = 1
  MaxRuns = 1
  MaxChunks = 1
  MaxCalls = 2
  None = None
  s1 = s1
  s2 = s2
INVARIANT SessionsNeverInterleave
PROPERTY EverythingTailed
PROPERTY CallsReturn
