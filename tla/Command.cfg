SPECIFICATION FairSpec
CONSTANTS
  Nodes = {a, b, c, s, p}
  Programs <- All
  Code <- Differ
  MaxRuns = 2
  MaxAmends = 1
  None = None
  Own = Own
  a = a
  b = b
  c = c
  s = s
  p = p
CHECK_DEADLOCK FALSE
INVARIANT ZeroMeansSuccess
INVARIANT PipeCarriesAll
INVARIANT StreamsRestored
INVARIANT ErrorsHaveCause
INVARIANT NothingLeftRunning
PROPERTY RunReturns
