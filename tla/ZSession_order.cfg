SPECIFICATION Spec
INVARIANTS
  PrioritiesNeverInterleave
  EndLosesNothing
CONSTANTS
  p1 = p1
  p2 = p2
  p3 = p3
  Printers = {p1,p2,p3}
  Notifier = notifier
  Priority <- MCPriority
  Flushers = {f1}
  Enders = {e1}
  Timers = {}
  Closers = {c1}
  MaxChunks <- OneSilent
  Orderly = TRUE
  None = None
