SPECIFICATION FairSpec
PROPERTIES
  PriorityReleased
  EndReturns
CONSTANTS
  p1 = p1
  p2 = p2
  p3 = p3
  Printers = {p1}
  Notifier = notifier
  Priority <- MCPriority
  Flushers = {f1}
  Enders = {e1}
  Timers = {t1}
  Closers = {}
  MaxChunks <- OneChunk
  Orderly = FALSE
  None = None
