SPECIFICATION Spec
INVARIANTS
  TypeOK
  ExactlyOnce
  ClosedAfterConsolidation
CONSTANTS
  p1 = p1
  p2 = p2
  p3 = p3
  Printers = {p1}
  Notifier = notifier
  Priority <- MCPriority
  Flushers = {f1}
  Enders = {e1}
  Timers = {}
  Closers = {c1}
  MaxChunks <- Notified
  Orderly = FALSE
  None = None
