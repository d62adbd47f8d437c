----------------------------- MODULE MCZSession -----------------------------
(* Small sessions for TLC: one to three printers, one or two priorities.  *)
EXTENDS ZSession

CONSTANTS p1, p2, p3

\* p1 and p2 of priority 1, p3 of priority 2
MCPriority == [p \in Printers |-> IF p = p3 THEN 2 ELSE 1]

\* one chunk each; p2 silent; two chunks each and a notification
OneChunk  == [p \in AllPrinters |-> IF p = Notifier THEN 0 ELSE 1]
OneSilent == [p \in AllPrinters |-> IF p \in {p1, p3} THEN 1 ELSE 0]
Notified  == [p \in AllPrinters |-> IF p = Notifier THEN 1 ELSE 2]
=============================================================================
