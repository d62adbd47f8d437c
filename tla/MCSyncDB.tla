------------------------------ MODULE MCSyncDB ------------------------------
(* Two processes for TLC, with a handle each: one that opens and closes    *)
(* around every call, one that does not.  Or goroutines that share one.    *)
EXTENDS SyncDB, TLC

CONSTANTS g1, g2, g3, h1, h2

OwnHandle == g1 :> h1 @@ g2 :> h2
OneHandle == [g \in Goroutines |-> h1]
Closing   == [h \in Handles |-> h = h1]
Never     == [h \in Handles |-> FALSE]
=============================================================================
