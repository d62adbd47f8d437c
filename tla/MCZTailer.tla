----------------------------- MODULE MCZTailer -----------------------------
(* One or two sessions for TLC: s1 goes before s2.                         *)
EXTENDS ZTailer

CONSTANTS s1, s2

MCPriority == [s \in Sessions |-> IF s = s1 THEN 1 ELSE 2]

\* the methods that tail; one of each kind, and those that clear
Tails  == {"TailBlocking", "TailSuppliedBlocking", "TailAllBlocking"}
Clears == {"TailOnlyBlocking", "TailAllBlocking", "ClearSession", "Clear"}

-----------------------------------------------------------------------------
\* Two calls, or one and a notice; without Resync, and without a crash: with one run
\* of a session, a crash is the end of what the sink does with it.
MCNext ==
  \/ /\ Sink
     /\ notices' + count <= 2
     /\ \A s \in Sessions : session[s] # None => session'[s] # None
  \/ notices + count < 2 /\ \E op \in Calls : \E n \in Names(op) : Call(op, n)
  \/ Timeout \/ Work \/ Quiet

MCSpec == Init /\ [][MCNext]_vars /\ WF_vars(Work)
=============================================================================
