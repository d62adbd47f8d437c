----------------------------- MODULE RecordStore ----------------------------
(* What a store of records promises to its callers: a Driver of scribble,  *)
(* whose records are Atomic, and the persistent cache of cachz, whose      *)
(* entries are not.  A call has one effect between its start and its end.  *)
(* A write of an atomic record happens whole or not at all, whatever fails *)
(* or crashes.  Any other one begins and ends, nobody reads in between,    *)
(* and if it is cut short the entry is torn until the next write.  A       *)
(* delete that is cut short has deleted some of its keys.                  *)
EXTENDS Naturals

CONSTANTS Clients, Keys, Atomic, Values, None, Torn

VARIABLES
  record,
  call, outcome,   \* per client: what it has called, and how that ends
  result           \* what a read has found

vars == <<record, call, outcome, result>>

NoCall == [op |-> "none", keys |-> {}, value |-> None]

Init ==
  /\ record = [k \in Keys |-> None]
  /\ call = [c \in Clients |-> NoCall]
  /\ outcome = [c \in Clients |-> "none"]
  /\ result = [c \in Clients |-> None]

Op(c)     == call[c].op
Undone(c) == outcome[c] = "pending"

Requests ==
  [op : {"write"}, keys : {{k} : k \in Keys}, value : Values]
    \cup [op : {"read"}, keys : {{k} : k \in Keys}, value : {None}]
    \cup [op : {"delete"}, keys : SUBSET Atomic, value : {None}]

Invoke(c) ==
  /\ Op(c) = "none"
  /\ outcome' = [outcome EXCEPT ![c] = "pending"]
  /\ \E r \in Requests : call' = [call EXCEPT ![c] = r]
  /\ UNCHANGED <<record, result>>

\* nobody else is in the middle of a write of k
Free(c, k) == \A d \in Clients \ {c} : k \in call[d].keys => outcome[d] # "begun"

Begin(c) ==
  /\ Op(c) = "write" /\ Undone(c)
  /\ \E k \in call[c].keys \ Atomic :
       Free(c, k) /\ record' = [record EXCEPT ![k] = Torn]
  /\ outcome' = [outcome EXCEPT ![c] = "begun"]
  /\ UNCHANGED <<call, result>>

Put(c) ==
  /\ Op(c) = "write"
  /\ \E k \in call[c].keys :
       /\ Free(c, k)
       /\ IF k \in Atomic THEN Undone(c) ELSE outcome[c] = "begun"
       /\ record' = [record EXCEPT ![k] = call[c].value]
  /\ outcome' = [outcome EXCEPT ![c] = "ok"]
  /\ UNCHANGED <<call, result>>

Get(c) ==
  /\ Op(c) = "read" /\ Undone(c)
  /\ \E k \in call[c].keys : Free(c, k) /\ result' = [result EXCEPT ![c] = record[k]]
  /\ outcome' = [outcome EXCEPT ![c] = "ok"]
  /\ UNCHANGED <<record, call>>

\* one key of those to delete
Remove(c, k) ==
  /\ Op(c) = "delete" /\ Undone(c)
  /\ k \in call[c].keys /\ record[k] # None
  /\ record' = [record EXCEPT ![k] = None]
  /\ UNCHANGED <<call, outcome, result>>

\* a delete succeeds when none of its keys is left
Removed(c) ==
  /\ Op(c) = "delete" /\ Undone(c)
  /\ \A k \in call[c].keys : record[k] = None
  /\ outcome' = [outcome EXCEPT ![c] = "ok"]
  /\ UNCHANGED <<record, call, result>>

\* the caller is told, and finds what was done so far
Fail(c) ==
  /\ outcome[c] \in {"pending", "begun"}
  /\ outcome' = [outcome EXCEPT ![c] = "error"]
  /\ UNCHANGED <<record, call, result>>

Return(c) ==
  /\ outcome[c] \in {"ok", "error"}
  /\ call' = [call EXCEPT ![c] = NoCall]
  /\ outcome' = [outcome EXCEPT ![c] = "none"]
  /\ result' = [result EXCEPT ![c] = None]
  /\ UNCHANGED record

\* every call ends where it is
Crash ==
  /\ call' = [c \in Clients |-> NoCall]
  /\ outcome' = [c \in Clients |-> "none"]
  /\ result' = [c \in Clients |-> None]
  /\ UNCHANGED record

Next ==
  \/ \E c \in Clients :
       \/ Invoke(c) \/ Begin(c) \/ Put(c) \/ Get(c) \/ Removed(c) \/ Fail(c) \/ Return(c)
       \/ \E k \in Keys : Remove(c, k)
  \/ Crash

Spec == Init /\ [][Next]_vars
=============================================================================
