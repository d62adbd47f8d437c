------------------------------- MODULE Deque -------------------------------
(***************************************************************************)
(* What collectionz.Queue promises: a double-ended queue of values.        *)
(* Popping or looking at the end of an empty queue returns nil.            *)
(***************************************************************************)
EXTENDS Integers, Sequences

CONSTANTS
  Value,  \* what is queued
  None    \* nil

VARIABLES
  items,  \* from front to back
  result  \* what the last call returned

vars == <<items, result>>

First(s) == IF s = <<>> THEN None ELSE s[1]
Last(s)  == IF s = <<>> THEN None ELSE s[Len(s)]

Init == items = <<>> /\ result = None

Clear == items' = <<>> /\ result' = None

PushFront(v) == items' = <<v>> \o items /\ result' = None
PushBack(v)  == items' = Append(items, v) /\ result' = None

Front == result' = First(items) /\ UNCHANGED items
Back  == result' = Last(items) /\ UNCHANGED items

PopFront ==
  /\ result' = First(items)
  /\ items' = IF items = <<>> THEN <<>> ELSE Tail(items)

PopBack ==
  /\ result' = Last(items)
  /\ items' = IF items = <<>> THEN <<>> ELSE SubSeq(items, 1, Len(items) - 1)

Next ==
  \/ Clear \/ Front \/ Back \/ PopFront \/ PopBack
  \/ \E v \in Value : PushFront(v) \/ PushBack(v)

Spec == Init /\ [][Next]_vars
=============================================================================
