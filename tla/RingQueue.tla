----------------------------- MODULE RingQueue -----------------------------
(***************************************************************************)
(* The queue of collectionz (src/collectionz/queue.go): a slice used as a  *)
(* ring, that doubles when it is full and halves when it is sparse.  The   *)
(* screen tailer keeps the names of its blocking sessions in one.          *)
(*                                                                         *)
(* A queue is a record with the fields of the struct; rep is a sequence,   *)
(* so rep[i] of the code is q.rep[i + 1] here.  The methods are operators  *)
(* from queues to queues, and an action is one exported call.              *)
(***************************************************************************)
EXTENDS Integers, Sequences

CONSTANTS
  Value,    \* what is queued
  None,     \* nil
  Panic,    \* the result of a call that panics
  NewQueue, \* TRUE: made by NewQueue; FALSE: the zero value
  MaxLength \* bound on the length

ASSUME NoneNotValue    == None \notin Value /\ Panic \notin Value \cup {None}
ASSUME NewIsBoolean    == NewQueue \in BOOLEAN
ASSUME MaxLengthIsNat  == MaxLength \in Nat

VARIABLES q, result

vars == <<q, result>>

-----------------------------------------------------------------------------
Zero    == [rep |-> <<>>, front |-> 0, back |-> 0, length |-> 0]
Cleared == [rep |-> <<None>>, front |-> 0, back |-> 0, length |-> 0]

lazyInit(x) == IF x.rep = <<>> THEN Cleared ELSE x

full(x) == x.length = Len(x.rep)

sparseLate(x) == 1 < x.length /\ x.length < Len(x.rep) \div 8  \* mutant of sparse

sparse(x) == 1 < x.length /\ x.length < Len(x.rep) \div 4

\* (i + 1) & (len - 1) and (i - 1) & (len - 1), for len a power of two
inc(x, i) == IF i + 1 = Len(x.rep) THEN 0 ELSE i + 1
dec(x, i) == IF i = 0 THEN Len(x.rep) - 1 ELSE i - 1

UsedSwapped(x) ==  \* mutant of Used: the two pieces in the wrong order
  IF x.front < x.back
  THEN SubSeq(x.rep, x.front + 1, x.back)
  ELSE SubSeq(x.rep, 1, x.back) \o SubSeq(x.rep, x.front + 1, Len(x.rep))

\* What resize copies: one piece, or two when rep is wrapped around.
Used(x) == IF x.front < x.back
           THEN SubSeq(x.rep, x.front + 1, x.back)
           ELSE SubSeq(x.rep, x.front + 1, Len(x.rep)) \o SubSeq(x.rep, 1, x.back)

resize(x, size) ==
  [rep    |-> [i \in 1 .. size |-> IF i <= Len(Used(x)) THEN Used(x)[i] ELSE None],
   front  |-> 0,
   back   |-> x.length,
   length |-> x.length]

lazyGrowByOne(x) == IF full(x) THEN resize(x, Len(x.rep) + 1) ELSE x  \* mutant

lazyGrow(x) == IF full(x) THEN resize(x, Len(x.rep) * 2) ELSE x
lazyShrink(x) == IF sparse(x) THEN resize(x, Len(x.rep) \div 2) ELSE x

PushedFront(x, v) ==
  LET y == lazyGrow(lazyInit(x))
      f == dec(y, y.front)
  IN  [y EXCEPT !.front = f, !.rep[f + 1] = v, !.length = @ + 1]

PushedBack(x, v) ==
  LET y == lazyGrow(lazyInit(x))
  IN  [y EXCEPT !.rep[y.back + 1] = v, !.back = inc(y, y.back), !.length = @ + 1]

\* the queue after PopFront and PopBack, when it was not empty
PoppedFrontKeeps(x) ==  \* mutant of PoppedFront: the slot is not reset
  lazyShrink([x EXCEPT !.front = inc(x, x.front), !.length = @ - 1])

PoppedFront(x) ==
  lazyShrink([x EXCEPT !.rep[x.front + 1] = None, !.front = inc(x, x.front), !.length = @ - 1])

PoppedBack(x) ==
  LET b == dec(x, x.back)
  IN  lazyShrink([x EXCEPT !.rep[b + 1] = None, !.back = b, !.length = @ - 1])

\* rep[i]; reading outside of the slice panics
At(x, i) == IF i + 1 \in DOMAIN x.rep THEN x.rep[i + 1] ELSE Panic

-----------------------------------------------------------------------------
Init == q = (IF NewQueue THEN Cleared ELSE Zero) /\ result = None

Clear == q' = Cleared /\ result' = None

PushFront(v) ==
  /\ q.length < MaxLength
  /\ q' = PushedFront(q, v)
  /\ result' = None

PushBack(v) ==
  /\ q.length < MaxLength
  /\ q' = PushedBack(q, v)
  /\ result' = None

Front == result' = At(q, q.front) /\ UNCHANGED q
Back  == result' = At(q, dec(q, q.back)) /\ UNCHANGED q

PopFront ==
  \/ q.length = 0 /\ result' = None /\ UNCHANGED q
  \/ q.length > 0 /\ result' = At(q, q.front) /\ q' = PoppedFront(q)

PopBack ==
  \/ q.length = 0 /\ result' = None /\ UNCHANGED q
  \/ q.length > 0 /\ result' = At(q, dec(q, q.back)) /\ q' = PoppedBack(q)

Next ==
  \/ Clear \/ Front \/ Back \/ PopFront \/ PopBack
  \/ \E v \in Value : PushFront(v) \/ PushBack(v)

Spec == Init /\ [][Next]_vars

-----------------------------------------------------------------------------
(* Properties.                                                             *)

\* The slot of the i-th value from the front, as String walks the ring.
Slot(x, i) == LET n == x.front + i
              IN  IF n <= Len(x.rep) THEN n ELSE n - Len(x.rep)

Contents(x) == [i \in 1 .. x.length |-> x.rep[Slot(x, i)]]

\* What the methods rely on: front, back and length agree, and the slots in
\* use hold a value: "unused slots are nil and not garbage".
Ring(x) ==
  /\ x.rep \in Seq(Value \cup {None}) /\ x.rep # <<>>
  /\ x.front \in 0 .. Len(x.rep) - 1
  /\ x.back \in 0 .. Len(x.rep) - 1
  /\ x.length \in 0 .. Len(x.rep)
  /\ x.back + 1 = Slot(x, x.length + 1)
  /\ \A i \in 1 .. Len(x.rep) : i <= x.length <=> x.rep[Slot(x, i)] # None

TypeOK ==
  /\ q \in [rep : Seq(Value \cup {None}), front : Nat, back : Nat, length : Nat]
  /\ Ring(q) \/ q = Zero
  /\ result \in Value \cup {None, Panic}

\* A power of two has no odd factor but 1.
IsPowerOfTwo(n) == \A d, e \in 1 .. n : d * e = n => d = 1 \/ d % 2 = 0

\* "len(rep) is a power of two", which the masks of inc and dec require,
\* through any sequence of growing and shrinking.
PowerOfTwo == IsPowerOfTwo(Len(q.rep))

RoomFor(size, length) == size <= 8 \/ size <= 4 * length

\* A queue that has shrunk gives its slice back: above the size of 8, a
\* quarter of the slots are in use.
NotSparse == RoomFor(Len(q.rep), q.length)

\* The ring is a double-ended queue: whatever is pushed comes out at both
\* ends as from a sequence, across the wraps, the growths and the shrinks.
Abstract == INSTANCE Deque WITH items <- Contents(q)
ImplementsDeque == Abstract!Spec
=============================================================================
