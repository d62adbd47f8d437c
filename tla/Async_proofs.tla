---------------------------- MODULE Async_proofs ----------------------------
(***************************************************************************)
(* Proofs about Pool and Promise, which share no variable.                 *)
(*                                                                         *)
(* Pool: its variables keep their types, and, as long as no field was      *)
(* written between a read and a write of another goroutine, an object is   *)
(* handed out to one user at a time, for any number of users, objects and  *)
(* calls.                                                                  *)
(*                                                                         *)
(* Promise: for any number of promises, what All, Race, Best and           *)
(* RunWaiting say is what became of the promises, whatever the order in    *)
(* which these settle and their goroutines go on.                          *)
(***************************************************************************)
EXTENDS Pool, Promise, FiniteSetTheorems, TLAPS

-----------------------------------------------------------------------------
(* The inductive invariant.                                                *)

\* Between Lock and Unlock of Open u has the mutex.
MutexInv ==
  \A u \in Users : pc[u] \in {"test", "count", "look", "take", "factory", "create", "opened"} => mutex = u

\* what is read: inUse or available
ReadValues == Int \cup Seq(Nat) \cup {None}

\* What a user has read has the type of the field; who takes an object has found
\* one, that others do not take.
ReadInv ==
  /\ read \in [Users -> ReadValues]
  /\ \A u \in Users :
       /\ pc[u] \in {"count", "create", "uncount"} => read[u] \in Int
       /\ pc[u] \in {"take", "append"} => read[u] \in Seq(Nat)
       /\ pc[u] \in {"count", "look"} => available # <<>>
       /\ pc[u] = "take" => read[u] # <<>>
       /\ pc[u] \notin {"out", "open", "test", "factory"} => object[u] \in Nat

\* What a user has read of available is still there.
FreshInv == \A u \in Users : pc[u] \in {"take", "append"} => read[u] = available

\* The one who takes an object takes the first.
HeadInv == \A u \in Users : pc[u] \in {"count", "look", "take"} => available # <<>> /\ object[u] = available[1]

\* The objects that exist are available once at most.
AvailableInv ==
  /\ \A i \in 1 .. Len(available) : available[i] <= made
  /\ \A i, j \in 1 .. Len(available) : available[i] = available[j] => i = j

\* users that have an object, or are about to
Owners == {u \in Users : pc[u] \in {"create", "opened", "using", "append"}}

\* Each of them has its own, which is not available.
OwnerInv ==
  /\ \A u \in Owners : object[u] <= made
  /\ \A u \in Owners : \A i \in 1 .. Len(available) : available[i] # object[u]
  /\ \A u, v \in Owners : object[u] = object[v] => u = v

ObjectInv == FreshInv /\ HeadInv /\ AvailableInv /\ OwnerInv

PoolInv == TypeOK /\ MutexInv /\ ReadInv /\ (~raced => ObjectInv)

-----------------------------------------------------------------------------
(* Types.                                                                  *)

LEMMA ReadTypes == None \in ReadValues /\ Int \subseteq ReadValues /\ Seq(Nat) \subseteq ReadValues
  BY DEF ReadValues

LEMMA InitPool == Init => PoolInv
<1> SUFFICES ASSUME Init
             PROVE  PoolInv
  OBVIOUS
<1>1. TypeOK
  <2>1. available \in Seq(Nat)
    <3>1. <<>> \in Seq(Nat)
      OBVIOUS
    <3> QED
      BY <3>1 DEF Init
  <2>2. pc \in [Users -> {"out", "open", "test", "count", "look", "take", "factory", "create", "opened",
                        "using", "append", "stamp", "drop", "uncount"}]
    BY DEF Init
  <2>4. object \in [Users -> Nat \cup {None}]
    BY DEF Init
  <2>3. mutex = None /\ inUse = 0 /\ made = 0 /\ idle = {} /\ outdated = {} /\ cleaner = "off" /\ raced = FALSE /\ opens = 0
    BY DEF Init
  <2>5. idle \subseteq Nat /\ outdated \subseteq Nat
    BY <2>3
  <2>6. /\ mutex \in Users \cup {None} /\ inUse \in Int /\ made \in Nat /\ opens \in Nat
        /\ cleaner \in {"off", "running", "panicked"}
    BY <2>3
  <2>7. raced \in BOOLEAN /\ overshot \in BOOLEAN
    BY Zenon DEF Init
  <2> QED
    BY <2>1, <2>2, <2>4, <2>5, <2>6, <2>7, Zenon DEF TypeOK
<1>2. MutexInv /\ ReadInv
  <2>1. None \in ReadValues
    BY ReadTypes
  <2>2. read \in [Users -> ReadValues]
    BY <2>1 DEF Init
  <2>3. \A u \in Users : pc[u] = "out"
    BY DEF Init
  <2> QED
    BY <2>2, <2>3 DEF MutexInv, ReadInv
<1>3. ObjectInv
  BY DEF Init, ObjectInv, FreshInv, HeadInv, AvailableInv, OwnerInv, Owners
<1> QED
  BY <1>1, <1>2, <1>3 DEF PoolInv

\* Every step of a user keeps the types, the mutex and what was read.
LEMMA UserKeepsTypes ==
  ASSUME TypeOK, MutexInv, ReadInv, NEW u \in Users, Open(u) \/ Progress(u)
  PROVE  (TypeOK /\ MutexInv /\ ReadInv)'
<1> USE NoneAssumption, ReadTypes DEF TypeOK, MutexInv, ReadInv, Goto, Write, StartCleaner, fields
<1>1. CASE Open(u)
  BY <1>1 DEF Open
<1>2. CASE Try(u)
  <2>1. CASE available # <<>>
    <3>1. Head(available) \in Nat /\ inUse \in ReadValues
      BY <2>1
    <3>2. /\ mutex = None /\ mutex' = u /\ pc' = [pc EXCEPT ![u] = "count"]
          /\ object' = [object EXCEPT ![u] = Head(available)] /\ read' = [read EXCEPT ![u] = inUse]
          /\ UNCHANGED <<available, inUse, made, idle, outdated, cleaner, raced, overshot, opens>>
      BY <1>2, <2>1 DEF Try
    <3>3. TypeOK' /\ MutexInv'
      BY <3>1, <3>2
    <3>4. ReadInv'
      BY <2>1, <3>1, <3>2
    <3> QED
      BY <3>3, <3>4
  <2>2. CASE available = <<>>
    BY <1>2, <2>2 DEF Try
  <2> QED
    BY <2>1, <2>2
<1>3. CASE CountTaken(u)
  BY <1>3 DEF CountTaken
<1>4. CASE LookAvailable(u)
  BY <1>4 DEF LookAvailable
<1>5. CASE Take(u)
  BY <1>5 DEF Take
<1>6. CASE Factory(u)
  BY <1>6 DEF Factory
<1>7. CASE FactoryFails(u)
  BY <1>7 DEF FactoryFails
<1>8. CASE CountCreated(u)
  BY <1>8 DEF CountCreated
<1>9. CASE Opened(u)
  BY <1>9 DEF Opened
<1>10. CASE PoolClose(u)
  BY <1>10 DEF PoolClose
<1>11. CASE AppendAvailable(u)
  <2>1. available' = Append(read[u], object[u]) /\ read[u] \in Seq(Nat) /\ object[u] \in Nat
    BY <1>11 DEF AppendAvailable
  <2>2. available' \in Seq(Nat) /\ available' # <<>>
    BY <2>1
  <2> QED
    BY <1>11, <2>2 DEF AppendAvailable
<1>12. CASE StartIdle(u)
  BY <1>12 DEF StartIdle
<1>13. CASE LookInUse(u)
  BY <1>13 DEF LookInUse
<1>14. CASE Closed(u)
  BY <1>14 DEF Closed
<1>15. CASE TestInUse(u)
  BY <1>15 DEF TestInUse
<1> QED
  BY <1>1, <1>2, <1>3, <1>4, <1>5, <1>6, <1>7, <1>8, <1>9, <1>10, <1>11, <1>12, <1>13, <1>14, <1>15 DEF Progress

LEMMA CleanerKeepsTypes ==
  ASSUME TypeOK, MutexInv, ReadInv, Clean \/ CleanerStops
  PROVE  (TypeOK /\ MutexInv /\ ReadInv)'
<1> USE DEF TypeOK, MutexInv, ReadInv, fields
<1>1. CASE Clean
  <2>1. ToSet(available) \subseteq Nat
    BY DEF ToSet
  <2> QED
    BY <1>1, <2>1 DEF Clean
<1>2. CASE CleanerStops
  BY <1>2 DEF CleanerStops
<1> QED
  BY <1>1, <1>2

-----------------------------------------------------------------------------
(* Objects.                                                                *)

\* The steps that leave available and the objects alone, and those that take the
\* first object or make a new one, in the mutex.
LEMMA OpenKeepsObjects ==
  ASSUME TypeOK, MutexInv, ReadInv, ObjectInv, NEW u \in Users,
         Open(u) \/ Try(u) \/ TestInUse(u) \/ CountTaken(u) \/ LookAvailable(u) \/ Factory(u) \/ FactoryFails(u)
           \/ CountCreated(u) \/ Opened(u)
  PROVE  ObjectInv'
<1> USE NoneAssumption DEF TypeOK, MutexInv, ReadInv, Goto, Write, StartCleaner, fields,
        ObjectInv, FreshInv, HeadInv, AvailableInv, OwnerInv, Owners
<1>1. CASE Open(u)
  BY <1>1 DEF Open
<1>2. CASE Try(u)
  <2>1. CASE available # <<>>
    <3>1. Head(available) = available[1]
      BY <2>1
    <3>2. /\ pc[u] = "open" /\ mutex = None /\ pc' = [pc EXCEPT ![u] = "count"]
          /\ object' = [object EXCEPT ![u] = available[1]] /\ read' = [read EXCEPT ![u] = inUse]
          /\ UNCHANGED <<available, made>>
      BY <1>2, <2>1, <3>1 DEF Try
    <3>3. FreshInv' /\ HeadInv' /\ AvailableInv'
      BY <2>1, <3>2
    <3>4. OwnerInv'
      <4>1. Owners' = Owners /\ u \notin Owners
        BY <3>2
      <4> QED
        BY <3>2, <4>1
    <3> QED
      BY <3>3, <3>4
  <2>2. CASE available = <<>>
    BY <1>2, <2>2 DEF Try
  <2> QED
    BY <2>1, <2>2
<1>3. CASE CountTaken(u)
  BY <1>3 DEF CountTaken
<1>4. CASE LookAvailable(u)
  <2>1. /\ pc[u] = "look" /\ read' = [read EXCEPT ![u] = available] /\ pc' = [pc EXCEPT ![u] = "take"]
        /\ UNCHANGED <<available, made, object>>
    BY <1>4 DEF LookAvailable
  <2>2. FreshInv' /\ HeadInv' /\ AvailableInv'
    BY <2>1
  <2>3. Owners' = Owners
    BY <2>1
  <2>4. OwnerInv'
    BY <2>1, <2>3
  <2> QED
    BY <2>2, <2>4
<1>5. CASE Factory(u)
  <2>1. /\ pc[u] = "factory" /\ pc' = [pc EXCEPT ![u] = "create"]
        /\ made' = made + 1 /\ object' = [object EXCEPT ![u] = made + 1]
        /\ read' = [read EXCEPT ![u] = inUse] /\ UNCHANGED available
    BY <1>5 DEF Factory
  <2>2. FreshInv' /\ HeadInv'
    BY <2>1
  <2>3. \A i \in 1 .. Len(available) : available[i] \in Nat
    OBVIOUS
  <2>4. AvailableInv'
    BY <2>1, <2>3
  <2>5. Owners' = Owners \cup {u} /\ u \notin Owners
    BY <2>1
  <2>6. OwnerInv'
    BY <2>1, <2>3, <2>5
  <2> QED
    BY <2>2, <2>4, <2>6
<1>6. CASE FactoryFails(u)
  BY <1>6 DEF FactoryFails
<1>7. CASE CountCreated(u)
  <2>1. /\ pc[u] = "create" /\ pc' = [pc EXCEPT ![u] = "opened"] /\ read' = [read EXCEPT ![u] = None]
        /\ UNCHANGED <<available, made, object>>
    BY <1>7 DEF CountCreated
  <2>2. FreshInv' /\ HeadInv' /\ AvailableInv'
    BY <2>1
  <2>3. Owners' = Owners
    BY <2>1
  <2>4. OwnerInv'
    BY <2>1, <2>3
  <2> QED
    BY <2>2, <2>4
<1>8. CASE Opened(u)
  <2>1. /\ pc[u] = "opened" /\ pc' = [pc EXCEPT ![u] = "using"]
        /\ UNCHANGED <<available, made, object, read>>
    BY <1>8 DEF Opened
  <2>2. FreshInv' /\ HeadInv' /\ AvailableInv'
    BY <2>1
  <2>3. Owners' = Owners
    BY <2>1
  <2>4. OwnerInv'
    BY <2>1, <2>3
  <2> QED
    BY <2>2, <2>4
<1>9. CASE TestInUse(u)
  BY <1>9 DEF TestInUse
<1> QED
  BY <1>1, <1>2, <1>3, <1>4, <1>5, <1>6, <1>7, <1>8, <1>9

\* Take removes the first object, which becomes that of the user.
LEMMA TakeKeepsObjects ==
  ASSUME TypeOK, MutexInv, ReadInv, ObjectInv, NEW u \in Users, Take(u), ~raced'
  PROVE  ObjectInv'
<1> USE DEF TypeOK
<1>0. /\ pc[u] = "take" /\ pc' = [pc EXCEPT ![u] = "opened"] /\ read' = [read EXCEPT ![u] = None]
      /\ object' = object /\ made' = made
  BY DEF Take, Write, Goto
<1>1. /\ available # <<>> /\ object[u] = available[1] /\ read[u] = available
  BY <1>0 DEF ObjectInv, FreshInv, HeadInv
<1>2. /\ available' \in Seq(Nat) /\ Len(available') = Len(available) - 1
      /\ \A i \in 1 .. Len(available') : available'[i] = available[i + 1]
  <2>1. available' = Tail(available)
    BY <1>1 DEF Take
  <2> QED
    BY <1>1, <2>1
<1>3. \A v \in Users \ {u} : pc[v] \notin {"take", "append"}
  BY DEF Take, Write, Taking
<1>4. \A v \in Users \ {u} : pc[v] \notin {"count", "look", "create", "opened"}
  BY <1>0, NoneAssumption DEF MutexInv
<1>5. FreshInv' /\ HeadInv'
  BY <1>0, <1>3, <1>4 DEF FreshInv, HeadInv
<1>6. AvailableInv'
  <2>1. \A i \in 1 .. Len(available') : i \in Nat /\ i + 1 \in 1 .. Len(available)
    BY <1>2
  <2>2. \A i \in 1 .. Len(available') : available'[i] <= made'
    BY <1>0, <1>2, <2>1 DEF ObjectInv, AvailableInv
  <2>3. ASSUME NEW i \in 1 .. Len(available'), NEW j \in 1 .. Len(available'), available'[i] = available'[j]
        PROVE  i = j
    <3>1. available[i + 1] = available[j + 1]
      BY <1>2, <2>3
    <3>2. i + 1 = j + 1
      BY <2>1, <3>1 DEF ObjectInv, AvailableInv
    <3> QED
      BY <2>1, <3>2
  <2>4. \A i, j \in 1 .. Len(available') : available'[i] = available'[j] => i = j
    BY <2>3
  <2> QED
    BY <2>2, <2>4 DEF AvailableInv
<1>7. OwnerInv'
  <2>1. Owners' = Owners \cup {u}
    BY <1>0 DEF Owners
  <2>2. \A i \in 1 .. Len(available') : available'[i] # object[u]
    <3> SUFFICES ASSUME NEW i \in 1 .. Len(available')
                 PROVE  available'[i] # object[u]
      OBVIOUS
    <3>1. i + 1 \in 1 .. Len(available) /\ 1 \in 1 .. Len(available) /\ i + 1 # 1 /\ available'[i] = available[i + 1]
      BY <1>2
    <3>2. available[i + 1] # available[1]
      BY <3>1 DEF ObjectInv, AvailableInv
    <3> QED
      BY <1>1, <3>1, <3>2
  <2>3. \A v \in Owners : v \in Users /\ object[v] # object[u] /\ object[v] <= made
                       /\ \A i \in 1 .. Len(available') : available'[i] # object[v]
    BY <1>1, <1>2 DEF ObjectInv, OwnerInv, Owners
  <2>4. object[u] <= made
    BY <1>1 DEF ObjectInv, AvailableInv
  <2>5. \A v, w \in Owners : object[v] = object[w] => v = w
    BY DEF ObjectInv, OwnerInv
  <2> QED
    BY <1>0, <2>1, <2>2, <2>3, <2>4, <2>5 DEF OwnerInv
<1> QED
  BY <1>5, <1>6, <1>7 DEF ObjectInv

\* onClose gives the object of the user back.
LEMMA AppendKeepsObjects ==
  ASSUME TypeOK, MutexInv, ReadInv, ObjectInv, NEW u \in Users, AppendAvailable(u), ~raced'
  PROVE  ObjectInv'
<1> USE DEF TypeOK
<1>0. /\ pc[u] = "append" /\ pc' = [pc EXCEPT ![u] = "stamp"] /\ read' = [read EXCEPT ![u] = None]
      /\ object' = object /\ made' = made /\ object[u] \in Nat
  BY DEF AppendAvailable, Write, Goto, ReadInv
<1>1. /\ available' \in Seq(Nat) /\ Len(available') = Len(available) + 1
      /\ \A i \in 1 .. Len(available) : available'[i] = available[i]
      /\ available'[Len(available')] = object[u]
  <2>1. available' = Append(available, object[u])
    BY <1>0 DEF AppendAvailable, ObjectInv, FreshInv
  <2> QED
    BY <1>0, <2>1
<1>2. \A v \in Users \ {u} : pc[v] \notin {"take", "append"}
  BY DEF AppendAvailable, Write, Taking
<1>3. u \in Owners /\ Owners' = Owners \ {u}
  BY <1>0 DEF Owners
<1>4. FreshInv'
  BY <1>0, <1>2 DEF FreshInv
<1>5. HeadInv'
  <2>1. \A v \in Users : pc'[v] \in {"count", "look", "take"} => available # <<>> /\ object[v] = available[1]
    BY <1>0 DEF ObjectInv, HeadInv
  <2>2. available # <<>> => available'[1] = available[1]
    BY <1>1
  <2>3. available' # <<>>
    BY <1>1
  <2> QED
    BY <1>0, <2>1, <2>2, <2>3 DEF HeadInv
<1>6. \A i \in 1 .. Len(available') :
        \/ i \in 1 .. Len(available) /\ available'[i] = available[i] /\ available'[i] # object[u]
        \/ i = Len(available') /\ available'[i] = object[u]
  BY <1>1, <1>3 DEF ObjectInv, OwnerInv
<1>7. AvailableInv'
  BY <1>0, <1>3, <1>6 DEF ObjectInv, AvailableInv, OwnerInv
<1>8. OwnerInv'
  <2>1. \A v \in Owners' : v \in Owners /\ object[v] # object[u]
    BY <1>3 DEF ObjectInv, OwnerInv
  <2> QED
    BY <1>0, <1>6, <2>1 DEF ObjectInv, OwnerInv
<1> QED
  BY <1>4, <1>5, <1>7, <1>8 DEF ObjectInv

\* The other steps leave available alone; a user that has closed its object
\* owns none.
LEMMA CloseKeepsObjects ==
  ASSUME TypeOK, MutexInv, ReadInv, ObjectInv, NEW u \in Users,
         PoolClose(u) \/ StartIdle(u) \/ LookInUse(u) \/ Closed(u)
  PROVE  ObjectInv'
<1> USE DEF TypeOK, ReadInv, Goto, Write, fields
<1>1. CASE PoolClose(u)
  <2>1. /\ pc[u] = "using" /\ UNCHANGED <<available, object, made>>
        /\ \/ pc' = [pc EXCEPT ![u] = "drop"] /\ read' = read
           \/ pc' = [pc EXCEPT ![u] = "append"] /\ read' = [read EXCEPT ![u] = available]
    BY <1>1 DEF PoolClose
  <2>2. available \in ReadValues
    BY ReadTypes
  <2>3. FreshInv' /\ HeadInv' /\ AvailableInv'
    BY <2>1, <2>2 DEF ObjectInv, FreshInv, HeadInv, AvailableInv
  <2>4. Owners' \subseteq Owners
    BY <2>1 DEF Owners
  <2>5. OwnerInv'
    BY <2>1, <2>4 DEF ObjectInv, OwnerInv
  <2> QED
    BY <2>3, <2>5 DEF ObjectInv
<1>2. CASE StartIdle(u)
  BY <1>2 DEF StartIdle, ObjectInv, FreshInv, HeadInv, AvailableInv, OwnerInv, Owners
<1>3. CASE LookInUse(u)
  BY <1>3 DEF LookInUse, ObjectInv, FreshInv, HeadInv, AvailableInv, OwnerInv, Owners
<1>4. CASE Closed(u)
  BY <1>4 DEF Closed, ObjectInv, FreshInv, HeadInv, AvailableInv, OwnerInv, Owners
<1> QED
  BY <1>1, <1>2, <1>3, <1>4

LEMMA NextKeepsPool ==
  ASSUME PoolInv, [Next]_vars
  PROVE  PoolInv'
<1>0. TypeOK /\ MutexInv /\ ReadInv
  BY DEF PoolInv
<1>1. CASE Clean \/ CleanerStops
  <2>1. (TypeOK /\ MutexInv /\ ReadInv)'
    BY <1>0, <1>1, CleanerKeepsTypes
  <2>2. UNCHANGED <<available, made, pc, object, read, raced>>
    BY <1>1 DEF Clean, CleanerStops, fields
  <2>3. ~raced' => ObjectInv'
    BY <2>2 DEF PoolInv, ObjectInv, FreshInv, HeadInv, AvailableInv, OwnerInv, Owners
  <2> QED
    BY <2>1, <2>3 DEF PoolInv
<1>2. ASSUME NEW u \in Users, Open(u) \/ Progress(u)
      PROVE  PoolInv'
  <2>1. (TypeOK /\ MutexInv /\ ReadInv)'
    BY <1>0, <1>2, UserKeepsTypes
  <2>2. raced => raced'
    BY <1>2 DEF Progress, Open, Try, TestInUse, CountTaken, LookAvailable, Take, Factory, FactoryFails, CountCreated, Opened,
                PoolClose, AppendAvailable, StartIdle, LookInUse, Closed, Write
  <2>3. ASSUME ~raced'
        PROVE  ObjectInv'
    <3>1. ObjectInv
      BY <2>2, <2>3 DEF PoolInv
    <3>2. CASE Open(u) \/ Try(u) \/ TestInUse(u) \/ CountTaken(u) \/ LookAvailable(u) \/ Factory(u) \/ FactoryFails(u)
                 \/ CountCreated(u) \/ Opened(u)
      BY <1>0, <3>1, <3>2, OpenKeepsObjects
    <3>3. CASE Take(u)
      BY <1>0, <2>3, <3>1, <3>3, TakeKeepsObjects
    <3>4. CASE AppendAvailable(u)
      BY <1>0, <2>3, <3>1, <3>4, AppendKeepsObjects
    <3>5. CASE PoolClose(u) \/ StartIdle(u) \/ LookInUse(u) \/ Closed(u)
      BY <1>0, <3>1, <3>5, CloseKeepsObjects
    <3> QED
      BY <1>2, <3>2, <3>3, <3>4, <3>5 DEF Progress
  <2> QED
    BY <2>1, <2>3 DEF PoolInv
<1>3. CASE UNCHANGED vars
  BY <1>3 DEF vars, fields, PoolInv, TypeOK, MutexInv, ReadInv,
              ObjectInv, FreshInv, HeadInv, AvailableInv, OwnerInv, Owners
<1> QED
  BY <1>1, <1>2, <1>3 DEF Next

LEMMA PoolInvariant == Spec => []PoolInv
<1>1. PoolInv /\ [Next]_vars => PoolInv'
  BY NextKeepsPool
<1> QED
  BY InitPool, <1>1, PTL DEF Spec

-----------------------------------------------------------------------------
\* The variables of the pool keep their types: in particular available is never
\* shorter than what Open takes of it, and inUse is always a number, whatever
\* onClose writes without the mutex.
THEOREM PoolTypeCorrect == Spec => []TypeOK
<1>1. PoolInv => TypeOK
  BY DEF PoolInv
<1> QED
  BY PoolInvariant, <1>1, PTL

\* As long as no field was written between a read and a write of another
\* goroutine, Open never hands out an object that a user has, or twice.
THEOREM ObjectsHaveOneUser == Spec => []OneUser
<1>1. ASSUME PoolInv, ~raced
      PROVE  /\ \A u, v \in Having : u # v => object[u] # object[v]
             /\ \A u \in Having : object[u] \notin ToSet(available)
             /\ IsInjective(available)
  <2>1. Having \subseteq Owners
    BY DEF Having, Owners
  <2>2. AvailableInv /\ OwnerInv /\ available \in Seq(Nat)
    BY <1>1 DEF PoolInv, ObjectInv, TypeOK
  <2>3. \A u, v \in Having : u # v => object[u] # object[v]
    BY <2>1, <2>2 DEF OwnerInv
  <2>4. \A u \in Having : object[u] \notin ToSet(available)
    BY <2>1, <2>2 DEF OwnerInv, ToSet
  <2>5. IsInjective(available)
    BY <2>2 DEF AvailableInv, IsInjective
  <2> QED
    BY <2>3, <2>4, <2>5
<1>2. PoolInv => OneUser
  BY <1>1 DEF OneUser
<1> QED
  BY PoolInvariant, <1>2, PTL
-----------------------------------------------------------------------------
(* Counting.                                                               *)

\* the users that inUse counts
Counted == {u \in Users : pc[u] \in {"look", "take", "opened", "using", "append", "stamp", "drop", "uncount"}}

\* the users that have an object, or for which Open has found room for one
Holders == {u \in Users : pc[u] \in {"factory", "create", "opened", "using", "append"}}

\* What a user has read of inUse is still there, and inUse counts the users.
CountInv ==
  /\ \A u \in Users : pc[u] \in {"count", "create", "uncount"} => read[u] = inUse
  /\ inUse = Cardinality(Counted)

\* the objects that are available, held or about to be made
Room == Len(available) + Cardinality(Holders)

\* They are maxOpen + 1 at most, unless one was made although one was available.
\* Who has found none available is not among the holders, and sees one holder
\* less for each object that has become available since.
RoomInv ==
  /\ ~overshot => Room <= MaxOpen + 1
  /\ Room <= Cardinality(Users)
  /\ \A u \in Users : pc[u] = "test" => Room < Cardinality(Users)

\* No object is forgotten while it can be handed out.
KeptInv ==
  \A o \in 1 .. made :
    \/ o \in ToSet(available) \cup outdated
    \/ \E u \in Owners : object[u] = o

\* Sets of users are finite, and count one more or one less with a user.
LEMMA UserSets ==
  ASSUME NEW S, S \subseteq Users
  PROVE  /\ IsFiniteSet(S) /\ Cardinality(S) \in Nat
         /\ \A u \in Users : /\ u \notin S => Cardinality(S \cup {u}) = Cardinality(S) + 1
                             /\ u \in S => Cardinality(S \ {u}) = Cardinality(S) - 1
<1>1. IsFiniteSet(S)
  BY UsersAssumption, FS_Subset
<1>2. Cardinality(S) \in Nat
  BY <1>1, FS_CardinalityType
<1>3. \A u \in Users : u \notin S => Cardinality(S \cup {u}) = Cardinality(S) + 1
  BY <1>1, FS_AddElement
<1>4. \A u \in Users : u \in S => Cardinality(S \ {u}) = Cardinality(S) - 1
  BY <1>1, FS_RemoveElement
<1> QED
  BY <1>1, <1>2, <1>3, <1>4

LEMMA CountSets ==
  /\ Cardinality(Counted) \in Nat /\ Cardinality(Holders) \in Nat
  /\ \A u \in Users : /\ u \notin Counted => Cardinality(Counted \cup {u}) = Cardinality(Counted) + 1
                      /\ u \in Counted => Cardinality(Counted \ {u}) = Cardinality(Counted) - 1
                      /\ u \notin Holders => Cardinality(Holders \cup {u}) = Cardinality(Holders) + 1
                      /\ u \in Holders => Cardinality(Holders \ {u}) = Cardinality(Holders) - 1
<1>1. Counted \subseteq Users /\ Holders \subseteq Users
  BY DEF Counted, Holders
<1> QED
  BY <1>1, UserSets

LEMMA InitCounts == Init => CountInv /\ RoomInv /\ KeptInv
<1> SUFFICES ASSUME Init
             PROVE  CountInv /\ RoomInv /\ KeptInv
  OBVIOUS
<1>1. Counted = {} /\ Holders = {}
  BY DEF Init, Counted, Holders
<1>2. Cardinality(Counted) = 0 /\ Cardinality(Holders) = 0
  BY <1>1, FS_EmptySet
<1>3. inUse = 0 /\ Len(available) = 0 /\ made = 0 /\ \A u \in Users : pc[u] = "out"
  BY DEF Init
<1>4. CountInv
  BY <1>2, <1>3 DEF CountInv
<1>5. Cardinality(Users) \in Nat
  BY UserSets
<1>6. RoomInv
  BY <1>2, <1>3, <1>5, MaxOpenAssumption DEF RoomInv, Room
<1>7. KeptInv
  BY <1>3 DEF KeptInv
<1> QED
  BY <1>4, <1>6, <1>7

\* Each step of a user keeps the counts: a step that writes inUse is not raced.
LEMMA UserKeepsCounts ==
  ASSUME PoolInv, ~raced, CountInv, NEW u \in Users, Open(u) \/ Progress(u), ~raced'
  PROVE  CountInv' /\ (~TestInUse(u) => Room' <= Room)
<1>0. TypeOK /\ MutexInv /\ ReadInv /\ FreshInv /\ HeadInv
  BY DEF PoolInv, ObjectInv
<1> USE DEF Goto, Write, fields
<1>types. /\ inUse \in Int /\ MaxOpen \in Nat /\ Len(available) \in Nat /\ Cardinality(Counted) \in Nat
          /\ Cardinality(Holders) \in Nat
  BY <1>0, CountSets, MaxOpenAssumption DEF TypeOK
<1>1. CASE Open(u)
  <2>1. /\ pc[u] = "out" /\ pc' = [pc EXCEPT ![u] = "open"]
        /\ read' = read
        /\ inUse' = inUse /\ available' = available
    BY <1>1 DEF Open
  <2>2. Counted' = Counted /\ Holders' = Holders
    BY <1>0, <2>1 DEF Counted, Holders, TypeOK
  <2>3. \A v \in Users : pc'[v] \in {"count", "create", "uncount"} => read'[v] = inUse'
    BY <1>0, <2>1 DEF CountInv, TypeOK, ReadInv
  <2>4. /\ Cardinality(Counted') = Cardinality(Counted)
        /\ Cardinality(Holders') = Cardinality(Holders)
    BY <2>2
  <2> QED
    BY <1>types, <2>1, <2>3, <2>4 DEF CountInv, Room
<1>2. CASE CountTaken(u)
  <2>1. /\ pc[u] = "count" /\ pc' = [pc EXCEPT ![u] = "look"]
        /\ read' = [read EXCEPT ![u] = None]
        /\ inUse' = inUse + 1 /\ available' = available
        /\ \A v \in Users \ {u} : pc[v] \notin {"count", "create", "uncount"}
    BY <1>2, <1>types DEF CountTaken, CountInv, Counting
  <2>2. Counted' = Counted \cup {u} /\ Holders' = Holders
    BY <1>0, <2>1 DEF Counted, Holders, TypeOK
  <2>3. u \notin Counted
    BY <2>1 DEF Counted, Holders
  <2>4. \A v \in Users : pc'[v] \in {"count", "create", "uncount"} => read'[v] = inUse'
    BY <1>0, <2>1 DEF CountInv, TypeOK, ReadInv
  <2>5. /\ Cardinality(Counted') = Cardinality(Counted) + 1
        /\ Cardinality(Holders') = Cardinality(Holders)
    BY <2>2, <2>3, CountSets
  <2> QED
    BY <1>types, <2>1, <2>4, <2>5 DEF CountInv, Room
<1>3. CASE LookAvailable(u)
  <2>1. /\ pc[u] = "look" /\ pc' = [pc EXCEPT ![u] = "take"]
        /\ read' = [read EXCEPT ![u] = available]
        /\ inUse' = inUse /\ available' = available
    BY <1>3 DEF LookAvailable
  <2>2. Counted' = Counted /\ Holders' = Holders
    BY <1>0, <2>1 DEF Counted, Holders, TypeOK
  <2>3. \A v \in Users : pc'[v] \in {"count", "create", "uncount"} => read'[v] = inUse'
    BY <1>0, <2>1 DEF CountInv, TypeOK, ReadInv
  <2>4. /\ Cardinality(Counted') = Cardinality(Counted)
        /\ Cardinality(Holders') = Cardinality(Holders)
    BY <2>2
  <2> QED
    BY <1>types, <2>1, <2>3, <2>4 DEF CountInv, Room
<1>4. CASE Take(u)
  <2>1. /\ pc[u] = "take" /\ pc' = [pc EXCEPT ![u] = "opened"]
        /\ read' = [read EXCEPT ![u] = None]
        /\ inUse' = inUse /\ available' = Tail(available)
    BY <1>0, <1>4 DEF Take, FreshInv
  <2>2. Counted' = Counted /\ Holders' = Holders \cup {u}
    BY <1>0, <2>1 DEF Counted, Holders, TypeOK
  <2>3. u \notin Holders
    BY <2>1 DEF Counted, Holders
  <2>4. Len(available') = Len(available) - 1
    BY <1>0, <2>1 DEF HeadInv, TypeOK
  <2>5. \A v \in Users : pc'[v] \in {"count", "create", "uncount"} => read'[v] = inUse'
    BY <1>0, <2>1 DEF CountInv, TypeOK, ReadInv
  <2>6. /\ Cardinality(Counted') = Cardinality(Counted)
        /\ Cardinality(Holders') = Cardinality(Holders) + 1
    BY <2>2, <2>3, <2>4, CountSets
  <2>7. Room' = Room
    BY <1>types, <2>4, <2>6 DEF Room
  <2> QED
    BY <1>types, <2>1, <2>5, <2>6, <2>7 DEF CountInv, Room
<1>5. CASE Factory(u)
  <2>1. /\ pc[u] = "factory" /\ pc' = [pc EXCEPT ![u] = "create"]
        /\ read' = [read EXCEPT ![u] = inUse]
        /\ inUse' = inUse /\ available' = available
    BY <1>5 DEF Factory
  <2>2. Counted' = Counted /\ Holders' = Holders
    BY <1>0, <2>1 DEF Counted, Holders, TypeOK
  <2>3. \A v \in Users : pc'[v] \in {"count", "create", "uncount"} => read'[v] = inUse'
    BY <1>0, <2>1 DEF CountInv, TypeOK, ReadInv
  <2>4. /\ Cardinality(Counted') = Cardinality(Counted)
        /\ Cardinality(Holders') = Cardinality(Holders)
    BY <2>2
  <2> QED
    BY <1>types, <2>1, <2>3, <2>4 DEF CountInv, Room
<1>6. CASE FactoryFails(u)
  <2>1. /\ pc[u] = "factory" /\ pc' = [pc EXCEPT ![u] = "out"]
        /\ read' = read
        /\ inUse' = inUse /\ available' = available
    BY <1>6 DEF FactoryFails
  <2>2. Counted' = Counted /\ Holders' = Holders \ {u}
    BY <1>0, <2>1 DEF Counted, Holders, TypeOK
  <2>3. u \in Holders
    BY <2>1 DEF Counted, Holders
  <2>4. \A v \in Users : pc'[v] \in {"count", "create", "uncount"} => read'[v] = inUse'
    BY <1>0, <2>1 DEF CountInv, TypeOK, ReadInv
  <2>5. /\ Cardinality(Counted') = Cardinality(Counted)
        /\ Cardinality(Holders') = Cardinality(Holders) - 1
    BY <2>2, <2>3, CountSets
  <2> QED
    BY <1>types, <2>1, <2>4, <2>5 DEF CountInv, Room
<1>7. CASE CountCreated(u)
  <2>1. /\ pc[u] = "create" /\ pc' = [pc EXCEPT ![u] = "opened"]
        /\ read' = [read EXCEPT ![u] = None]
        /\ inUse' = inUse + 1 /\ available' = available
        /\ \A v \in Users \ {u} : pc[v] \notin {"count", "create", "uncount"}
    BY <1>7, <1>types DEF CountCreated, CountInv, Counting
  <2>2. Counted' = Counted \cup {u} /\ Holders' = Holders
    BY <1>0, <2>1 DEF Counted, Holders, TypeOK
  <2>3. u \notin Counted
    BY <2>1 DEF Counted, Holders
  <2>4. \A v \in Users : pc'[v] \in {"count", "create", "uncount"} => read'[v] = inUse'
    BY <1>0, <2>1 DEF CountInv, TypeOK, ReadInv
  <2>5. /\ Cardinality(Counted') = Cardinality(Counted) + 1
        /\ Cardinality(Holders') = Cardinality(Holders)
    BY <2>2, <2>3, CountSets
  <2> QED
    BY <1>types, <2>1, <2>4, <2>5 DEF CountInv, Room
<1>8. CASE Opened(u)
  <2>1. /\ pc[u] = "opened" /\ pc' = [pc EXCEPT ![u] = "using"]
        /\ read' = read
        /\ inUse' = inUse /\ available' = available
    BY <1>8 DEF Opened
  <2>2. Counted' = Counted /\ Holders' = Holders
    BY <1>0, <2>1 DEF Counted, Holders, TypeOK
  <2>3. \A v \in Users : pc'[v] \in {"count", "create", "uncount"} => read'[v] = inUse'
    BY <1>0, <2>1 DEF CountInv, TypeOK, ReadInv
  <2>4. /\ Cardinality(Counted') = Cardinality(Counted)
        /\ Cardinality(Holders') = Cardinality(Holders)
    BY <2>2
  <2> QED
    BY <1>types, <2>1, <2>3, <2>4 DEF CountInv, Room
<1>9. CASE AppendAvailable(u)
  <2>1. /\ pc[u] = "append" /\ pc' = [pc EXCEPT ![u] = "stamp"]
        /\ read' = [read EXCEPT ![u] = None]
        /\ inUse' = inUse /\ available' = Append(available, object[u])
    BY <1>0, <1>9 DEF AppendAvailable, FreshInv
  <2>2. Counted' = Counted /\ Holders' = Holders \ {u}
    BY <1>0, <2>1 DEF Counted, Holders, TypeOK
  <2>3. u \in Holders
    BY <2>1 DEF Counted, Holders
  <2>4. Len(available') = Len(available) + 1
    BY <1>0, <2>1 DEF ReadInv, TypeOK
  <2>5. \A v \in Users : pc'[v] \in {"count", "create", "uncount"} => read'[v] = inUse'
    BY <1>0, <2>1 DEF CountInv, TypeOK, ReadInv
  <2>6. /\ Cardinality(Counted') = Cardinality(Counted)
        /\ Cardinality(Holders') = Cardinality(Holders) - 1
    BY <2>2, <2>3, <2>4, CountSets
  <2> QED
    BY <1>types, <2>1, <2>4, <2>5, <2>6 DEF CountInv, Room
<1>10. CASE StartIdle(u)
  <2>1. /\ pc[u] = "stamp" /\ pc' = [pc EXCEPT ![u] = "drop"]
        /\ read' = read
        /\ inUse' = inUse /\ available' = available
    BY <1>10 DEF StartIdle
  <2>2. Counted' = Counted /\ Holders' = Holders
    BY <1>0, <2>1 DEF Counted, Holders, TypeOK
  <2>3. \A v \in Users : pc'[v] \in {"count", "create", "uncount"} => read'[v] = inUse'
    BY <1>0, <2>1 DEF CountInv, TypeOK, ReadInv
  <2>4. /\ Cardinality(Counted') = Cardinality(Counted)
        /\ Cardinality(Holders') = Cardinality(Holders)
    BY <2>2
  <2> QED
    BY <1>types, <2>1, <2>3, <2>4 DEF CountInv, Room
<1>11. CASE LookInUse(u)
  <2>1. /\ pc[u] = "drop" /\ pc' = [pc EXCEPT ![u] = "uncount"]
        /\ read' = [read EXCEPT ![u] = inUse]
        /\ inUse' = inUse /\ available' = available
    BY <1>11 DEF LookInUse
  <2>2. Counted' = Counted /\ Holders' = Holders
    BY <1>0, <2>1 DEF Counted, Holders, TypeOK
  <2>3. \A v \in Users : pc'[v] \in {"count", "create", "uncount"} => read'[v] = inUse'
    BY <1>0, <2>1 DEF CountInv, TypeOK, ReadInv
  <2>4. /\ Cardinality(Counted') = Cardinality(Counted)
        /\ Cardinality(Holders') = Cardinality(Holders)
    BY <2>2
  <2> QED
    BY <1>types, <2>1, <2>3, <2>4 DEF CountInv, Room
<1>12. CASE Closed(u)
  <2>1. /\ pc[u] = "uncount" /\ pc' = [pc EXCEPT ![u] = "out"]
        /\ read' = [read EXCEPT ![u] = None]
        /\ inUse' = inUse - 1 /\ available' = available
        /\ \A v \in Users \ {u} : pc[v] \notin {"count", "create", "uncount"}
    BY <1>12, <1>types DEF Closed, CountInv, Counting
  <2>2. Counted' = Counted \ {u} /\ Holders' = Holders
    BY <1>0, <2>1 DEF Counted, Holders, TypeOK
  <2>3. u \in Counted
    BY <2>1 DEF Counted, Holders
  <2>4. \A v \in Users : pc'[v] \in {"count", "create", "uncount"} => read'[v] = inUse'
    BY <1>0, <2>1 DEF CountInv, TypeOK, ReadInv
  <2>5. /\ Cardinality(Counted') = Cardinality(Counted) - 1
        /\ Cardinality(Holders') = Cardinality(Holders)
    BY <2>2, <2>3, CountSets
  <2> QED
    BY <1>types, <2>1, <2>4, <2>5 DEF CountInv, Room
<1>13. CASE Try(u) /\ available # <<>>
  <2>1. /\ pc[u] = "open" /\ pc' = [pc EXCEPT ![u] = "count"]
        /\ read' = [read EXCEPT ![u] = inUse]
        /\ inUse' = inUse /\ available' = available
    BY <1>13 DEF Try
  <2>2. Counted' = Counted /\ Holders' = Holders
    BY <1>0, <2>1 DEF Counted, Holders, TypeOK
  <2>3. \A v \in Users : pc'[v] \in {"count", "create", "uncount"} => read'[v] = inUse'
    BY <1>0, <2>1 DEF CountInv, TypeOK, ReadInv
  <2> QED
    BY <1>types, <2>1, <2>2, <2>3 DEF CountInv, Room
<1>14. CASE Try(u) /\ available = <<>>
  <2>1. /\ pc[u] = "open" /\ pc' = [pc EXCEPT ![u] = "test"]
        /\ read' = read /\ inUse' = inUse /\ available' = available
    BY <1>14 DEF Try
  <2>2. Counted' = Counted /\ Holders' = Holders
    BY <1>0, <2>1 DEF Counted, Holders, TypeOK
  <2>3. \A v \in Users : pc'[v] \in {"count", "create", "uncount"} => read'[v] = inUse'
    BY <1>0, <2>1 DEF CountInv, TypeOK, ReadInv
  <2> QED
    BY <1>types, <2>1, <2>2, <2>3 DEF CountInv, Room
<1>15. CASE PoolClose(u) /\ object[u] \in outdated
  <2>1. /\ pc[u] = "using" /\ pc' = [pc EXCEPT ![u] = "drop"]
        /\ read' = read /\ inUse' = inUse /\ available' = available
    BY <1>15 DEF PoolClose
  <2>2. Counted' = Counted /\ Holders' = Holders \ {u} /\ u \in Holders
    BY <1>0, <2>1 DEF Counted, Holders, TypeOK
  <2>3. \A v \in Users : pc'[v] \in {"count", "create", "uncount"} => read'[v] = inUse'
    BY <1>0, <2>1 DEF CountInv, TypeOK, ReadInv
  <2>4. Cardinality(Holders') = Cardinality(Holders) - 1
    BY <2>2, CountSets
  <2> QED
    BY <1>types, <2>1, <2>2, <2>3, <2>4 DEF CountInv, Room
<1>16. CASE PoolClose(u) /\ object[u] \notin outdated
  <2>1. /\ pc[u] = "using" /\ pc' = [pc EXCEPT ![u] = "append"]
        /\ read' = [read EXCEPT ![u] = available] /\ inUse' = inUse /\ available' = available
    BY <1>16 DEF PoolClose
  <2>2. Counted' = Counted /\ Holders' = Holders
    BY <1>0, <2>1 DEF Counted, Holders, TypeOK
  <2>3. \A v \in Users : pc'[v] \in {"count", "create", "uncount"} => read'[v] = inUse'
    BY <1>0, <2>1 DEF CountInv, TypeOK, ReadInv
  <2> QED
    BY <1>types, <2>1, <2>2, <2>3 DEF CountInv, Room
<1>17. CASE TestInUse(u)
  <2>1. /\ pc[u] = "test" /\ pc' \in {[pc EXCEPT ![u] = "factory"], [pc EXCEPT ![u] = "open"]}
        /\ read' = read /\ inUse' = inUse
    BY <1>17 DEF TestInUse
  <2>2. Counted' = Counted
    BY <1>0, <2>1 DEF Counted, TypeOK
  <2>3. \A v \in Users : pc'[v] \in {"count", "create", "uncount"} => read'[v] = inUse'
    BY <1>0, <2>1 DEF CountInv, TypeOK, ReadInv
  <2> QED
    BY <1>17, <2>1, <2>2, <2>3 DEF CountInv
<1> QED
  BY <1>1, <1>2, <1>3, <1>4, <1>5, <1>6, <1>7, <1>8, <1>9, <1>10, <1>11, <1>12, <1>13, <1>14, <1>15, <1>16, <1>17
  DEF Progress

\* Only the second test of Open makes room: none was available at the first, so
\* that there is one object less than there are users.
LEMMA UserKeepsRoom ==
  ASSUME PoolInv, ~raced, CountInv, RoomInv, NEW u \in Users, Open(u) \/ Progress(u), ~raced'
  PROVE  RoomInv'
<1>0. TypeOK /\ MutexInv
  BY DEF PoolInv
<1>1. /\ inUse \in Int /\ MaxOpen \in Nat /\ Len(available) \in Nat
      /\ Cardinality(Counted) \in Nat /\ Cardinality(Holders) \in Nat /\ Cardinality(Users) \in Nat
  BY <1>0, CountSets, UserSets, MaxOpenAssumption DEF TypeOK
<1>2. TypeOK' /\ MutexInv'
  BY UserKeepsTypes DEF PoolInv
<1>3. Len(available') \in Nat /\ Cardinality(Holders') \in Nat
  <2>1. Holders' \subseteq Users
    BY DEF Holders
  <2> QED
    BY <1>2, <2>1, UserSets DEF TypeOK
<1>4. Room \in Nat /\ Room' \in Nat
  BY <1>1, <1>3 DEF Room
<1>5. CASE ~TestInUse(u)
  <2>1. Room' <= Room
    BY <1>5, UserKeepsCounts
  <2>2. overshot' = overshot
    BY <1>5 DEF Progress, Open, Try, CountTaken, LookAvailable, Take, Factory, FactoryFails, CountCreated, Opened,
                PoolClose, AppendAvailable, StartIdle, LookInUse, Closed
  <2>3. ASSUME NEW v \in Users, pc'[v] = "test", pc[v] # "test"
        PROVE  v = u /\ Try(u) /\ available = <<>>
    BY <1>0, <1>5, <2>3 DEF Progress, Open, Try, CountTaken, LookAvailable, Take, Factory, FactoryFails,
         CountCreated, Opened, PoolClose, AppendAvailable, StartIdle, LookInUse, Closed, Write, Goto, TypeOK
  <2>4. ASSUME pc[u] # "test", pc'[u] = "test"
        PROVE  Room' < Cardinality(Users)
    <3>1. Try(u) /\ available = <<>>
      BY <2>3, <2>4
    <3>2. Len(available') = 0
      BY <3>1 DEF Try, fields
    <3>3. Holders' \subseteq Users \ {u}
      BY <2>4 DEF Holders
    <3>4. IsFiniteSet(Users \ {u}) /\ Cardinality(Users \ {u}) = Cardinality(Users) - 1
      BY UserSets
    <3>5. Cardinality(Holders') <= Cardinality(Users) - 1
      BY <3>3, <3>4, FS_Subset
    <3> QED
      BY <1>1, <1>3, <3>2, <3>5 DEF Room
  <2>5. \A v \in Users : pc'[v] = "test" => Room' < Cardinality(Users)
    BY <1>1, <1>4, <2>1, <2>3, <2>4 DEF RoomInv
  <2> QED
    BY <1>1, <1>4, <2>1, <2>2, <2>5 DEF RoomInv
<1>6. CASE TestInUse(u) /\ inUse <= MaxOpen
  <2>1. /\ pc[u] = "test" /\ pc' = [pc EXCEPT ![u] = "factory"] /\ available' = available
        /\ overshot' = (overshot \/ available # <<>>)
    BY <1>6 DEF TestInUse, Goto, fields
  <2>2. \A v \in Users : v # u => pc[v] \notin {"test", "factory", "create", "opened"}
    BY <1>0, <2>1 DEF MutexInv
  <2>3. Holders' = Holders \cup {u} /\ u \notin Holders /\ \A v \in Users : pc'[v] # "test"
    BY <1>0, <2>1, <2>2 DEF Holders, TypeOK
  <2>4. Cardinality(Holders') = Cardinality(Holders) + 1
    BY <2>3, CountSets
  <2>5. Room' = Room + 1 /\ Room < Cardinality(Users)
    BY <1>1, <2>1, <2>4 DEF Room, RoomInv
  <2>6. ASSUME ~overshot'
        PROVE  Room <= MaxOpen
    <3>0. available = <<>>
      BY <2>1, <2>6, Zenon
    <3>1. Len(available) = 0
      BY <3>0
    <3>2. Holders \subseteq Counted
      BY <2>1, <2>2 DEF Holders, Counted
    <3>3. Cardinality(Holders) <= Cardinality(Counted)
      <4>1. Counted \subseteq Users
        BY DEF Counted
      <4>2. IsFiniteSet(Counted)
        BY <4>1, UserSets
      <4> QED
        BY <3>2, <4>2, FS_Subset
    <3> QED
      BY <1>1, <1>6, <3>1, <3>3 DEF Room, CountInv
  <2> QED
    BY <1>1, <1>4, <2>3, <2>5, <2>6 DEF RoomInv
<1>7. CASE TestInUse(u) /\ ~(inUse <= MaxOpen)
  <2>1. /\ pc[u] = "test" /\ pc' = [pc EXCEPT ![u] = "open"] /\ available' = available
        /\ overshot' = overshot
    BY <1>7 DEF TestInUse, Goto, fields
  <2>2. Holders' = Holders /\ \A v \in Users : pc'[v] = "test" => pc[v] = "test"
    BY <1>0, <2>1 DEF Holders, TypeOK
  <2> QED
    BY <2>1, <2>2 DEF RoomInv, Room
<1> QED
  BY <1>5, <1>6, <1>7

\* An object that a user no longer holds is available again or outdated.
LEMMA UserKeepsObjects ==
  ASSUME PoolInv, ~raced, KeptInv, NEW u \in Users, Open(u) \/ Progress(u), ~raced'
  PROVE  KeptInv'
<1>0. TypeOK /\ ReadInv /\ FreshInv /\ HeadInv
  BY DEF PoolInv, ObjectInv
<1>1. CASE Open(u) \/ Try(u) \/ TestInUse(u) \/ CountTaken(u) \/ LookAvailable(u) \/ FactoryFails(u)
             \/ CountCreated(u) \/ Opened(u) \/ StartIdle(u) \/ LookInUse(u) \/ Closed(u)
  <2>1. UNCHANGED <<available, made, outdated>>
    BY <1>1 DEF Open, Try, TestInUse, CountTaken, LookAvailable, FactoryFails, CountCreated, Opened, StartIdle, LookInUse,
                Closed, Write, fields
  <2>2. \A v \in Owners : v \in Owners' /\ object'[v] = object[v]
    BY <1>0, <1>1 DEF Open, Try, TestInUse, CountTaken, LookAvailable, FactoryFails, CountCreated, Opened, StartIdle, LookInUse,
                Closed, Write, Goto, Owners, TypeOK
  <2> QED
    BY <2>1, <2>2 DEF KeptInv
<1>2. CASE Take(u)
  <2>1. /\ pc[u] = "take" /\ pc' = [pc EXCEPT ![u] = "opened"] /\ UNCHANGED <<made, outdated, object>>
        /\ available' = Tail(available) /\ available # <<>> /\ object[u] = available[1]
    BY <1>0, <1>2 DEF Take, Write, Goto, FreshInv, HeadInv
  <2>2. Owners' = Owners \cup {u}
    BY <1>0, <2>1 DEF Owners, TypeOK
  <2>3. \A o \in ToSet(available) : o = available[1] \/ o \in ToSet(available')
    <3>1. /\ Len(available') = Len(available) - 1 /\ Len(available) \in Nat
          /\ \A i \in 1 .. Len(available') : available'[i] = available[i + 1]
      BY <1>0, <2>1 DEF TypeOK
    <3>2. ASSUME NEW i \in 1 .. Len(available), i # 1
          PROVE  i - 1 \in 1 .. Len(available') /\ available'[i - 1] = available[i]
      BY <3>1, <3>2
    <3> QED
      BY <3>1, <3>2 DEF ToSet
  <2> QED
    BY <2>1, <2>2, <2>3 DEF KeptInv
<1>3. CASE Factory(u)
  <2>1. /\ pc[u] = "factory" /\ pc' = [pc EXCEPT ![u] = "create"] /\ UNCHANGED <<available, outdated>>
        /\ made' = made + 1 /\ object' = [object EXCEPT ![u] = made + 1]
    BY <1>3 DEF Factory, Goto, fields
  <2>2. /\ Owners' = Owners \cup {u} /\ object'[u] = made + 1
        /\ \A v \in Owners : object'[v] = object[v]
    BY <1>0, <2>1 DEF Owners, TypeOK
  <2>3. \A o \in 1 .. made' : o \in 1 .. made \/ o = made + 1
    BY <1>0, <2>1 DEF TypeOK
  <2> QED
    BY <2>1, <2>2, <2>3 DEF KeptInv
<1>4. CASE PoolClose(u)
  <2>1. pc[u] = "using" /\ UNCHANGED <<available, made, outdated, object>>
    BY <1>4 DEF PoolClose, fields
  <2>2. \A v \in Owners : v \in Owners' \/ (v = u /\ object[v] \in outdated)
    BY <1>0, <1>4 DEF PoolClose, Goto, Owners, TypeOK
  <2> QED
    BY <2>1, <2>2 DEF KeptInv
<1>5. CASE AppendAvailable(u)
  <2>1. /\ pc[u] = "append" /\ pc' = [pc EXCEPT ![u] = "stamp"] /\ UNCHANGED <<made, outdated, object>>
        /\ available' = Append(available, object[u]) /\ object[u] \in Nat
    BY <1>0, <1>5 DEF AppendAvailable, Write, Goto, FreshInv, ReadInv
  <2>2. Owners' = Owners \ {u}
    BY <1>0, <2>1 DEF Owners, TypeOK
  <2>3. ToSet(available) \cup {object[u]} \subseteq ToSet(available')
    <3>1. /\ Len(available') = Len(available) + 1 /\ Len(available) \in Nat
          /\ \A i \in 1 .. Len(available) : available'[i] = available[i]
          /\ available'[Len(available')] = object[u]
      BY <1>0, <2>1 DEF TypeOK
    <3> QED
      BY <3>1 DEF ToSet
  <2> QED
    BY <2>1, <2>2, <2>3 DEF KeptInv
<1> QED
  BY <1>1, <1>2, <1>3, <1>4, <1>5 DEF Progress

LEMMA NextKeepsCounts ==
  ASSUME PoolInv, ~raced => CountInv /\ RoomInv /\ KeptInv, [Next]_vars
  PROVE  (~raced => CountInv /\ RoomInv /\ KeptInv)'
<1>1. CASE Clean \/ CleanerStops \/ UNCHANGED vars
  <2>1. /\ UNCHANGED <<available, inUse, made, pc, object, read, raced, overshot>>
        /\ outdated \subseteq outdated'
    BY <1>1 DEF Clean, CleanerStops, vars, fields
  <2>2. Counted' = Counted /\ Holders' = Holders /\ Owners' = Owners
    BY <2>1 DEF Counted, Holders, Owners
  <2>3. CountInv => CountInv'
    BY <2>1, <2>2 DEF CountInv
  <2>4. RoomInv => RoomInv'
    BY <2>1, <2>2 DEF RoomInv, Room
  <2>5. KeptInv => KeptInv'
    BY <2>1, <2>2 DEF KeptInv
  <2> QED
    BY <2>1, <2>3, <2>4, <2>5
<1>2. ASSUME NEW u \in Users, Open(u) \/ Progress(u), ~raced'
      PROVE  (CountInv /\ RoomInv /\ KeptInv)'
  <2>1. ~raced
    BY <1>2 DEF Progress, Open, Try, TestInUse, CountTaken, LookAvailable, Take, Factory, FactoryFails, CountCreated, Opened,
                PoolClose, AppendAvailable, StartIdle, LookInUse, Closed, Write
  <2>2. CountInv'
    BY <1>2, <2>1, UserKeepsCounts
  <2>3. RoomInv'
    BY <1>2, <2>1, UserKeepsRoom
  <2>4. KeptInv'
    BY <1>2, <2>1, UserKeepsObjects
  <2> QED
    BY <2>2, <2>3, <2>4
<1> QED
  BY <1>1, <1>2 DEF Next

\* As long as no field was written between a read and a write of another
\* goroutine, there are never more objects that a user has or can get than there
\* are users, and at most maxOpen + 1 unless an Open made one although one had
\* become available; no object is forgotten, and inUse is 0 when nobody has one.
THEOREM ObjectsAreBounded == Spec => []Bounded
<1>1. ASSUME PoolInv, CountInv, RoomInv, KeptInv
      PROVE  /\ InPool <= Cardinality(Users)
             /\ ~overshot => Cardinality(Having) <= MaxOpen + 1 /\ InPool <= MaxOpen + 1
             /\ \A o \in 1 .. made : \/ o \in ToSet(available) \cup outdated
                                     \/ \E u \in Users : object[u] = o
             /\ (\A u \in Users : pc[u] \in {"out", "open", "test"}) => inUse = 0
  <2>0. available \in Seq(Nat) /\ inUse \in Int
    BY <1>1 DEF PoolInv, TypeOK
  <2>1. Having \subseteq Holders /\ Holders \subseteq Users
    BY DEF Having, Holders
  <2>2. IsFiniteSet(Holders) /\ Cardinality(Holders) \in Nat
    BY <2>1, UserSets
  <2>3. \A S : S \subseteq Holders => Cardinality(S) <= Cardinality(Holders) /\ Cardinality(S) \in Nat
    BY <2>2, FS_Subset, FS_CardinalityType
  <2> DEFINE kept == {u \in Having : object[u] \notin outdated}
  <2>4. /\ Cardinality(Having) <= Cardinality(Holders) /\ Cardinality(Having) \in Nat
        /\ Cardinality(kept) <= Cardinality(Holders) /\ Cardinality(kept) \in Nat
    <3>1. kept \subseteq Holders
      BY <2>1
    <3> QED
      BY <2>1, <2>3, <3>1
  <2>5. /\ Len(available) \in Nat /\ Len(available) + Cardinality(Holders) <= Cardinality(Users)
        /\ ~overshot => Len(available) + Cardinality(Holders) <= MaxOpen + 1
    BY <1>1, <2>0 DEF RoomInv, Room
  <2>6. ASSUME \A u \in Users : pc[u] \in {"out", "open", "test"}
        PROVE  inUse = 0
    <3>1. Counted = {}
      BY <2>6 DEF Counted
    <3> QED
      BY <1>1, <3>1, FS_EmptySet DEF CountInv
  <2>7. \A o \in 1 .. made : \/ o \in ToSet(available) \cup outdated
                             \/ \E u \in Users : object[u] = o
    BY <1>1 DEF KeptInv, Owners
  <2> HIDE DEF kept
  <2>8. Cardinality(Users) \in Nat
    BY UserSets
  <2>9. /\ Len(available) + Cardinality(kept) <= Cardinality(Users)
        /\ ~overshot => Cardinality(Having) <= MaxOpen + 1 /\ Len(available) + Cardinality(kept) <= MaxOpen + 1
    BY <2>2, <2>4, <2>5, <2>8, MaxOpenAssumption
  <2> QED
    BY <2>6, <2>7, <2>9 DEF kept, InPool
<1>2. PoolInv /\ (~raced => CountInv /\ RoomInv /\ KeptInv) => Bounded
  BY <1>1 DEF Bounded
<1>3. Init => (~raced => CountInv /\ RoomInv /\ KeptInv)
  BY InitCounts
<1>4. PoolInv /\ (~raced => CountInv /\ RoomInv /\ KeptInv) /\ [Next]_vars => (~raced => CountInv /\ RoomInv /\ KeptInv)'
  BY NextKeepsCounts
<1> QED
  BY PoolInvariant, <1>2, <1>3, <1>4, PTL DEF Spec

-----------------------------------------------------------------------------
(* Promise.                                                                *)

Messages == (Promises \cup {Done}) \X Promises
Received == [kind : {"result", "error"}, value : Promises \cup {Done}, promise : Promises]

\* The results are those of promises that resolved, the errors of promises that
\* rejected or of a context that is done.
Told(st, v, p)         == v = p /\ st[p] = "resolved"
Failed(st, ended, e, p) == (e = p /\ st[p] = "rejected") \/ (e = Done /\ ended)
AllTold(st, chan)      == \A i \in 1 .. Len(chan) : Told(st, chan[i][1], chan[i][2])
AllFailed(st, ended, chan) == \A i \in 1 .. Len(chan) : Failed(st, ended, chan[i][1], chan[i][2])
AllTrue(st, ended, got) ==
  \A i \in 1 .. Len(got) :
    IF got[i].kind = "result" THEN Told(st, got[i].value, got[i].promise)
                              ELSE Failed(st, ended, got[i].value, got[i].promise)

\* The types of the variables.
PromiseTypeOK ==
  /\ combinator \in Combinators
  /\ state \in [Promises -> {"pending", "resolved", "rejected"}]
  /\ done \in BOOLEAN
  /\ then \in [Promises -> BOOLEAN] /\ catch \in [Promises -> BOOLEAN]
  /\ results \in Seq(Messages) /\ errors \in Seq(Messages)
  /\ received \in Seq(Received)
  /\ outcome \in {"pending", "resolved", "rejected"}
  /\ combinator = "RunWaiting" => ~done /\ \A p \in Promises : ~then[p] /\ ~catch[p]

TruthInv == AllTold(state, results) /\ AllFailed(state, done, errors) /\ AllTrue(state, done, received)

In(chan, p)       == \E i \in 1 .. Len(chan) : chan[i][2] = p
Got(got, kind, p) == \E i \in 1 .. Len(got) : got[i].kind = kind /\ got[i].promise = p

\* no promise twice in a channel, nor in what was received of one kind
Once(chan)   == \A i, j \in 1 .. Len(chan) : chan[i][2] = chan[j][2] => i = j
OnceGot(got) == \A i, j \in 1 .. Len(got) : got[i].kind = got[j].kind /\ got[i].promise = got[j].promise => i = j

\* Each promise is in a channel, or was received from it, once at most.
OnceInv ==
  /\ Once(results) /\ Once(errors) /\ OnceGot(received)
  /\ \A p \in Promises :
       /\ In(results, p) => ~Got(received, "result", p) /\ ~then[p]
       /\ In(errors, p) => ~Got(received, "error", p) /\ ~catch[p]
       /\ Got(received, "result", p) => ~then[p]
       /\ Got(received, "error", p) => ~catch[p]

\* what a combinator of promises has received when it is done
OutcomeInv ==
  combinator # "RunWaiting" =>
    /\ outcome = "resolved" => Len(received) = Expected
    /\ combinator \in {"All", "Race"} =>
         /\ outcome # "rejected" => \A i \in 1 .. Len(received) : received[i].kind = "result"
         /\ outcome = "rejected" => Len(received) > 0 /\ received[Len(received)].kind = "error"

\* what RunWaiting finds in its channels
WaitingInv ==
  combinator = "RunWaiting" =>
    /\ \A p \in Promises : state[p] = "resolved" <=> In(results, p)
    /\ \A p \in Promises : state[p] = "rejected" <=> In(errors, p) \/ Got(received, "error", p)
    /\ \A i \in 1 .. Len(received) : received[i].kind = "error"
    /\ outcome = "pending" => received = <<>>
    /\ outcome # "pending" => errors = <<>> /\ \A p \in Promises : state[p] # "pending"

PromiseInv == PromiseTypeOK /\ TruthInv /\ OnceInv /\ OutcomeInv /\ WaitingInv

-----------------------------------------------------------------------------
(* Channels.                                                               *)

LEMMA AppendFacts ==
  ASSUME NEW S, NEW s \in Seq(S), NEW e \in S
  PROVE  /\ Append(s, e) \in Seq(S) /\ Len(Append(s, e)) = Len(s) + 1 /\ Len(s) \in Nat
         /\ Append(s, e)[Len(s) + 1] = e
         /\ \A i \in 1 .. Len(s) : Append(s, e)[i] = s[i]
OBVIOUS

LEMMA AppendSplit ==
  ASSUME NEW S, NEW s \in Seq(S), NEW e \in S
  PROVE  \A i \in 1 .. Len(Append(s, e)) : Append(s, e)[i] = e \/ (i \in 1 .. Len(s) /\ Append(s, e)[i] = s[i])
<1> DEFINE a == Append(s, e)
<1>1. /\ Len(a) = Len(s) + 1 /\ Len(s) \in Nat /\ a[Len(s) + 1] = e
      /\ \A i \in 1 .. Len(s) : a[i] = s[i]
  BY AppendFacts
<1> HIDE DEF a
<1>2. \A i \in 1 .. Len(a) : a[i] = e \/ (i \in 1 .. Len(s) /\ a[i] = s[i])
  BY <1>1
<1> QED
  BY <1>2 DEF a

LEMMA TailFacts ==
  ASSUME NEW S, NEW s \in Seq(S), s # <<>>
  PROVE  /\ Tail(s) \in Seq(S) /\ Len(Tail(s)) = Len(s) - 1 /\ Len(s) \in Nat /\ Len(s) > 0
         /\ \A i \in 1 .. Len(s) - 1 : Tail(s)[i] = s[i + 1]
         /\ Head(s) = s[1] /\ s[1] \in S
OBVIOUS

\* What is sent on a channel, and what is taken from it, is in it once.
LEMMA Sent ==
  ASSUME NEW chan \in Seq(Messages), NEW m \in Messages
  PROVE  /\ \A p \in Promises : In(Append(chan, m), p) <=> In(chan, p) \/ p = m[2]
         /\ Once(chan) /\ ~In(chan, m[2]) => Once(Append(chan, m))
<1> DEFINE a == Append(chan, m)
<1>1. /\ Len(a) = Len(chan) + 1 /\ Len(chan) \in Nat /\ a[Len(chan) + 1] = m
      /\ \A i \in 1 .. Len(chan) : a[i] = chan[i]
  BY AppendFacts
<1> HIDE DEF a
<1>2. \A i \in 1 .. Len(a) : i \in 1 .. Len(chan) \/ i = Len(chan) + 1
  BY <1>1
<1>3. ASSUME NEW p \in Promises
      PROVE  In(a, p) <=> In(chan, p) \/ p = m[2]
  <2>1. Len(chan) + 1 \in 1 .. Len(a) /\ \A i \in 1 .. Len(chan) : i \in 1 .. Len(a)
    BY <1>1
  <2> QED
    BY <1>1, <1>2, <2>1 DEF In
<1>4. ASSUME Once(chan), ~In(chan, m[2]),
             NEW i \in 1 .. Len(a), NEW j \in 1 .. Len(a), a[i][2] = a[j][2]
      PROVE  i = j
  BY <1>1, <1>2, <1>4 DEF In, Once
<1>5. Once(chan) /\ ~In(chan, m[2]) => Once(a)
  BY <1>4 DEF Once
<1> QED
  BY <1>3, <1>5 DEF a

LEMMA Taken ==
  ASSUME NEW chan \in Seq(Messages), chan # <<>>, Once(chan)
  PROVE  /\ \A p \in Promises : In(Tail(chan), p) <=> In(chan, p) /\ p # Head(chan)[2]
         /\ In(chan, Head(chan)[2])
         /\ Once(Tail(chan))
<1> DEFINE t == Tail(chan)
<1>1. /\ Len(t) = Len(chan) - 1 /\ Len(chan) \in Nat /\ Len(chan) > 0 /\ Head(chan) = chan[1]
      /\ \A i \in 1 .. Len(chan) - 1 : t[i] = chan[i + 1]
  BY TailFacts
<1> HIDE DEF t
<1>2. \A i \in 1 .. Len(chan) : i = 1 \/ (i - 1 \in 1 .. Len(t) /\ t[i - 1] = chan[i])
  BY <1>1
<1>3. \A i \in 1 .. Len(t) : i + 1 \in 1 .. Len(chan) /\ i + 1 # 1 /\ t[i] = chan[i + 1]
  BY <1>1
<1>4. 1 \in 1 .. Len(chan)
  BY <1>1
<1>5. ASSUME NEW p \in Promises
      PROVE  In(t, p) <=> In(chan, p) /\ p # Head(chan)[2]
  <2>1. ASSUME In(t, p)
        PROVE  In(chan, p) /\ p # Head(chan)[2]
    <3>1. PICK i \in 1 .. Len(t) : t[i][2] = p
      BY <2>1 DEF In
    <3>2. i + 1 \in 1 .. Len(chan) /\ i + 1 # 1 /\ chan[i + 1][2] = p
      BY <1>3, <3>1
    <3> QED
      BY <1>1, <1>4, <3>2 DEF In, Once
  <2>2. ASSUME In(chan, p), p # Head(chan)[2]
        PROVE  In(t, p)
    <3>1. PICK i \in 1 .. Len(chan) : chan[i][2] = p
      BY <2>2 DEF In
    <3> QED
      BY <1>1, <1>2, <2>2, <3>1 DEF In
  <2> QED
    BY <2>1, <2>2
<1>6. In(chan, Head(chan)[2])
  BY <1>1, <1>4 DEF In
<1>7. ASSUME NEW i \in 1 .. Len(t), NEW j \in 1 .. Len(t), t[i][2] = t[j][2]
      PROVE  i = j
  <2>1. i + 1 = j + 1
    BY <1>3, <1>7 DEF Once
  <2> QED
    BY <2>1
<1>8. Once(t)
  BY <1>7 DEF Once
<1> QED
  BY <1>5, <1>6, <1>8 DEF t

LEMMA GotOneMore ==
  ASSUME NEW got \in Seq(Received), NEW m \in Received
  PROVE  /\ \A kind \in {"result", "error"}, p \in Promises :
              Got(Append(got, m), kind, p) <=> Got(got, kind, p) \/ (m.kind = kind /\ m.promise = p)
         /\ OnceGot(got) /\ ~Got(got, m.kind, m.promise) => OnceGot(Append(got, m))
<1> DEFINE a == Append(got, m)
<1>1. /\ Len(a) = Len(got) + 1 /\ Len(got) \in Nat /\ a[Len(got) + 1] = m
      /\ \A i \in 1 .. Len(got) : a[i] = got[i]
  BY AppendFacts
<1> HIDE DEF a
<1>2. \A i \in 1 .. Len(a) : i \in 1 .. Len(got) \/ i = Len(got) + 1
  BY <1>1
<1>3. Len(got) + 1 \in 1 .. Len(a) /\ \A i \in 1 .. Len(got) : i \in 1 .. Len(a)
  BY <1>1
<1>4. ASSUME NEW kind \in {"result", "error"}, NEW p \in Promises
      PROVE  Got(a, kind, p) <=> Got(got, kind, p) \/ (m.kind = kind /\ m.promise = p)
  BY <1>1, <1>2, <1>3 DEF Got
<1>5. ASSUME OnceGot(got), ~Got(got, m.kind, m.promise),
             NEW i \in 1 .. Len(a), NEW j \in 1 .. Len(a), a[i].kind = a[j].kind, a[i].promise = a[j].promise
      PROVE  i = j
  BY <1>1, <1>2, <1>5 DEF Got, OnceGot
<1>6. OnceGot(got) /\ ~Got(got, m.kind, m.promise) => OnceGot(a)
  BY <1>5 DEF OnceGot
<1> QED
  BY <1>4, <1>6 DEF a

-----------------------------------------------------------------------------
(* What each step sends and receives.                                      *)

LEMMA SettleFacts ==
  ASSUME PromiseTypeOK, NEW p \in Promises, NEW s \in {"resolved", "rejected"}, Settle(p, s)
  PROVE  /\ state[p] = "pending" /\ state' = [state EXCEPT ![p] = s]
         /\ UNCHANGED <<combinator, done, then, catch, received, outcome>>
         /\ combinator # "RunWaiting" => UNCHANGED <<results, errors>>
         /\ combinator = "RunWaiting" /\ s = "resolved" => results' = Append(results, <<p, p>>) /\ errors' = errors
         /\ combinator = "RunWaiting" /\ s = "rejected" => errors' = Append(errors, <<p, p>>) /\ results' = results
BY DEF Settle, channels

LEMMA ThenFacts ==
  ASSUME PromiseTypeOK, NEW p \in Promises, Then(p)
  PROVE  /\ then[p] /\ then' = [then EXCEPT ![p] = FALSE]
         /\ UNCHANGED <<combinator, state, done, catch, errors, received, outcome>>
         /\ \/ results' = results
            \/ results' = Append(results, <<p, p>>) /\ state[p] = "resolved"
<1>1. PICK r \in Await(p) : results' = IF r[2] = Nil THEN Append(results, <<r[1], p>>) ELSE results
  BY DEF Then
<1>2. r[2] = Nil => r[1] = p /\ state[p] = "resolved"
  BY PromisesAssumption DEF Await
<1> QED
  BY <1>1, <1>2 DEF Then

LEMMA CatchFacts ==
  ASSUME PromiseTypeOK, NEW p \in Promises, Catch(p)
  PROVE  /\ catch[p] /\ catch' = [catch EXCEPT ![p] = FALSE]
         /\ UNCHANGED <<combinator, state, done, then, results, received, outcome>>
         /\ \/ errors' = errors
            \/ \E e \in Promises \cup {Done} : errors' = Append(errors, <<e, p>>) /\ Failed(state, done, e, p)
<1>1. PICK r \in Await(p) : errors' = IF r[2] # Nil THEN Append(errors, <<r[2], p>>) ELSE errors
  BY DEF Catch
<1>2. r[2] # Nil => r[2] \in Promises \cup {Done} /\ Failed(state, done, r[2], p)
  BY PromisesAssumption DEF Await, Failed
<1> QED
  BY <1>1, <1>2 DEF Catch

LEMMA ReceiveFacts ==
  ASSUME PromiseTypeOK, Receive
  PROVE  /\ combinator # "RunWaiting" /\ outcome = "pending"
         /\ UNCHANGED <<combinator, state, done, then, catch>>
         /\ \/ /\ results # <<>> /\ results' = Tail(results)
               /\ received' = Append(received, Message("result", Head(results)))
               /\ UNCHANGED <<errors, outcome>>
            \/ /\ errors # <<>> /\ errors' = Tail(errors)
               /\ received' = Append(received, Message("error", Head(errors)))
               /\ outcome' = IF combinator = "Best" THEN outcome ELSE "rejected"
               /\ UNCHANGED results
BY DEF Receive

LEMMA MessageFacts ==
  ASSUME NEW kind \in {"result", "error"}, NEW chan \in Seq(Messages), chan # <<>>
  PROVE  /\ Message(kind, Head(chan)) \in Received
         /\ Message(kind, Head(chan)).kind = kind
         /\ Message(kind, Head(chan)).value = chan[1][1]
         /\ Message(kind, Head(chan)).promise = chan[1][2]
         /\ Head(chan)[2] = chan[1][2] /\ chan[1][2] \in Promises
         /\ 1 \in 1 .. Len(chan)
<1>1. Head(chan) = chan[1] /\ chan[1] \in Messages /\ Len(chan) \in Nat /\ Len(chan) > 0
  BY TailFacts
<1>2. chan[1][1] \in Promises \cup {Done} /\ chan[1][2] \in Promises
  BY <1>1 DEF Messages
<1> QED
  BY <1>1, <1>2 DEF Message, Received

-----------------------------------------------------------------------------
(* The invariant.                                                          *)

LEMMA InitPromise ==
  ASSUME PromiseInit
  PROVE  PromiseInv
<1>1. PromiseTypeOK
  <2>1. then \in [Promises -> BOOLEAN] /\ catch \in [Promises -> BOOLEAN]
    BY DEF PromiseInit
  <2>2. done \in BOOLEAN
    BY DEF PromiseInit
  <2>3. combinator = "RunWaiting" => ~done /\ \A p \in Promises : ~then[p] /\ ~catch[p]
    BY DEF PromiseInit
  <2>4. results \in Seq(Messages) /\ errors \in Seq(Messages) /\ received \in Seq(Received)
    BY DEF PromiseInit
  <2> QED
    BY <2>1, <2>2, <2>3, <2>4 DEF PromiseInit, PromiseTypeOK
<1>2. TruthInv /\ OnceInv
  BY DEF PromiseInit, TruthInv, AllTold, AllFailed, AllTrue, OnceInv, Once, OnceGot, In, Got
<1>3. OutcomeInv
  BY DEF PromiseInit, OutcomeInv
<1>4. WaitingInv
  BY DEF PromiseInit, WaitingInv, In, Got
<1> QED
  BY <1>1, <1>2, <1>3, <1>4 DEF PromiseInv

LEMMA TypesKept ==
  ASSUME PromiseTypeOK, [PromiseNext]_promiseVars
  PROVE  PromiseTypeOK'
<1>1. CASE UNCHANGED promiseVars
  BY <1>1 DEF promiseVars, channels, PromiseTypeOK
<1>2. CASE Cancel
  BY <1>2 DEF Cancel, channels, PromiseTypeOK
<1>3. ASSUME NEW p \in Promises, NEW s \in {"resolved", "rejected"}, Settle(p, s)
      PROVE  PromiseTypeOK'
  <2>1. <<p, p>> \in Messages
    BY DEF Messages
  <2>2. \A chan \in Seq(Messages) : Append(chan, <<p, p>>) \in Seq(Messages)
    BY <2>1, AppendFacts
  <2>3. results' \in {results, Append(results, <<p, p>>)} /\ errors' \in {errors, Append(errors, <<p, p>>)}
    BY <1>3, SettleFacts
  <2>4. results' \in Seq(Messages) /\ errors' \in Seq(Messages)
    BY <2>2, <2>3 DEF PromiseTypeOK
  <2> QED
    BY <1>3, <2>4, SettleFacts DEF PromiseTypeOK
<1>4. ASSUME NEW p \in Promises, Then(p)
      PROVE  PromiseTypeOK'
  <2>1. <<p, p>> \in Messages
    BY DEF Messages
  <2>2. \A chan \in Seq(Messages) : Append(chan, <<p, p>>) \in Seq(Messages)
    BY <2>1, AppendFacts
  <2>3. results' \in {results, Append(results, <<p, p>>)}
    BY <1>4, ThenFacts
  <2>4. results' \in Seq(Messages)
    BY <2>2, <2>3 DEF PromiseTypeOK
  <2> QED
    BY <1>4, <2>4, ThenFacts DEF PromiseTypeOK
<1>5. ASSUME NEW p \in Promises, Catch(p)
      PROVE  PromiseTypeOK'
  <2>1. \A e \in Promises \cup {Done} : <<e, p>> \in Messages
    BY DEF Messages
  <2>2. \A chan \in Seq(Messages) : \A e \in Promises \cup {Done} : Append(chan, <<e, p>>) \in Seq(Messages)
    BY <2>1, AppendFacts
  <2>3. errors' = errors \/ \E e \in Promises \cup {Done} : errors' = Append(errors, <<e, p>>)
    BY <1>5, CatchFacts
  <2>4. errors' \in Seq(Messages)
    BY <2>2, <2>3 DEF PromiseTypeOK
  <2> QED
    BY <1>5, <2>4, CatchFacts DEF PromiseTypeOK
<1>6. CASE Receive
  <2>1. results' \in Seq(Messages) /\ errors' \in Seq(Messages)
    <3>0. results \in Seq(Messages) /\ errors \in Seq(Messages)
      BY DEF PromiseTypeOK
    <3>1. \/ results # <<>> /\ results' = Tail(results) /\ errors' = errors
          \/ errors # <<>> /\ errors' = Tail(errors) /\ results' = results
      BY <1>6, ReceiveFacts, Zenon
    <3>2. results # <<>> => Tail(results) \in Seq(Messages)
      BY <3>0, TailFacts
    <3>3. errors # <<>> => Tail(errors) \in Seq(Messages)
      BY <3>0, TailFacts
    <3> QED
      BY <3>0, <3>1, <3>2, <3>3
  <2>2. received' \in Seq(Received)
    <3>1. \E m \in Received : received' = Append(received, m)
      BY <1>6, ReceiveFacts, MessageFacts DEF PromiseTypeOK
    <3>2. \A m \in Received : Append(received, m) \in Seq(Received)
      BY AppendFacts DEF PromiseTypeOK
    <3> QED
      BY <3>1, <3>2
  <2>3. outcome' \in {"pending", "resolved", "rejected"}
    BY <1>6, ReceiveFacts DEF PromiseTypeOK
  <2> QED
    BY <1>6, <2>1, <2>2, <2>3, ReceiveFacts DEF PromiseTypeOK
<1>7. CASE Resolve
  BY <1>7 DEF Resolve, channels, PromiseTypeOK
<1>8. CASE Waited
  <2>1. received' = [i \in 1 .. Len(errors) |-> Message("error", errors[i])] /\ Len(errors) \in Nat
    BY <1>8 DEF Waited, PromiseTypeOK
  <2>2. \A i \in 1 .. Len(errors) : Message("error", errors[i]) \in Received
    BY DEF PromiseTypeOK, Message, Messages, Received
  <2>3. received' \in Seq(Received)
    BY <2>1, <2>2
  <2>4. errors' \in Seq(Messages) /\ outcome' \in {"resolved", "rejected"}
    BY <1>8 DEF Waited
  <2> QED
    BY <1>8, <2>3, <2>4 DEF Waited, PromiseTypeOK
<1> QED
  BY <1>1, <1>2, <1>3, <1>4, <1>5, <1>6, <1>7, <1>8 DEF PromiseNext, Go

\* What became of a promise, or of the context, stays.
LEMMA FatesStay ==
  ASSUME PromiseTypeOK, [PromiseNext]_promiseVars
  PROVE  /\ \A p \in Promises : state[p] # "pending" => state'[p] = state[p]
         /\ done => done'
         /\ \A v, p \in Promises \cup {Done} : p \in Promises =>
              (Told(state, v, p) => Told(state', v, p)) /\ (Failed(state, done, v, p) => Failed(state', done', v, p))
<1>1. \A p \in Promises : state[p] # "pending" => state'[p] = state[p]
  <2>1. \/ state' = state
        \/ \E p \in Promises, s \in {"resolved", "rejected"} : Settle(p, s)
    BY DEF PromiseNext, Go, promiseVars, Cancel, Then, Catch, Receive, Resolve, Waited
  <2> QED
    BY <2>1, SettleFacts DEF PromiseTypeOK
<1>2. done => done'
  BY DEF PromiseNext, Go, promiseVars, Cancel, Settle, Then, Catch, Receive, Resolve, Waited
<1> QED
  BY <1>1, <1>2 DEF Told, Failed

LEMMA TruthSent ==
  ASSUME NEW st, NEW ended, NEW chan \in Seq(Messages), NEW m \in Messages
  PROVE  /\ AllTold(st, chan) /\ Told(st, m[1], m[2]) => AllTold(st, Append(chan, m))
         /\ AllFailed(st, ended, chan) /\ Failed(st, ended, m[1], m[2]) => AllFailed(st, ended, Append(chan, m))
<1> DEFINE a == Append(chan, m)
<1>1. /\ Len(a) = Len(chan) + 1 /\ Len(chan) \in Nat /\ a[Len(chan) + 1] = m
      /\ \A i \in 1 .. Len(chan) : a[i] = chan[i]
  BY AppendFacts
<1> HIDE DEF a
<1>2. \A i \in 1 .. Len(a) : (i \in 1 .. Len(chan) /\ a[i] = chan[i]) \/ a[i] = m
  BY <1>1
<1>3. AllTold(st, chan) /\ Told(st, m[1], m[2]) => AllTold(st, a)
  BY <1>2 DEF AllTold
<1>4. AllFailed(st, ended, chan) /\ Failed(st, ended, m[1], m[2]) => AllFailed(st, ended, a)
  BY <1>2 DEF AllFailed
<1> QED
  BY <1>3, <1>4 DEF a

LEMMA TruthTaken ==
  ASSUME NEW st, NEW ended, NEW chan \in Seq(Messages), chan # <<>>
  PROVE  /\ AllTold(st, chan) => AllTold(st, Tail(chan)) /\ Told(st, chan[1][1], chan[1][2])
         /\ AllFailed(st, ended, chan) => AllFailed(st, ended, Tail(chan)) /\ Failed(st, ended, chan[1][1], chan[1][2])
<1> DEFINE t == Tail(chan)
<1>1. /\ Len(t) = Len(chan) - 1 /\ Len(chan) \in Nat /\ Len(chan) > 0
      /\ \A i \in 1 .. Len(chan) - 1 : t[i] = chan[i + 1]
  BY TailFacts
<1> HIDE DEF t
<1>2. 1 \in 1 .. Len(chan) /\ \A i \in 1 .. Len(t) : i + 1 \in 1 .. Len(chan) /\ t[i] = chan[i + 1]
  BY <1>1
<1>3. AllTold(st, chan) => AllTold(st, t) /\ Told(st, chan[1][1], chan[1][2])
  BY <1>2 DEF AllTold
<1>4. AllFailed(st, ended, chan) => AllFailed(st, ended, t) /\ Failed(st, ended, chan[1][1], chan[1][2])
  BY <1>2 DEF AllFailed
<1> QED
  BY <1>3, <1>4 DEF t

LEMMA TruthReceived ==
  ASSUME NEW st, NEW ended, NEW got \in Seq(Received), NEW m \in Received, AllTrue(st, ended, got),
         IF m.kind = "result" THEN Told(st, m.value, m.promise) ELSE Failed(st, ended, m.value, m.promise)
  PROVE  AllTrue(st, ended, Append(got, m))
<1> DEFINE a == Append(got, m)
<1>1. /\ Len(a) = Len(got) + 1 /\ Len(got) \in Nat /\ a[Len(got) + 1] = m
      /\ \A i \in 1 .. Len(got) : a[i] = got[i]
  BY AppendFacts
<1> HIDE DEF a
<1>2. \A i \in 1 .. Len(a) : (i \in 1 .. Len(got) /\ a[i] = got[i]) \/ a[i] = m
  BY <1>1
<1>3. AllTrue(st, ended, a)
  BY <1>2 DEF AllTrue
<1> QED
  BY <1>3 DEF a

LEMMA TruthKept ==
  ASSUME PromiseTypeOK, TruthInv, [PromiseNext]_promiseVars
  PROVE  TruthInv'
<1>1. AllTold(state', results) /\ AllFailed(state', done', errors) /\ AllTrue(state', done', received)
  <2>1. \A i \in 1 .. Len(results) : results[i][1] \in Promises \cup {Done} /\ results[i][2] \in Promises
    BY DEF PromiseTypeOK, Messages
  <2>2. \A i \in 1 .. Len(errors) : errors[i][1] \in Promises \cup {Done} /\ errors[i][2] \in Promises
    BY DEF PromiseTypeOK, Messages
  <2>3. \A i \in 1 .. Len(received) : received[i].value \in Promises \cup {Done} /\ received[i].promise \in Promises
    <3>1. \A i \in 1 .. Len(received) : received[i] \in Received
      BY DEF PromiseTypeOK
    <3>2. \A m \in Received : m.value \in Promises \cup {Done} /\ m.promise \in Promises
      BY DEF Received
    <3> QED
      BY <3>1, <3>2
  <2>4. \A v, p \in Promises \cup {Done} : p \in Promises =>
          (Told(state, v, p) => Told(state', v, p)) /\ (Failed(state, done, v, p) => Failed(state', done', v, p))
    BY FatesStay
  <2>5. AllTold(state', results)
    BY <2>1, <2>4 DEF TruthInv, AllTold
  <2>6. AllFailed(state', done', errors)
    BY <2>2, <2>4 DEF TruthInv, AllFailed
  <2>7. AllTrue(state', done', received)
    BY <2>3, <2>4 DEF TruthInv, AllTrue
  <2> QED
    BY <2>5, <2>6, <2>7
<1>2. results \in Seq(Messages) /\ errors \in Seq(Messages) /\ received \in Seq(Received)
  BY DEF PromiseTypeOK
<1>3. CASE UNCHANGED channels /\ received' = received
  BY <1>1, <1>3 DEF TruthInv, channels
<1>4. ASSUME NEW p \in Promises, NEW s \in {"resolved", "rejected"}, Settle(p, s)
      PROVE  TruthInv'
  <2>1. <<p, p>> \in Messages /\ <<p, p>>[1] = p /\ <<p, p>>[2] = p
    BY DEF Messages
  <2>2. (s = "resolved" => Told(state', p, p)) /\ (s = "rejected" => Failed(state', done', p, p))
    BY <1>4, SettleFacts DEF PromiseTypeOK, Told, Failed
  <2>3. received' = received
    BY <1>4, SettleFacts
  <2>4. CASE combinator # "RunWaiting"
    BY <1>1, <1>4, <2>3, <2>4, SettleFacts DEF TruthInv
  <2>5. CASE combinator = "RunWaiting" /\ s = "resolved"
    <3>1. results' = Append(results, <<p, p>>) /\ errors' = errors
      BY <1>4, <2>5, SettleFacts
    <3>2. AllTold(state', results')
      BY <1>1, <1>2, <2>1, <2>2, <2>5, <3>1, TruthSent
    <3> QED
      BY <1>1, <2>3, <3>1, <3>2 DEF TruthInv
  <2>6. CASE combinator = "RunWaiting" /\ s = "rejected"
    <3>1. errors' = Append(errors, <<p, p>>) /\ results' = results
      BY <1>4, <2>6, SettleFacts
    <3>2. AllFailed(state', done', errors')
      BY <1>1, <1>2, <2>1, <2>2, <2>6, <3>1, TruthSent
    <3> QED
      BY <1>1, <2>3, <3>1, <3>2 DEF TruthInv
  <2> QED
    BY <2>4, <2>5, <2>6
<1>5. ASSUME NEW p \in Promises, Then(p)
      PROVE  TruthInv'
  <2>1. <<p, p>> \in Messages /\ <<p, p>>[1] = p /\ <<p, p>>[2] = p
    BY DEF Messages
  <2>2. UNCHANGED <<errors, received, state>>
    BY <1>5, ThenFacts
  <2>3. AllTold(state', results')
    <3>1. CASE results' = results
      BY <1>1, <3>1
    <3>2. CASE results' = Append(results, <<p, p>>) /\ state[p] = "resolved"
      <4>1. Told(state', p, p)
        BY <2>2, <3>2 DEF Told
      <4> QED
        BY <1>1, <1>2, <2>1, <3>2, <4>1, TruthSent
    <3> QED
      BY <1>5, <3>1, <3>2, ThenFacts
  <2> QED
    BY <1>1, <2>2, <2>3 DEF TruthInv
<1>6. ASSUME NEW p \in Promises, Catch(p)
      PROVE  TruthInv'
  <2>1. UNCHANGED <<results, received, state, done>>
    BY <1>6, CatchFacts
  <2>2. AllFailed(state', done', errors')
    <3>1. CASE errors' = errors
      BY <1>1, <3>1
    <3>2. ASSUME NEW e \in Promises \cup {Done}, errors' = Append(errors, <<e, p>>), Failed(state, done, e, p)
          PROVE  AllFailed(state', done', errors')
      <4>1. Failed(state', done', e, p)
        BY <2>1, <3>2 DEF Failed
      <4>2. <<e, p>> \in Messages /\ <<e, p>>[1] = e /\ <<e, p>>[2] = p
        BY DEF Messages
      <4> QED
        BY <1>1, <1>2, <3>2, <4>1, <4>2, TruthSent
    <3> QED
      BY <1>6, <3>1, <3>2, CatchFacts
  <2> QED
    BY <1>1, <2>1, <2>2 DEF TruthInv
<1>7. CASE Receive
  <2>1. CASE /\ results # <<>> /\ results' = Tail(results) /\ errors' = errors
             /\ received' = Append(received, Message("result", Head(results)))
    <3>1. PICK m \in Received : /\ m = Message("result", Head(results))
                                /\ m.kind = "result" /\ m.value = results[1][1] /\ m.promise = results[1][2]
      BY <1>2, <2>1, MessageFacts
    <3>2. AllTold(state', results') /\ Told(state', m.value, m.promise)
      BY <1>1, <1>2, <2>1, <3>1, TruthTaken
    <3>3. AllTrue(state', done', received')
      BY <1>1, <1>2, <2>1, <3>1, <3>2, TruthReceived
    <3> QED
      BY <1>1, <2>1, <3>2, <3>3 DEF TruthInv
  <2>2. CASE /\ errors # <<>> /\ errors' = Tail(errors) /\ results' = results
             /\ received' = Append(received, Message("error", Head(errors)))
    <3>1. PICK m \in Received : /\ m = Message("error", Head(errors))
                                /\ m.kind = "error" /\ m.value = errors[1][1] /\ m.promise = errors[1][2]
      BY <1>2, <2>2, MessageFacts
    <3>2. AllFailed(state', done', errors') /\ Failed(state', done', m.value, m.promise)
      BY <1>1, <1>2, <2>2, <3>1, TruthTaken
    <3>3. AllTrue(state', done', received')
      BY <1>1, <1>2, <2>2, <3>1, <3>2, TruthReceived
    <3> QED
      BY <1>1, <2>2, <3>2, <3>3 DEF TruthInv
  <2> QED
    BY <1>7, <2>1, <2>2, ReceiveFacts
<1>8. CASE Waited
  <2>1. /\ received' = [i \in 1 .. Len(errors) |-> Message("error", errors[i])] /\ Len(errors) \in Nat
        /\ results' = results /\ errors' = <<>>
    BY <1>8 DEF Waited, PromiseTypeOK
  <2>2. Len(received') = Len(errors) /\ \A i \in 1 .. Len(errors) : received'[i] = Message("error", errors[i])
    BY <2>1
  <2>3. AllTrue(state', done', received')
    <3>1. \A m : Message("error", m).kind = "error" /\ Message("error", m).value = m[1] /\ Message("error", m).promise = m[2]
      BY DEF Message
    <3>2. \A i \in 1 .. Len(errors) : Failed(state', done', errors[i][1], errors[i][2])
      BY <1>1 DEF AllFailed
    <3> QED
      BY <2>2, <3>1, <3>2 DEF AllTrue
  <2>4. AllFailed(state', done', errors')
    BY <2>1 DEF AllFailed
  <2> QED
    BY <1>1, <2>1, <2>3, <2>4 DEF TruthInv
<1> QED
  BY <1>3, <1>4, <1>5, <1>6, <1>7, <1>8 DEF PromiseNext, Go, promiseVars, channels, Cancel, Resolve

\* A promise whose goroutine sends is not in the channel yet.
LEMMA ResultSent ==
  ASSUME PromiseTypeOK, OnceInv, NEW p \in Promises, NEW r \in Promises \cup {Done},
         ~In(results, p), ~Got(received, "result", p), ~then'[p], results' = Append(results, <<r, p>>),
         UNCHANGED <<errors, received, catch>>, \A q \in Promises : then'[q] => then[q]
  PROVE  OnceInv'
<1>1. results \in Seq(Messages) /\ <<r, p>> \in Messages /\ <<r, p>>[2] = p
  BY DEF PromiseTypeOK, Messages
<1>2. (\A q \in Promises : In(results', q) <=> In(results, q) \/ q = p) /\ Once(results')
  BY <1>1, Sent DEF OnceInv
<1> QED
  BY <1>2 DEF OnceInv

LEMMA ErrorSent ==
  ASSUME PromiseTypeOK, OnceInv, NEW p \in Promises, NEW e \in Promises \cup {Done},
         ~In(errors, p), ~Got(received, "error", p), ~catch'[p], errors' = Append(errors, <<e, p>>),
         UNCHANGED <<results, received, then>>, \A q \in Promises : catch'[q] => catch[q]
  PROVE  OnceInv'
<1>1. errors \in Seq(Messages) /\ <<e, p>> \in Messages /\ <<e, p>>[2] = p
  BY DEF PromiseTypeOK, Messages
<1>2. (\A q \in Promises : In(errors', q) <=> In(errors, q) \/ q = p) /\ Once(errors')
  BY <1>1, Sent DEF OnceInv
<1> QED
  BY <1>2 DEF OnceInv

LEMMA OnceKept ==
  ASSUME PromiseTypeOK, OnceInv, WaitingInv, [PromiseNext]_promiseVars
  PROVE  OnceInv'
<1>0. results \in Seq(Messages) /\ errors \in Seq(Messages) /\ received \in Seq(Received)
  BY DEF PromiseTypeOK
<1>1. CASE UNCHANGED <<channels, received, then, catch>>
  BY <1>1 DEF OnceInv, channels
<1>2. ASSUME NEW p \in Promises, NEW s \in {"resolved", "rejected"}, Settle(p, s)
      PROVE  OnceInv'
  <2>1. CASE combinator # "RunWaiting"
    BY <1>1, <1>2, <2>1, SettleFacts DEF channels
  <2>2. CASE combinator = "RunWaiting"
    <3>1. ~then[p] /\ ~catch[p] /\ UNCHANGED <<then, catch, received>>
      BY <1>2, <2>2, SettleFacts DEF PromiseTypeOK
    <3>2. ~In(results, p) /\ ~In(errors, p) /\ ~Got(received, "error", p) /\ ~Got(received, "result", p)
      BY <1>2, <2>2, SettleFacts DEF WaitingInv, Got
    <3>3. CASE s = "resolved"
      BY <1>2, <2>2, <3>1, <3>2, <3>3, SettleFacts, ResultSent
    <3>4. CASE s = "rejected"
      BY <1>2, <2>2, <3>1, <3>2, <3>4, SettleFacts, ErrorSent
    <3> QED
      BY <3>3, <3>4
  <2> QED
    BY <2>1, <2>2
<1>3. ASSUME NEW p \in Promises, Then(p)
      PROVE  OnceInv'
  <2>1. /\ then[p] /\ ~then'[p] /\ (\A q \in Promises : then'[q] => then[q])
        /\ UNCHANGED <<errors, received, catch>>
    BY <1>3, ThenFacts DEF PromiseTypeOK
  <2>2. ~In(results, p) /\ ~Got(received, "result", p)
    BY <2>1 DEF OnceInv
  <2>3. CASE results' = results
    BY <2>1, <2>3 DEF OnceInv
  <2>4. CASE results' = Append(results, <<p, p>>)
    BY <2>1, <2>2, <2>4, ResultSent
  <2> QED
    BY <1>3, <2>3, <2>4, ThenFacts
<1>4. ASSUME NEW p \in Promises, Catch(p)
      PROVE  OnceInv'
  <2>1. /\ catch[p] /\ ~catch'[p] /\ (\A q \in Promises : catch'[q] => catch[q])
        /\ UNCHANGED <<results, received, then>>
    BY <1>4, CatchFacts DEF PromiseTypeOK
  <2>2. ~In(errors, p) /\ ~Got(received, "error", p)
    BY <2>1 DEF OnceInv
  <2>3. CASE errors' = errors
    BY <2>1, <2>3 DEF OnceInv
  <2>4. ASSUME NEW e \in Promises \cup {Done}, errors' = Append(errors, <<e, p>>)
        PROVE  OnceInv'
    BY <2>1, <2>2, <2>4, ErrorSent
  <2> QED
    BY <1>4, <2>3, <2>4, CatchFacts
<1>5. CASE Receive
  <2>1. CASE /\ results # <<>> /\ results' = Tail(results) /\ UNCHANGED <<errors, then, catch>>
             /\ received' = Append(received, Message("result", Head(results)))
    <3>1. PICK m \in Received : /\ m = Message("result", Head(results)) /\ m.kind = "result"
                                /\ m.promise = Head(results)[2] /\ m.promise \in Promises
      BY <1>0, <2>1, MessageFacts
    <3>2. /\ \A p \in Promises : In(results', p) <=> In(results, p) /\ p # m.promise
          /\ In(results, m.promise) /\ Once(results')
      BY <1>0, <2>1, <3>1, Taken DEF OnceInv
    <3>3. /\ \A kind \in {"result", "error"}, p \in Promises :
               Got(received', kind, p) <=> Got(received, kind, p) \/ (m.kind = kind /\ m.promise = p)
          /\ OnceGot(received')
      BY <1>0, <2>1, <3>1, <3>2, GotOneMore DEF OnceInv
    <3>4. ASSUME NEW p \in Promises
          PROVE  /\ In(results', p) => ~Got(received', "result", p) /\ ~then'[p]
                 /\ In(errors', p) => ~Got(received', "error", p) /\ ~catch'[p]
                 /\ Got(received', "result", p) => ~then'[p]
                 /\ Got(received', "error", p) => ~catch'[p]
      BY <2>1, <3>1, <3>2, <3>3 DEF OnceInv
    <3> QED
      BY <2>1, <3>2, <3>3, <3>4 DEF OnceInv
  <2>2. CASE /\ errors # <<>> /\ errors' = Tail(errors) /\ UNCHANGED <<results, then, catch>>
             /\ received' = Append(received, Message("error", Head(errors)))
    <3>1. PICK m \in Received : /\ m = Message("error", Head(errors)) /\ m.kind = "error"
                                /\ m.promise = Head(errors)[2] /\ m.promise \in Promises
      BY <1>0, <2>2, MessageFacts
    <3>2. /\ \A p \in Promises : In(errors', p) <=> In(errors, p) /\ p # m.promise
          /\ In(errors, m.promise) /\ Once(errors')
      BY <1>0, <2>2, <3>1, Taken DEF OnceInv
    <3>3. /\ \A kind \in {"result", "error"}, p \in Promises :
               Got(received', kind, p) <=> Got(received, kind, p) \/ (m.kind = kind /\ m.promise = p)
          /\ OnceGot(received')
      BY <1>0, <2>2, <3>1, <3>2, GotOneMore DEF OnceInv
    <3>4. ASSUME NEW p \in Promises
          PROVE  /\ In(results', p) => ~Got(received', "result", p) /\ ~then'[p]
                 /\ In(errors', p) => ~Got(received', "error", p) /\ ~catch'[p]
                 /\ Got(received', "result", p) => ~then'[p]
                 /\ Got(received', "error", p) => ~catch'[p]
      BY <2>2, <3>1, <3>2, <3>3 DEF OnceInv
    <3> QED
      BY <2>2, <3>2, <3>3, <3>4 DEF OnceInv
  <2> QED
    BY <1>5, <2>1, <2>2, ReceiveFacts
<1>6. CASE Waited
  <2>1. /\ received' = [i \in 1 .. Len(errors) |-> Message("error", errors[i])] /\ Len(errors) \in Nat
        /\ errors' = <<>> /\ UNCHANGED <<results, then, catch>>
        /\ combinator = "RunWaiting"
    BY <1>6 DEF Waited, PromiseTypeOK
  <2>2. Len(received') = Len(errors) /\ \A i \in 1 .. Len(errors) : received'[i] = Message("error", errors[i])
    BY <2>1
  <2>3. \A m : Message("error", m).kind = "error" /\ Message("error", m).promise = m[2]
    BY DEF Message
  <2>4. \A i \in 1 .. Len(received') : received'[i].kind = "error" /\ received'[i].promise = errors[i][2]
    BY <2>2, <2>3
  <2>5. OnceGot(received')
    BY <2>2, <2>4 DEF OnceInv, Once, OnceGot
  <2>6. \A p \in Promises : ~Got(received', "result", p) /\ (Got(received', "error", p) => In(errors, p))
    BY <2>2, <2>4 DEF Got, In
  <2>7. Once(errors') /\ \A p \in Promises : ~In(errors', p)
    BY <2>1 DEF Once, In
  <2> QED
    BY <2>1, <2>5, <2>6, <2>7 DEF OnceInv
<1> QED
  BY <1>1, <1>2, <1>3, <1>4, <1>5, <1>6 DEF PromiseNext, Go, promiseVars, channels, Cancel, Resolve

LEMMA OutcomeKept ==
  ASSUME PromiseTypeOK, OutcomeInv, [PromiseNext]_promiseVars
  PROVE  OutcomeInv'
<1>0. received \in Seq(Received) /\ results \in Seq(Messages) /\ errors \in Seq(Messages)
  BY DEF PromiseTypeOK
<1>1. CASE UNCHANGED <<combinator, received, outcome>>
  BY <1>1 DEF OutcomeInv, Expected
<1>2. CASE Receive
  <2>1. ASSUME NEW m \in Received, received' = Append(received, m)
        PROVE  /\ Len(received') = Len(received) + 1 /\ Len(received) \in Nat /\ received'[Len(received) + 1] = m
               /\ \A i \in 1 .. Len(received') : received'[i] = m \/ (i \in 1 .. Len(received) /\ received'[i] = received[i])
    <3> DEFINE a == Append(received, m)
    <3>1. Len(a) = Len(received) + 1 /\ Len(received) \in Nat /\ a[Len(received) + 1] = m
      BY <1>0, AppendFacts
    <3>2. \A i \in 1 .. Len(a) : a[i] = m \/ (i \in 1 .. Len(received) /\ a[i] = received[i])
      BY <1>0, AppendSplit
    <3>3. received' = a
      BY <2>1
    <3> HIDE DEF a
    <3> QED
      BY <3>1, <3>2, <3>3
  <2>2. CASE /\ results # <<>> /\ UNCHANGED <<combinator, outcome>>
             /\ received' = Append(received, Message("result", Head(results)))
    <3>1. PICK m \in Received : m = Message("result", Head(results)) /\ m.kind = "result"
      BY <1>0, <2>2, MessageFacts
    <3>2. outcome = "pending"
      BY <1>2, ReceiveFacts
    <3> QED
      BY <2>1, <2>2, <3>1, <3>2 DEF OutcomeInv
  <2>3. CASE /\ errors # <<>> /\ UNCHANGED combinator
             /\ outcome' = IF combinator = "Best" THEN outcome ELSE "rejected"
             /\ received' = Append(received, Message("error", Head(errors)))
    <3>1. PICK m \in Received : m = Message("error", Head(errors)) /\ m.kind = "error"
      BY <1>0, <2>3, MessageFacts
    <3>2. outcome = "pending"
      BY <1>2, ReceiveFacts
    <3>3. received'[Len(received')].kind = "error" /\ Len(received') > 0
      BY <2>1, <2>3, <3>1
    <3> QED
      BY <2>3, <3>2, <3>3 DEF OutcomeInv
  <2> QED
    BY <1>2, <2>2, <2>3, ReceiveFacts
<1>3. CASE Resolve
  BY <1>3 DEF Resolve, OutcomeInv, Expected
<1>4. CASE Waited
  BY <1>4 DEF Waited, OutcomeInv
<1> QED
  BY <1>1, <1>2, <1>3, <1>4, SettleFacts DEF PromiseNext, Go, promiseVars, Cancel, Settle, Then, Catch

LEMMA WaitingKept ==
  ASSUME PromiseTypeOK, WaitingInv, [PromiseNext]_promiseVars
  PROVE  WaitingInv'
<1> SUFFICES ASSUME combinator' = "RunWaiting"
             PROVE  WaitingInv'
  BY DEF WaitingInv
<1>0. combinator = "RunWaiting" /\ results \in Seq(Messages) /\ errors \in Seq(Messages) /\ \A p \in Promises : ~then[p] /\ ~catch[p]
  BY DEF PromiseTypeOK, PromiseNext, Go, promiseVars, Cancel, Settle, Then, Catch, Receive, Resolve, Waited
<1>1. CASE UNCHANGED promiseVars
  BY <1>1 DEF WaitingInv, promiseVars, channels
<1>2. ASSUME NEW p \in Promises, NEW s \in {"resolved", "rejected"}, Settle(p, s)
      PROVE  WaitingInv'
  <2>1. state[p] = "pending" /\ state' = [state EXCEPT ![p] = s] /\ UNCHANGED <<received, outcome>>
    BY <1>2, SettleFacts
  <2>2. <<p, p>> \in Messages /\ <<p, p>>[2] = p
    BY DEF Messages
  <2>3. /\ \A q \in Promises : In(results', q) <=> In(results, q) \/ (q = p /\ s = "resolved")
        /\ \A q \in Promises : In(errors', q) <=> In(errors, q) \/ (q = p /\ s = "rejected")
    <3>1. CASE s = "resolved"
      <4>1. results' = Append(results, <<p, p>>) /\ errors' = errors
        BY <1>0, <1>2, <3>1, SettleFacts
      <4> QED
        BY <1>0, <2>2, <3>1, <4>1, Sent
    <3>2. CASE s = "rejected"
      <4>1. errors' = Append(errors, <<p, p>>) /\ results' = results
        BY <1>0, <1>2, <3>2, SettleFacts
      <4> QED
        BY <1>0, <2>2, <3>2, <4>1, Sent
    <3> QED
      BY <3>1, <3>2
  <2>4. outcome = "pending" /\ received = <<>>
    BY <1>0, <2>1 DEF WaitingInv, PromiseTypeOK
  <2>5. \A q \in Promises : state'[q] = IF q = p THEN s ELSE state[q]
    BY <2>1 DEF PromiseTypeOK
  <2> QED
    BY <1>0, <2>1, <2>3, <2>4, <2>5 DEF WaitingInv
<1>3. CASE Waited
  <2>1. /\ received' = [i \in 1 .. Len(errors) |-> Message("error", errors[i])] /\ Len(errors) \in Nat
        /\ errors' = <<>> /\ UNCHANGED <<results, state>> /\ outcome' # "pending"
        /\ (\A p \in Promises : state[p] # "pending") /\ outcome = "pending"
    BY <1>3 DEF Waited, PromiseTypeOK
  <2>2. Len(received') = Len(errors) /\ \A i \in 1 .. Len(errors) : received'[i] = Message("error", errors[i])
    BY <2>1
  <2>3. \A m : Message("error", m).kind = "error" /\ Message("error", m).promise = m[2]
    BY DEF Message
  <2>4. \A i \in 1 .. Len(received') : received'[i].kind = "error" /\ received'[i].promise = errors[i][2]
    BY <2>2, <2>3
  <2>5. \A p \in Promises : (Got(received', "error", p) <=> In(errors, p)) /\ ~In(errors', p)
    BY <2>1, <2>2, <2>4 DEF Got, In
  <2>6. \A p \in Promises : ~Got(received, "error", p)
    BY <1>0, <2>1 DEF WaitingInv, Got
  <2> QED
    BY <1>0, <2>1, <2>4, <2>5, <2>6 DEF WaitingInv
<1> QED
  BY <1>0, <1>1, <1>2, <1>3, ThenFacts, CatchFacts DEF PromiseNext, Go, Cancel, Receive, Resolve

-----------------------------------------------------------------------------
(* Counting.                                                               *)

LEMMA CountDistinct ==
  ASSUME NEW S, IsFiniteSet(S), NEW n \in Nat, NEW f \in [1 .. n -> S],
         \A i, j \in 1 .. n : f[i] = f[j] => i = j
  PROVE  /\ n = Cardinality({x \in S : \E i \in 1 .. n : f[i] = x})
         /\ n = Cardinality(S) => \A x \in S : \E i \in 1 .. n : f[i] = x
<1> DEFINE T == {x \in S : \E i \in 1 .. n : f[i] = x}
<1>1. IsFiniteSet(1 .. n) /\ Cardinality(1 .. n) = n
  BY FS_Interval
<1>2. IsFiniteSet(T)
  BY FS_Subset
<1>3. f \in Injection(1 .. n, T) /\ f \in Surjection(1 .. n, T) /\ f \in Injection(1 .. n, S)
  BY DEF Injection, Surjection, IsInjective
<1>4. Cardinality(1 .. n) = Cardinality(T)
  BY <1>2, <1>3, FS_Injection
<1>5. n = Cardinality(S) => f \in Surjection(1 .. n, S)
  BY <1>1, <1>3, FS_Injection
<1> QED
  BY <1>1, <1>4, <1>5 DEF Surjection

\* A channel that has each promise once is as long as they are many.
LEMMA LengthOfOnce ==
  ASSUME NEW chan \in Seq(Messages), Once(chan)
  PROVE  Len(chan) = Cardinality({p \in Promises : In(chan, p)})
<1> DEFINE f == [i \in 1 .. Len(chan) |-> chan[i][2]]
<1>1. \A i \in 1 .. Len(chan) : chan[i][2] \in Promises
  BY DEF Messages
<1>2. f \in [1 .. Len(chan) -> Promises] /\ Len(chan) \in Nat
  BY <1>1
<1>3. \A i \in 1 .. Len(chan) : f[i] = chan[i][2]
  OBVIOUS
<1> HIDE DEF f
<1>4. \A i, j \in 1 .. Len(chan) : f[i] = f[j] => i = j
  BY <1>3 DEF Once
<1>5. Len(chan) = Cardinality({p \in Promises : \E i \in 1 .. Len(chan) : f[i] = p})
  BY <1>2, <1>4, CountDistinct, PromisesAssumption
<1>6. {p \in Promises : \E i \in 1 .. Len(chan) : f[i] = p} = {p \in Promises : In(chan, p)}
  BY <1>3 DEF In
<1> QED
  BY <1>5, <1>6

\* A message of every promise: as many as there are promises, no two of one.
LEMMA OfEveryPromise ==
  ASSUME NEW got \in Seq(Received),
         \A i, j \in 1 .. Len(got) : got[i].promise = got[j].promise => i = j
  PROVE  /\ Len(got) = Cardinality({p \in Promises : \E i \in 1 .. Len(got) : got[i].promise = p})
         /\ Len(got) = Cardinality(Promises) => \A p \in Promises : \E i \in 1 .. Len(got) : got[i].promise = p
<1> DEFINE f == [i \in 1 .. Len(got) |-> got[i].promise]
<1>1. \A i \in 1 .. Len(got) : got[i].promise \in Promises
  <2>1. \A i \in 1 .. Len(got) : got[i] \in Received
    OBVIOUS
  <2>2. \A m \in Received : m.promise \in Promises
    BY PromisesAssumption DEF Received
  <2> QED
    BY <2>1, <2>2
<1>2. f \in [1 .. Len(got) -> Promises] /\ Len(got) \in Nat
  BY <1>1
<1>3. \A i \in 1 .. Len(got) : f[i] = got[i].promise
  OBVIOUS
<1> HIDE DEF f
<1>4. \A i, j \in 1 .. Len(got) : f[i] = f[j] => i = j
  BY <1>3
<1>5. /\ Len(got) = Cardinality({p \in Promises : \E i \in 1 .. Len(got) : f[i] = p})
      /\ Len(got) = Cardinality(Promises) => \A p \in Promises : \E i \in 1 .. Len(got) : f[i] = p
  <2>1. IsFiniteSet(Promises)
    BY PromisesAssumption
  <2> QED
    <3> DEFINE n == Len(got)
    <3>1. n \in Nat /\ f \in [1 .. n -> Promises] /\ \A i, j \in 1 .. n : f[i] = f[j] => i = j
      BY <1>2, <1>4
    <3> HIDE DEF n
    <3>2. /\ n = Cardinality({p \in Promises : \E i \in 1 .. n : f[i] = p})
          /\ n = Cardinality(Promises) => \A p \in Promises : \E i \in 1 .. n : f[i] = p
      BY <2>1, <3>1, CountDistinct
    <3> QED
      BY <3>2 DEF n
<1>6. {p \in Promises : \E i \in 1 .. Len(got) : f[i] = p}
        = {p \in Promises : \E i \in 1 .. Len(got) : got[i].promise = p}
  BY <1>3
<1> QED
  BY <1>3, <1>5, <1>6

\* What Best keeps of a promise is the one message of a kind, if there is one.
LEMMA KeptFacts ==
  ASSUME received \in Seq(Received), OnceGot(received), NEW kind, NEW p
  PROVE  /\ \A i \in 1 .. Len(received) :
              received[i].kind = kind /\ received[i].promise = p => Kept(kind, p) = received[i].value
         /\ ~Got(received, kind, p) => Kept(kind, p) = Nil
<1> DEFINE of == {i \in DOMAIN received : received[i].kind = kind /\ received[i].promise = p}
<1>0. DOMAIN received = 1 .. Len(received) /\ Len(received) \in Nat
  OBVIOUS
<1>1. Kept(kind, p) = IF of = {} THEN Nil ELSE received[Max(of)].value
  BY DEF Kept
<1>2. ASSUME NEW i \in 1 .. Len(received), received[i].kind = kind, received[i].promise = p
      PROVE  Kept(kind, p) = received[i].value
  <2>1. of = {i}
    BY <1>0, <1>2 DEF OnceGot
  <2>2. Max({i}) = i
    BY <1>0 DEF Max
  <2> QED
    BY <1>1, <2>1, <2>2
<1>3. ASSUME ~Got(received, kind, p)
      PROVE  of = {}
  BY <1>0, <1>3 DEF Got
<1> QED
  BY <1>1, <1>2, <1>3

-----------------------------------------------------------------------------
(* What the combinators say.                                               *)

LEMMA AllFaithful ==
  ASSUME PromiseInv, combinator = "All", outcome = "resolved"
  PROVE  \A p \in Promises : state[p] = "resolved" /\ Kept("result", p) = p
<1>0. received \in Seq(Received) /\ OnceGot(received) /\ AllTrue(state, done, received)
  BY DEF PromiseInv, PromiseTypeOK, OnceInv, TruthInv
<1>1. Len(received) = Cardinality(Promises) /\ \A i \in 1 .. Len(received) : received[i].kind = "result"
  BY DEF PromiseInv, OutcomeInv, Expected
<1>2. \A i, j \in 1 .. Len(received) : received[i].promise = received[j].promise => i = j
  BY <1>0, <1>1 DEF OnceGot
<1> SUFFICES ASSUME NEW p \in Promises
             PROVE  state[p] = "resolved" /\ Kept("result", p) = p
  OBVIOUS
<1>3. PICK i \in 1 .. Len(received) : received[i].promise = p
  BY <1>0, <1>1, <1>2, OfEveryPromise
<1>4. Told(state, received[i].value, p)
  BY <1>0, <1>1, <1>3 DEF AllTrue
<1> QED
  BY <1>0, <1>1, <1>3, <1>4, KeptFacts DEF Told

LEMMA BestFaithful ==
  ASSUME PromiseInv, combinator = "Best", outcome = "resolved", ~done
  PROVE  \A p \in Promises : <<Kept("result", p), Kept("error", p)>> = Fate(p)
<1>0. received \in Seq(Received) /\ OnceGot(received) /\ AllTrue(state, done, received)
  BY DEF PromiseInv, PromiseTypeOK, OnceInv, TruthInv
<1>1. Len(received) = Cardinality(Promises)
  BY DEF PromiseInv, OutcomeInv, Expected
<1>2. \A i \in 1 .. Len(received) : received[i].kind \in {"result", "error"}
  <2>1. \A i \in 1 .. Len(received) : received[i] \in Received
    BY <1>0
  <2> QED
    BY <2>1 DEF Received
<1>3. \A i \in 1 .. Len(received) :
        /\ received[i].value = received[i].promise
        /\ state[received[i].promise] = IF received[i].kind = "result" THEN "resolved" ELSE "rejected"
  BY <1>0 DEF AllTrue, Told, Failed
<1>4. \A i, j \in 1 .. Len(received) : received[i].promise = received[j].promise => i = j
  BY <1>0, <1>2, <1>3 DEF OnceGot
<1> SUFFICES ASSUME NEW p \in Promises
             PROVE  <<Kept("result", p), Kept("error", p)>> = Fate(p)
  OBVIOUS
<1>5. PICK i \in 1 .. Len(received) : received[i].promise = p
  BY <1>0, <1>1, <1>4, OfEveryPromise
<1>6. CASE received[i].kind = "result"
  <2>1. Kept("result", p) = p
    BY <1>0, <1>3, <1>5, <1>6, KeptFacts
  <2>2. ~Got(received, "error", p)
    BY <1>4, <1>5, <1>6 DEF Got
  <2>3. Kept("error", p) = Nil
    BY <1>0, <2>2, KeptFacts
  <2> QED
    BY <1>3, <1>5, <1>6, <2>1, <2>3 DEF Fate
<1>7. CASE received[i].kind = "error"
  <2>1. Kept("error", p) = p
    BY <1>0, <1>3, <1>5, <1>7, KeptFacts
  <2>2. ~Got(received, "result", p)
    BY <1>4, <1>5, <1>7 DEF Got
  <2>3. Kept("result", p) = Nil
    BY <1>0, <2>2, KeptFacts
  <2> QED
    BY <1>3, <1>5, <1>7, <2>1, <2>3 DEF Fate
<1> QED
  BY <1>2, <1>6, <1>7

LEMMA RunFaithful ==
  ASSUME PromiseInv, combinator = "RunWaiting", outcome # "pending"
  PROVE  /\ {m[2] : m \in ToSet(results)} = {p \in Promises : state[p] = "resolved"}
         /\ {m.promise : m \in ToSet(received)} = {p \in Promises : state[p] = "rejected"}
         /\ Len(results) + Len(received) = Cardinality(Promises)
<1>0. /\ results \in Seq(Messages) /\ received \in Seq(Received) /\ Once(results) /\ OnceGot(received)
      /\ state \in [Promises -> {"pending", "resolved", "rejected"}]
  BY DEF PromiseInv, PromiseTypeOK, OnceInv
<1>1. /\ \A p \in Promises : state[p] = "resolved" <=> In(results, p)
      /\ \A p \in Promises : state[p] = "rejected" <=> In(errors, p) \/ Got(received, "error", p)
      /\ \A i \in 1 .. Len(received) : received[i].kind = "error"
      /\ errors = <<>> /\ \A p \in Promises : state[p] # "pending"
  BY DEF PromiseInv, WaitingInv
<1>2. \A p \in Promises : state[p] = "rejected" <=> \E i \in 1 .. Len(received) : received[i].promise = p
  BY <1>1 DEF In, Got
<1>3. \A i \in 1 .. Len(results) : results[i][2] \in Promises
  BY <1>0 DEF Messages
<1>4. \A i \in 1 .. Len(received) : received[i].promise \in Promises
  <2>1. \A i \in 1 .. Len(received) : received[i] \in Received
    BY <1>0
  <2>2. \A m \in Received : m.promise \in Promises
    BY PromisesAssumption DEF Received
  <2> QED
    BY <2>1, <2>2
<1>5. ToSet(results) = {results[i] : i \in 1 .. Len(results)} /\ ToSet(received) = {received[i] : i \in 1 .. Len(received)}
  BY <1>0 DEF ToSet
<1>6. {m[2] : m \in ToSet(results)} = {p \in Promises : state[p] = "resolved"}
  BY <1>1, <1>3, <1>5 DEF In
<1>7. {m.promise : m \in ToSet(received)} = {p \in Promises : state[p] = "rejected"}
  BY <1>2, <1>4, <1>5
<1> DEFINE R == {p \in Promises : state[p] = "resolved"}
           J == {p \in Promises : state[p] = "rejected"}
<1>8. Len(results) = Cardinality(R)
  <2>1. Len(results) = Cardinality({p \in Promises : In(results, p)})
    BY <1>0, LengthOfOnce
  <2>2. {p \in Promises : In(results, p)} = R
    BY <1>1
  <2> QED
    BY <2>1, <2>2
<1>9. Len(received) = Cardinality(J)
  <2>1. \A i, j \in 1 .. Len(received) : received[i].promise = received[j].promise => i = j
    BY <1>0, <1>1 DEF OnceGot
  <2>2. Len(received) = Cardinality({p \in Promises : \E i \in 1 .. Len(received) : received[i].promise = p})
    BY <1>0, <2>1, OfEveryPromise
  <2>3. {p \in Promises : \E i \in 1 .. Len(received) : received[i].promise = p} = J
    BY <1>2
  <2> QED
    BY <2>2, <2>3
<1>10. R \cup J = Promises /\ R \cap J = {} /\ R \subseteq Promises /\ J \subseteq Promises
  BY <1>0, <1>1
<1> HIDE DEF R, J
<1>11. IsFiniteSet(R) /\ IsFiniteSet(J) /\ Cardinality(R) \in Nat /\ Cardinality(J) \in Nat
  BY <1>10, FS_Subset, FS_CardinalityType, PromisesAssumption
<1>12. Cardinality(Promises) = Cardinality(R) + Cardinality(J)
  <2>1. Cardinality(R \cup J) = Cardinality(R) + Cardinality(J) - Cardinality(R \cap J)
    BY <1>11, FS_Union
  <2>2. Cardinality(R \cap J) = 0
    BY <1>10, FS_EmptySet
  <2>3. Cardinality(R \cup J) = Cardinality(Promises)
    BY <1>10
  <2> QED
    BY <1>11, <2>1, <2>2, <2>3
<1> QED
  BY <1>6, <1>7, <1>8, <1>9, <1>12

LEMMA LastFaithful ==
  ASSUME PromiseInv, combinator \in {"All", "Race"}, outcome # "pending"
  PROVE  LET m == Last(received) IN
           /\ outcome = "rejected" <=> m.kind = "error"
           /\ m.value = Done => done
           /\ m.value # Done => state[m.promise] = (IF m.kind = "error" THEN "rejected" ELSE "resolved")
<1>0. received \in Seq(Received) /\ AllTrue(state, done, received) /\ outcome \in {"pending", "resolved", "rejected"}
  BY DEF PromiseInv, PromiseTypeOK, TruthInv
<1>1. Cardinality(Promises) \in Nat /\ Cardinality(Promises) # 0
  BY FS_CardinalityType, FS_EmptySet, PromisesAssumption
<1>2. Len(received) > 0 /\ Len(received) \in Nat
  <2>1. Len(received) \in Nat /\ (outcome = "resolved" \/ outcome = "rejected")
    BY <1>0
  <2>2. outcome = "resolved" => Len(received) = Expected
    BY DEF PromiseInv, OutcomeInv
  <2>3. outcome = "rejected" => Len(received) > 0
    BY DEF PromiseInv, OutcomeInv
  <2>4. Expected = 1 \/ Expected = Cardinality(Promises)
    BY DEF Expected
  <2> QED
    BY <1>1, <2>1, <2>2, <2>3, <2>4
<1>3. Len(received) \in 1 .. Len(received)
  BY <1>2
<1>4. PICK m \in Received : m = received[Len(received)]
  BY <1>0, <1>3
<1>5. outcome = "rejected" <=> m.kind = "error"
  BY <1>0, <1>3, <1>4 DEF PromiseInv, OutcomeInv
<1>6. IF m.kind = "result" THEN Told(state, m.value, m.promise) ELSE Failed(state, done, m.value, m.promise)
  BY <1>0, <1>3, <1>4 DEF AllTrue
<1>7. m.promise \in Promises /\ m.kind \in {"result", "error"} /\ Done \notin Promises
  BY PromisesAssumption DEF Received
<1>8. m.value = Done => done
  BY <1>6, <1>7 DEF Told, Failed
<1>9. m.value # Done => state[m.promise] = (IF m.kind = "error" THEN "rejected" ELSE "resolved")
  BY <1>6, <1>7 DEF Told, Failed
<1> QED
  BY <1>4, <1>5, <1>8, <1>9 DEF Last

\* The channels and what was received hold what became of the promises, each of
\* them once: the inductive invariant of the combinators.
THEOREM PromiseInvariant == PromiseSpec => []PromiseInv
<1>1. PromiseInit => PromiseInv
  BY InitPromise
<1>2. PromiseInv /\ [PromiseNext]_promiseVars => PromiseInv'
  BY TypesKept, TruthKept, OnceKept, OutcomeKept, WaitingKept DEF PromiseInv
<1> QED
  BY <1>1, <1>2, PTL DEF PromiseSpec

\* What All, Race, Best and RunWaiting say is what became of the promises, for
\* any number of them and whatever the order in which they settle (Faithful).
THEOREM CombinatorsFaithful == PromiseSpec => []Faithful
<1>1. PromiseInv => Faithful
  BY AllFaithful, BestFaithful, RunFaithful, LastFaithful DEF Faithful
<1> QED
  BY <1>1, PromiseInvariant, PTL

=============================================================================
