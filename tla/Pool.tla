-------------------------------- MODULE Pool --------------------------------
(* The pool of src/poolz/poolz.go.  Open takes the mutex, and hands out the *)
(* first available object or a new one; else it unlocks, sleeps and tries   *)
(* again.  PoolClose gives an object back without the mutex: each of its    *)
(* reads and writes of the fields is a step, as are those of Open.          *)
(*                                                                          *)
(* External: users close what they have opened, once.  Times are left out:  *)
(* the cleaner finds any available object that is set idle old, or not.     *)
EXTENDS Integers, Sequences, FiniteSets, SequencesExt

CONSTANTS
  Users,
  MaxOpen,      \* maxOpen
  MaxOpens,     \* bound on the calls of Open, and of the factory
  None

ASSUME UsersAssumption   == IsFiniteSet(Users)
ASSUME MaxOpenAssumption == MaxOpen \in Nat
ASSUME BoundsAssumption  == MaxOpens \in Nat
ASSUME NoneAssumption    == None \notin Users \cup Nat

VARIABLES
  mutex,              \* who has locked the pool
  available, inUse,   \* fields of basicPool
  made,               \* the objects 1 .. made exist
  idle, outdated,     \* the objects whose startIdle is set, that are outdated
  cleaner,            \* "off", "running", or "panicked": startIdle was nil
  pc, object,         \* per user: where it is, with which object
  read,               \* what it has read of available or inUse, to write it
  raced,              \* TRUE: a field was written between such a read and write
  overshot,           \* TRUE: an object was made although one was available
  opens

fields == <<available, inUse>>
vars   == <<mutex, fields, made, idle, outdated, cleaner, pc, object, read, raced, overshot, opens>>

Init ==
  /\ mutex = None
  /\ available = <<>> /\ inUse = 0
  /\ made = 0
  /\ idle = {} /\ outdated = {}
  /\ cleaner = "off"
  /\ pc = [u \in Users |-> "out"]
  /\ object = [u \in Users |-> None]
  /\ read = [u \in Users |-> None]
  /\ raced = FALSE /\ overshot = FALSE
  /\ opens = 0

Goto(u, place) == pc' = [pc EXCEPT ![u] = place]

\* the deferred call of Open, whatever it returns: one cleaner runs at a time
StartCleaner == cleaner' = IF cleaner = "off" THEN "running" ELSE cleaner

\* the users that are about to write to available, and to inUse
Taking     == {u \in Users : pc[u] \in {"take", "append"}}
Counting   == {u \in Users : pc[u] \in {"count", "create", "uncount"}}
Write(u, others, place) ==
  /\ raced' = (raced \/ others \ {u} # {})
  /\ read' = [read EXCEPT ![u] = None]
  /\ Goto(u, place)

-----------------------------------------------------------------------------
Open(u) ==
  /\ pc[u] = "out" /\ opens < MaxOpens
  /\ opens' = opens + 1
  /\ Goto(u, "open")
  /\ UNCHANGED <<mutex, fields, made, idle, outdated, cleaner, object, read, raced, overshot>>

\* One turn of the loop locks and tests len(available): the first available
\* is taken, or inUse is tested next
Try(u) ==
  /\ pc[u] = "open" /\ mutex = None
  /\ mutex' = u
  /\ \/ /\ available # <<>>
        /\ object' = [object EXCEPT ![u] = Head(available)]
        /\ read' = [read EXCEPT ![u] = inUse]
        /\ Goto(u, "count")
     \/ /\ available = <<>>
        /\ Goto(u, "test")
        /\ UNCHANGED <<object, read>>
  /\ UNCHANGED <<fields, made, idle, outdated, cleaner, raced, overshot, opens>>

\* Mutant: one more than the extra one.
TestInUseMore(u) ==
  /\ pc[u] = "test"
  /\ IF inUse <= MaxOpen + 1
     THEN /\ Goto(u, "factory")
          /\ overshot' = (overshot \/ available # <<>>)
          /\ UNCHANGED mutex
     ELSE /\ mutex' = None
          /\ Goto(u, "open")
          /\ UNCHANGED overshot
  /\ UNCHANGED <<fields, made, idle, outdated, cleaner, object, read, raced, opens>>
\* The second test, which onClose may precede: build a new one although one has
\* become available, or unlock, sleep and turn
TestInUse(u) ==
  /\ pc[u] = "test"
  /\ IF inUse <= MaxOpen
     THEN /\ Goto(u, "factory")
          /\ overshot' = (overshot \/ available # <<>>)
          /\ UNCHANGED mutex
     ELSE /\ mutex' = None
          /\ Goto(u, "open")
          /\ UNCHANGED overshot
  /\ UNCHANGED <<fields, made, idle, outdated, cleaner, object, read, raced, opens>>

\* the first available: inUse++, then available = available[1:]
CountTaken(u) ==
  /\ pc[u] = "count"
  /\ inUse' = read[u] + 1
  /\ Write(u, Counting, "look")
  /\ UNCHANGED <<mutex, available, made, idle, outdated, cleaner, object, overshot, opens>>

LookAvailable(u) ==
  /\ pc[u] = "look"
  /\ read' = [read EXCEPT ![u] = available]
  /\ Goto(u, "take")
  /\ UNCHANGED <<mutex, fields, made, idle, outdated, cleaner, object, raced, overshot, opens>>

\* Mutant: the object stays available.
TakeKeeps(u) ==
  /\ pc[u] = "take"
  /\ available' = read[u]
  /\ Write(u, Taking, "opened")
  /\ UNCHANGED <<mutex, inUse, made, idle, outdated, cleaner, object, overshot, opens>>
Take(u) ==
  /\ pc[u] = "take"
  /\ available' = Tail(read[u])
  /\ Write(u, Taking, "opened")
  /\ UNCHANGED <<mutex, inUse, made, idle, outdated, cleaner, object, overshot, opens>>

\* the factory, and Open of the object: an error is returned after Unlock
Factory(u) ==
  /\ pc[u] = "factory"
  /\ made' = made + 1
  /\ object' = [object EXCEPT ![u] = made + 1]
  /\ read' = [read EXCEPT ![u] = inUse]
  /\ Goto(u, "create")
  /\ UNCHANGED <<mutex, fields, idle, outdated, cleaner, raced, overshot, opens>>

\* Mutant: the error is returned without Unlock.
FactoryFailsLocked(u) ==
  /\ pc[u] = "factory"
  /\ Goto(u, "out")
  /\ UNCHANGED <<mutex, fields, made, idle, outdated, cleaner, object, read, raced, overshot, opens>>
FactoryFails(u) ==
  /\ pc[u] = "factory"
  /\ mutex' = None
  /\ StartCleaner
  /\ Goto(u, "out")
  /\ UNCHANGED <<fields, made, idle, outdated, object, read, raced, overshot, opens>>

CountCreated(u) ==
  /\ pc[u] = "create"
  /\ inUse' = read[u] + 1
  /\ Write(u, Counting, "opened")
  /\ UNCHANGED <<mutex, available, made, idle, outdated, cleaner, object, overshot, opens>>

Opened(u) ==
  /\ pc[u] = "opened"
  /\ mutex' = None
  /\ StartCleaner
  /\ Goto(u, "using")
  /\ UNCHANGED <<fields, made, idle, outdated, object, read, raced, overshot, opens>>

-----------------------------------------------------------------------------
\* PoolClose: onClose appends the object to available if it is not outdated
PoolClose(u) ==
  /\ pc[u] = "using"
  /\ IF object[u] \in outdated
     THEN Goto(u, "drop") /\ UNCHANGED read
     ELSE read' = [read EXCEPT ![u] = available] /\ Goto(u, "append")
  /\ UNCHANGED <<mutex, fields, made, idle, outdated, cleaner, object, raced, overshot, opens>>

AppendAvailable(u) ==
  /\ pc[u] = "append"
  /\ available' = Append(read[u], object[u])
  /\ Write(u, Taking, "stamp")
  /\ UNCHANGED <<mutex, inUse, made, idle, outdated, cleaner, object, overshot, opens>>

StartIdle(u) ==
  /\ pc[u] = "stamp"
  /\ idle' = idle \cup {object[u]}
  /\ Goto(u, "drop")
  /\ UNCHANGED <<mutex, fields, made, outdated, cleaner, object, read, raced, overshot, opens>>

\* inUse--
LookInUse(u) ==
  /\ pc[u] = "drop"
  /\ read' = [read EXCEPT ![u] = inUse]
  /\ Goto(u, "uncount")
  /\ UNCHANGED <<mutex, fields, made, idle, outdated, cleaner, object, raced, overshot, opens>>

Closed(u) ==
  /\ pc[u] = "uncount"
  /\ inUse' = read[u] - 1
  /\ object' = [object EXCEPT ![u] = None]
  /\ Write(u, Counting, "out")
  /\ UNCHANGED <<mutex, available, made, idle, outdated, cleaner, overshot, opens>>

-----------------------------------------------------------------------------
\* A turn of startCleaner: some of the available objects are outdated, which
\* the next Open still hands out.  It dereferences startIdle.
Clean ==
  /\ cleaner = "running" /\ mutex = None
  /\ available # <<>>
  /\ IF ToSet(available) \subseteq idle
     THEN /\ \E old \in SUBSET ToSet(available) : outdated' = outdated \cup old
          /\ UNCHANGED cleaner
     ELSE cleaner' = "panicked" /\ UNCHANGED outdated
  /\ UNCHANGED <<mutex, fields, made, idle, pc, object, read, raced, overshot, opens>>

CleanerStops ==
  /\ cleaner = "running" /\ Len(available) + inUse <= 0
  /\ cleaner' = "off"
  /\ UNCHANGED <<mutex, fields, made, idle, outdated, pc, object, read, raced, overshot, opens>>

Progress(u) ==
  \/ Try(u) \/ TestInUse(u) \/ CountTaken(u) \/ LookAvailable(u) \/ Take(u)
  \/ Factory(u) \/ FactoryFails(u) \/ CountCreated(u) \/ Opened(u)
  \/ PoolClose(u) \/ AppendAvailable(u) \/ StartIdle(u) \/ LookInUse(u) \/ Closed(u)

Next ==
  /\ cleaner # "panicked"
  /\ \/ Clean \/ CleanerStops
     \/ \E u \in Users : Open(u) \/ Progress(u)

Spec == Init /\ [][Next]_vars

\* Every goroutine goes on when it can, users close what they opened, and the
\* mutex is not refused for ever to one that waits (sync.Mutex).
FairSpec == Spec /\ \A u \in Users : WF_vars(Progress(u)) /\ SF_vars(Try(u))

-----------------------------------------------------------------------------
(* Properties.                                                             *)

\* The fields and the program counters have their types.
TypeOK ==
  /\ mutex \in Users \cup {None}
  /\ available \in Seq(Nat) /\ inUse \in Int
  /\ made \in Nat /\ opens \in Nat
  /\ idle \subseteq Nat /\ outdated \subseteq Nat
  /\ cleaner \in {"off", "running", "panicked"}
  /\ pc \in [Users -> {"out", "open", "test", "count", "look", "take", "factory", "create", "opened",
                       "using", "append", "stamp", "drop", "uncount"}]
  /\ object \in [Users -> Nat \cup {None}]
  /\ raced \in BOOLEAN /\ overshot \in BOOLEAN

\* those who have an object from Open
Having == {u \in Users : pc[u] \in {"opened", "using", "append"}}

\* No object is handed out to two users, or again while it is used: with
\* onClose outside of the mutex this holds as long as no field was written
\* between a read and a write of another goroutine.
OneUser ==
  ~raced =>
    /\ \A u, v \in Having : u # v => object[u] # object[v]
    /\ \A u \in Having : object[u] \notin ToSet(available)
    /\ IsInjective(available)

\* the objects that are available or will be when they are closed
InPool == Len(available) + Cardinality({u \in Having : object[u] \notin outdated})

\* Objects do not leak and do not grow without bound.  Never more are used or
\* kept than maxOpen + 1 (inUse <= maxOpen is tested before the increment),
\* unless a close fell between the two tests of an Open: then as many as there
\* are users, for that Open had seen none available.  None is forgotten: an
\* object is available, with a user, or was outdated when it was closed.
Bounded ==
  ~raced =>
    /\ InPool <= Cardinality(Users)
    /\ ~overshot => Cardinality(Having) <= MaxOpen + 1 /\ InPool <= MaxOpen + 1
    /\ \A o \in 1 .. made :
         \/ o \in ToSet(available) \cup outdated
         \/ \E u \in Users : object[u] = o
    /\ (\A u \in Users : pc[u] \in {"out", "open", "test"}) => inUse = 0

\* Open returns: a user that waits gets an object, or the error of the factory,
\* once the others have closed theirs.  A lost inUse-- keeps it waiting.
OpenReturns ==
  \A u \in Users : (pc[u] = "open") ~> (pc[u] \in {"using", "out"} \/ raced \/ cleaner = "panicked")
=============================================================================
