---------------------------- MODULE SyncDB_proofs ---------------------------
(***************************************************************************)
(* Proofs about SyncDB: its variables keep their types, and goroutines     *)
(* that have a handle each, any number of them, exclude each other between *)
(* lock and unlock and give the file back.  The violation that the run     *)
(* db_shared shows is why each must have its own handle.                   *)
(***************************************************************************)
EXTENDS SyncDB, TLAPS

\* no two goroutines share a SynchronizedDB
OwnHandles == \A g, k \in Goroutines : HandleOf[g] = HandleOf[k] => g = k

-----------------------------------------------------------------------------
(* Types.                                                                  *)

LEMMA InitType == Init => TypeOK
  BY HandleAssumption DEF Init, TypeOK

\* What a statement writes is a number.
LEMMA IncrementedType ==
  ASSUME TypeOK, NEW g \in Goroutines
  PROVE  Incremented(g) \in Nat
  BY NoneAssumption DEF TypeOK, Incremented

\* The calls of a goroutine, lock and unlock keep the types.
LEMMA ControlKeepsType ==
  ASSUME TypeOK, NEW g \in Goroutines,
         (\E o \in Ops : Call(g, o)) \/ lock(g) \/ TryLock(g) \/ TimeOut(g) \/ SetLocked(g)
           \/ unlock(g) \/ TestLocked(g) \/ Release(g) \/ ClearLocked(g)
  PROVE  TypeOK'
<1> USE HandleAssumption, ModeAssumption DEF TypeOK, db, Goto, history, caller, handle, bounds
<1>1. CASE \E o \in Ops : Call(g, o)
  BY <1>1 DEF Call
<1>2. CASE lock(g)
  BY <1>2 DEF lock
<1>3. CASE TryLock(g)
  BY <1>3 DEF TryLock
<1>4. CASE TimeOut(g)
  BY <1>4 DEF TimeOut
<1>5. CASE SetLocked(g)
  <2>1. dbOpen' \in [Handles -> BOOLEAN] /\ closed' \in [Handles -> BOOLEAN]
    BY <1>5 DEF SetLocked
  <2>2. /\ leaked' \subseteq Goroutines /\ faults' \in Nat
        /\ fileLock' \in [Handles -> Goroutines \cup {None}]
    BY <1>5 DEF SetLocked
  <2>3. pc' \in [Goroutines -> {"idle", "lock", "try", "set", "body", "unlock", "test", "release", "clear"}]
        /\ op' \in [Goroutines -> Ops \cup {None}]
    BY <1>5 DEF SetLocked
  <2> QED
    BY <1>5, <2>1, <2>2, <2>3 DEF SetLocked
<1>6. CASE unlock(g)
  <2>1. db(g) \in Handles
    OBVIOUS
  <2>2. closed' \in [Handles -> BOOLEAN]
    <3>1. CASE closed' = closed
      BY <3>1
    <3>2. CASE closed' = [closed EXCEPT ![db(g)] = @ \/ OpenCloseSync[db(g)]]
      BY <3>2
    <3> QED
      BY <1>6, <3>1, <3>2 DEF unlock
  <2>3. dbOpen' \in [Handles -> BOOLEAN]
    <3>1. CASE dbOpen' = dbOpen
      BY <3>1
    <3>2. CASE dbOpen' = [dbOpen EXCEPT ![db(g)] = @ /\ ~OpenCloseSync[db(g)]]
      BY <3>2
    <3> QED
      BY <1>6, <3>1, <3>2 DEF unlock
  <2>4. pc' \in [Goroutines -> {"idle", "lock", "try", "set", "body", "unlock", "test", "release", "clear"}]
        /\ op' \in [Goroutines -> Ops \cup {None}] /\ leaked' \subseteq Goroutines /\ faults' \in Nat
    BY <1>6 DEF unlock
  <2> QED
    BY <1>6, <2>2, <2>3, <2>4 DEF unlock
<1>7. CASE TestLocked(g)
  BY <1>7 DEF TestLocked
<1>8. CASE Release(g)
  BY <1>8 DEF Release
<1>9. CASE ClearLocked(g)
  BY <1>9 DEF ClearLocked
<1> QED
  BY <1>1, <1>2, <1>3, <1>4, <1>5, <1>6, <1>7, <1>8, <1>9

\* The bodies of the calls keep the types.
LEMMA BodyKeepsType ==
  ASSUME TypeOK, NEW g \in Goroutines,
         Exec(g) \/ Query(g) \/ Scan(g) \/ Begin(g) \/ TxQuery(g) \/ TxExec(g) \/ EndTx(g)
           \/ Administer(g) \/ Fails(g)
  PROVE  TypeOK'
<1> USE HandleAssumption, NoneAssumption DEF TypeOK, db, Goto, Return, history, caller, handle, bounds
<1>1. CASE Exec(g)
  BY <1>1, IncrementedType DEF Exec, Commits
<1>2. CASE Query(g)
  BY <1>2 DEF Query
<1>3. CASE Scan(g)
  BY <1>3 DEF Scan
<1>4. CASE Begin(g)
  BY <1>4 DEF Begin
<1>5. CASE TxQuery(g)
  BY <1>5 DEF TxQuery, Wrote
<1>6. CASE TxExec(g)
  BY <1>6 DEF TxExec
<1>7. CASE EndTx(g)
  BY <1>7 DEF EndTx, Commits, Wrote
<1>8. CASE Administer(g)
  BY <1>8 DEF Administer
<1>9. CASE Fails(g)
  BY <1>9 DEF Fails
<1> QED
  BY <1>1, <1>2, <1>3, <1>4, <1>5, <1>6, <1>7, <1>8, <1>9

\* A crash keeps the types.
LEMMA CrashKeepsType ==
  ASSUME TypeOK, NEW h \in Handles, Crash(h)
  PROVE  TypeOK'
  BY DEF TypeOK, Crash

LEMMA NextKeepsType == TypeOK /\ [Next]_vars => TypeOK'
<1> SUFFICES ASSUME TypeOK, [Next]_vars
             PROVE  TypeOK'
  OBVIOUS
<1>1. CASE \E g \in Goroutines : Step(g)
  BY <1>1, ControlKeepsType, BodyKeepsType DEF Step, Works
<1>2. CASE \E h \in Handles : Crash(h)
  BY <1>2, CrashKeepsType
<1>3. CASE UNCHANGED vars
  BY <1>3 DEF TypeOK, vars, history, caller, handle, bounds
<1> QED
  BY <1>1, <1>2, <1>3 DEF Next

\* The fields of the handles, the program counters and the history keep their
\* types, for any goroutines and handles.
THEOREM TypeCorrect == Spec => []TypeOK
  BY InitType, NextKeepsType, PTL DEF Spec

-----------------------------------------------------------------------------
(* Mutual exclusion.                                                       *)

\* The call of g is one that may be at the place where g is.
CallInv(g) ==
  /\ pc[g] \in {"lock", "try", "set"} => op[g] \in Locking
  /\ pc[g] \in {"unlock", "test", "release", "clear"} => op[g] \in Unlocking
  /\ tx[g] = "active" =>
       /\ pc[g] \in {"idle", "body"}
       /\ pc[g] = "body" => op[g] \notin Locking

\* The flag of the handle is the session of its goroutine; where g gives the
\* file back it has neither a session nor a transaction.
SessionInv(g) ==
  /\ sessionLocked[db(g)] <=> inSession[g]
  /\ pc[g] = "unlock" /\ op[g] = "Unlock" => ~inSession[g]
  /\ pc[g] \in {"test", "release", "clear"} => ~inSession[g]

\* The object that the handle keeps is its own, and the one that has the file
\* unless g has just taken it or has just given it back.
FileLockInv(g) ==
  /\ fileLock[db(g)] \in {None, g}
  /\ owner = g /\ pc[g] # "set" => fileLock[db(g)] = g
  /\ pc[g] = "clear" => owner # g

\* Whoever is inside, or will be, has the file.
InsideInv(g) == Inside(g) \/ pc[g] = "set" => owner = g

\* Whoever has the file is inside, on the way there or back, or has met an
\* error that keeps it.
OwnerInv(g) ==
  owner = g =>
    \/ Inside(g)
    \/ pc[g] \in {"set", "unlock", "test", "release"}
    \/ pc[g] = "body" /\ op[g] \in Unlocking
    \/ g \in leaked

LocalInv(g) == CallInv(g) /\ SessionInv(g) /\ FileLockInv(g) /\ InsideInv(g) /\ OwnerInv(g)
LockInv == \A g \in Goroutines : LocalInv(g)

\* A step leaves goroutine k alone.
Same(k) ==
  /\ pc'[k] = pc[k] /\ op'[k] = op[k]
  /\ inSession'[k] = inSession[k] /\ tx'[k] = tx[k]
  /\ sessionLocked'[db(k)] = sessionLocked[db(k)]
  /\ fileLock'[db(k)] = fileLock[db(k)]
  /\ owner' = k <=> owner = k
  /\ k \in leaked' <=> k \in leaked

LEMMA InitLock == Init => LockInv
  BY HandleAssumption, NoneAssumption
  DEF Init, LockInv, LocalInv, CallInv, SessionInv, FileLockInv, InsideInv, OwnerInv, Inside, At, db

LEMMA SameKeepsLocal ==
  ASSUME NEW k \in Goroutines, LocalInv(k), Same(k)
  PROVE  LocalInv(k)' /\ (Inside(k)' <=> Inside(k))
  BY DEF Same, LocalInv, CallInv, SessionInv, FileLockInv, InsideInv, OwnerInv, Inside, At, db

\* A step of g leaves the others alone, since they have handles of their own.
LEMMA OthersAreAlone ==
  ASSUME OwnHandles, TypeOK, LockInv, NEW g \in Goroutines, Step(g), NEW k \in Goroutines, k # g
  PROVE  Same(k)
<1> USE HandleAssumption, NoneAssumption DEF TypeOK, Same, db, Goto, Return, history, caller, handle, bounds
<1>0. db(k) # db(g)
  BY DEF OwnHandles
<1>1. CASE \E o \in Ops : Call(g, o)
  BY <1>0, <1>1 DEF Call
<1>2. CASE lock(g) \/ TimeOut(g) \/ TestLocked(g)
  BY <1>2 DEF lock, TimeOut, TestLocked
<1>3. CASE TryLock(g)
  BY <1>3 DEF TryLock
<1>4. CASE SetLocked(g)
  BY <1>0, <1>4 DEF SetLocked
<1>5. CASE unlock(g)
  BY <1>5 DEF unlock
<1>6. CASE Release(g)
  <2>1. fileLock[db(g)] \in {None, g}
    BY DEF LockInv, LocalInv, FileLockInv
  <2> QED
    BY <1>6, <2>1 DEF Release
<1>7. CASE ClearLocked(g)
  BY <1>0, <1>7 DEF ClearLocked
<1>8. CASE Exec(g) \/ Query(g) \/ Scan(g)
  BY <1>8 DEF Exec, Query, Scan, Commits
<1>9. CASE Begin(g) \/ TxQuery(g) \/ TxExec(g)
  BY <1>9 DEF Begin, TxQuery, TxExec
<1>10. CASE EndTx(g)
  BY <1>10 DEF EndTx, Commits
<1>11. CASE Administer(g)
  BY <1>0, <1>11 DEF Administer
<1>12. CASE Fails(g)
  BY <1>12 DEF Fails
<1> QED
  BY <1>1, <1>2, <1>3, <1>4, <1>5, <1>6, <1>7, <1>8, <1>9, <1>10, <1>11, <1>12 DEF Step, Works

\* A step of g keeps what is said of g.
LEMMA OwnStep ==
  ASSUME TypeOK, LockInv, NEW g \in Goroutines, Step(g)
  PROVE  LocalInv(g)'
<1> USE HandleAssumption, NoneAssumption
    DEF TypeOK, db, At, Goto, Return, history, caller, handle, bounds, Locking, Unlocking, SessionOps, Ops,
        LocalInv, CallInv, SessionInv, FileLockInv, InsideInv, OwnerInv, Inside
<1>0. LocalInv(g) /\ db(g) \in Handles
  BY DEF LockInv
<1>1. CASE \E o \in Ops : Call(g, o)
  BY <1>0, <1>1 DEF Call, MayCall
<1>2. CASE lock(g)
  BY <1>0, <1>2 DEF lock, Skips
<1>3. CASE TryLock(g)
  BY <1>0, <1>3 DEF TryLock
<1>4. CASE TimeOut(g)
  BY <1>0, <1>4 DEF TimeOut
<1>5. CASE SetLocked(g)
  BY <1>0, <1>5 DEF SetLocked
<1>6. CASE unlock(g)
  BY <1>0, <1>6 DEF unlock, Skips
<1>7. CASE TestLocked(g)
  BY <1>0, <1>7 DEF TestLocked
<1>8. CASE Release(g)
  BY <1>0, <1>8 DEF Release
<1>9. CASE ClearLocked(g)
  BY <1>0, <1>9 DEF ClearLocked
<1>10. CASE Exec(g) \/ Query(g) \/ Scan(g)
  BY <1>0, <1>10 DEF Exec, Query, Scan, Commits, Runs
<1>11. CASE Begin(g)
  BY <1>0, <1>11 DEF Begin, Runs
<1>12. CASE TxQuery(g) \/ TxExec(g)
  BY <1>0, <1>12 DEF TxQuery, TxExec, Runs
<1>13. CASE EndTx(g)
  BY <1>0, <1>13 DEF EndTx, Commits, Runs
<1>14. CASE Administer(g)
  BY <1>0, <1>14 DEF Administer
<1>15. CASE Fails(g)
  BY <1>0, <1>15 DEF Fails, Skips, Statements
<1> QED
  BY <1>1, <1>2, <1>3, <1>4, <1>5, <1>6, <1>7, <1>8, <1>9, <1>10, <1>11, <1>12, <1>13, <1>14, <1>15 DEF Step, Works

\* A crash takes everything from the goroutines of a handle, and nothing from
\* the others.
LEMMA CrashStep ==
  ASSUME TypeOK, LockInv, NEW h \in Handles, Crash(h), NEW k \in Goroutines
  PROVE  /\ HandleOf[k] # h => Same(k)
         /\ HandleOf[k] = h => LocalInv(k)' /\ ~Inside(k)'
<1> USE HandleAssumption, NoneAssumption DEF TypeOK, Crash, db
<1>1. CASE HandleOf[k] # h
  BY <1>1 DEF Same
<1>2. CASE HandleOf[k] = h
  <2>1. owner' # k
    BY <1>2
  <2> QED
    BY <1>2, <2>1 DEF LocalInv, CallInv, SessionInv, FileLockInv, InsideInv, OwnerInv, Inside, At
<1> QED
  BY <1>1, <1>2

LEMMA NextKeepsLock ==
  ASSUME OwnHandles, TypeOK, LockInv, [Next]_vars
  PROVE  LockInv'
<1> SUFFICES ASSUME NEW k \in Goroutines
             PROVE  LocalInv(k)'
  BY DEF LockInv
<1>0. LocalInv(k)
  BY DEF LockInv
<1>1. CASE \E g \in Goroutines : Step(g)
  <2> PICK g \in Goroutines : Step(g)
    BY <1>1
  <2>1. CASE k = g
    BY <2>1, OwnStep
  <2>2. CASE k # g
    BY <2>2, <1>0, OthersAreAlone, SameKeepsLocal
  <2> QED
    BY <2>1, <2>2
<1>2. CASE \E h \in Handles : Crash(h)
  BY <1>0, <1>2, CrashStep, SameKeepsLocal
<1>3. CASE UNCHANGED vars
  <2>1. Same(k)
    BY <1>3 DEF Same, vars, handle, caller, history, bounds
  <2> QED
    BY <1>0, <2>1, SameKeepsLocal
<1> QED
  BY <1>1, <1>2, <1>3 DEF Next

\* Between goroutines with handles of their own LockInv always holds: the file,
\* the handles and the program counters agree.
THEOREM LockInvariant ==
  ASSUME OwnHandles
  PROVE  Spec => []LockInv
<1>1. TypeOK /\ LockInv /\ [Next]_vars => LockInv'
  BY NextKeepsLock
<1> QED
  BY <1>1, InitLock, TypeCorrect, PTL DEF Spec

\* The file is never locked by a goroutine that has neither a call, a session nor
\* a transaction that will unlock it, unless an error has kept it (of open, Begin,
\* Close or the unlock of the file): for goroutines with handles of their own.
THEOREM LocksHaveOwners ==
  ASSUME OwnHandles
  PROVE  Spec => []LockHasOwner
<1>1. TypeOK /\ LockInv => LockHasOwner
  BY DEF TypeOK, LockInv, LocalInv, OwnerInv, LockHasOwner
<1> QED
  BY <1>1, TypeCorrect, LockInvariant, PTL

-----------------------------------------------------------------------------
(* The refinement.                                                         *)

insiders == {g \in Goroutines : Inside(g)}

\* A step changes whether one goroutine at most is inside.
LEMMA OneMoves ==
  ASSUME OwnHandles, TypeOK, LockInv, [Next]_vars
  PROVE  UNCHANGED insiders \/ \E g \in Goroutines : \A k \in Goroutines \ {g} : Inside(k)' <=> Inside(k)
<1>0. \A k \in Goroutines : LocalInv(k)
  BY DEF LockInv
<1>1. CASE \E g \in Goroutines : Step(g)
  BY <1>0, <1>1, OthersAreAlone, SameKeepsLocal
<1>2. CASE \E h \in Handles : Crash(h)
  <2> PICK h \in Handles : Crash(h)
    BY <1>2
  <2>1. CASE \E g \in Goroutines : HandleOf[g] = h
    <3> PICK g \in Goroutines : HandleOf[g] = h
      BY <2>1
    <3>1. ASSUME NEW k \in Goroutines \ {g}
          PROVE  Inside(k)' <=> Inside(k)
      BY <1>0, CrashStep, SameKeepsLocal DEF OwnHandles
    <3> QED
      BY <3>1
  <2>2. CASE \A g \in Goroutines : HandleOf[g] # h
    <3>1. \A k \in Goroutines : Inside(k)' <=> Inside(k)
      BY <1>0, <2>2, CrashStep, SameKeepsLocal
    <3> QED
      BY <3>1 DEF insiders
  <2> QED
    BY <2>1, <2>2
<1>3. CASE UNCHANGED vars
  BY <1>3 DEF insiders, Inside, At, vars, handle, caller, history, bounds
<1> QED
  BY <1>1, <1>2, <1>3 DEF Next

\* A step of SyncDB locks or unlocks the abstract mutex, or leaves it.
LEMMA StepSimulates ==
  ASSUME OwnHandles, TypeOK, LockInv, LockInv', [Next]_vars
  PROVE  [Mutex!Next]_insiders
<1>1. \A g \in Goroutines : (Inside(g) => owner = g) /\ (Inside(g)' => owner' = g)
  BY DEF LockInv, LocalInv, InsideInv
<1>2. CASE UNCHANGED insiders
  BY <1>2
<1>3. CASE \E g \in Goroutines : \A k \in Goroutines \ {g} : Inside(k)' <=> Inside(k)
  <2> PICK g \in Goroutines : \A k \in Goroutines \ {g} : Inside(k)' <=> Inside(k)
    BY <1>3
  <2>1. CASE Inside(g)' <=> Inside(g)
    BY <2>1 DEF insiders
  <2>2. CASE Inside(g)' /\ ~Inside(g)
    <3>1. insiders = {} /\ insiders' = {g}
      BY <1>1, <2>2 DEF insiders
    <3> QED
      BY <3>1 DEF insiders, Mutex!Next, Mutex!FileLock
  <2>3. CASE ~Inside(g)' /\ Inside(g)
    <3>1. insiders = {g} /\ insiders' = {}
      BY <1>1, <2>3 DEF insiders
    <3> QED
      BY <3>1 DEF insiders, Mutex!Next, Mutex!FileUnlock
  <2> QED
    BY <2>1, <2>2, <2>3
<1> QED
  BY <1>2, <1>3, OneMoves

\* Goroutines with a handle each, any number of them, use the file lock as a
\* mutex: whatever is called, fails or dies, one at a time is between a lock and
\* the unlock of a call, of a session or of a transaction.
THEOREM MutualExclusion ==
  ASSUME OwnHandles
  PROVE  Spec => ImplementsMutex
<1>1. Init => Mutex!Init
  BY HandleAssumption DEF Init, Mutex!Init, Inside, At
<1>2. TypeOK /\ LockInv /\ LockInv' /\ [Next]_vars => [Mutex!Next]_insiders
  BY StepSimulates
<1> QED
  BY <1>1, <1>2, TypeCorrect, LockInvariant, PTL DEF Spec, ImplementsMutex, Mutex!Spec, insiders

-----------------------------------------------------------------------------
(* Updates.                                                                *)

\* What a goroutine has read in its session or transaction is what the database
\* holds, and what its transaction has written is one more.
ValueInv(g) ==
  /\ pending[g] # None => tx[g] = "active" /\ pending[g] = seq + 1
  /\ (inSession[g] \/ tx[g] = "active") /\ pending[g] = None /\ read[g] # None => read[g] = seq
  /\ pc[g] = "body" /\ op[g] = "TxExec" => tx[g] = "active" /\ pending[g] = None

UpdateInv == seq = increments /\ \A g \in Goroutines : ValueInv(g)

\* A step leaves alone what goroutine k has read and written.
SameValues(k) == read'[k] = read[k] /\ pending'[k] = pending[k]

\* The steps that neither read nor write: lock and unlock.
LEMMA LockKeepsValues ==
  ASSUME TypeOK, LockInv, UpdateInv, NEW g \in Goroutines,
         (\E o \in Ops : Call(g, o)) \/ lock(g) \/ TryLock(g) \/ TimeOut(g) \/ SetLocked(g)
           \/ unlock(g) \/ TestLocked(g) \/ Release(g) \/ ClearLocked(g)
  PROVE  ValueInv(g)' /\ UNCHANGED <<seq, increments>> /\ \A k \in Goroutines \ {g} : SameValues(k)
<1> USE DEF TypeOK, Goto, history, caller, handle, bounds, ValueInv, SameValues
<1>0. ValueInv(g)
  BY DEF UpdateInv
<1>1. CASE \E o \in Ops : Call(g, o)
  BY <1>0, <1>1 DEF Call, MayCall
<1>2. CASE lock(g) \/ TryLock(g) \/ TimeOut(g) \/ SetLocked(g)
  <2>1. pc[g] \in {"lock", "try", "set"} /\ UNCHANGED <<seq, increments, read, pending, inSession, tx>>
    BY <1>2 DEF lock, TryLock, TimeOut, SetLocked, At
  <2>2. op[g] # "TxExec"
    BY <2>1 DEF LockInv, LocalInv, CallInv, Locking
  <2>3. pc'[g] = "body" => op'[g] # "TxExec"
    BY <1>2, <2>2 DEF lock, TryLock, TimeOut, SetLocked
  <2> QED
    BY <1>0, <2>1, <2>3
<1>3. CASE unlock(g) \/ TestLocked(g) \/ Release(g) \/ ClearLocked(g)
  <2>1. pc'[g] # "body" /\ UNCHANGED <<seq, increments, read, pending, inSession, tx>>
    BY <1>3 DEF unlock, TestLocked, Release, ClearLocked
  <2> QED
    BY <1>0, <2>1
<1> QED
  BY <1>1, <1>2, <1>3

\* The calls that write nothing to the database.
LEMMA ReadKeepsValues ==
  ASSUME TypeOK, LockInv, UpdateInv, NEW g \in Goroutines,
         Query(g) \/ Scan(g) \/ Begin(g) \/ TxQuery(g) \/ TxExec(g) \/ Administer(g) \/ Fails(g)
  PROVE  ValueInv(g)' /\ UNCHANGED <<seq, increments>> /\ \A k \in Goroutines \ {g} : SameValues(k)
<1> USE NoneAssumption DEF TypeOK, Goto, Return, history, caller, handle, bounds, ValueInv, SameValues
<1>0. ValueInv(g) /\ seq \in Nat
  BY DEF UpdateInv
<1>1. pc[g] = "body" /\ pc'[g] # "body"
  BY DEF Query, Scan, Begin, TxQuery, TxExec, Administer, Fails, Runs, At
<1>2. CASE Query(g)
  <2>1. tx[g] # "active"
    BY <1>1, <1>2 DEF Query, Runs, LockInv, LocalInv, CallInv, Locking
  <2> QED
    BY <1>0, <1>1, <1>2, <2>1 DEF Query
<1>3. CASE Scan(g)
  BY <1>0, <1>1, <1>3 DEF Scan
<1>4. CASE Begin(g)
  <2>1. tx[g] # "active"
    BY <1>1, <1>4 DEF Begin, Runs, LockInv, LocalInv, CallInv, Locking
  <2> QED
    BY <1>0, <1>1, <1>4, <2>1 DEF Begin
<1>5. CASE TxQuery(g)
  BY <1>0, <1>1, <1>5 DEF TxQuery, Wrote
<1>6. CASE TxExec(g)
  BY <1>0, <1>1, <1>6 DEF TxExec, Runs
<1>7. CASE Administer(g)
  <2>1. UNCHANGED <<tx, pending, seq, increments>> /\ \A k \in Goroutines \ {g} : read'[k] = read[k]
    BY <1>7 DEF Administer
  <2>2. /\ op[g] = "Lock" => read'[g] = None
        /\ op[g] # "Lock" => read'[g] = read[g] /\ inSession'[g] = inSession[g]
    BY <1>7 DEF Administer
  <2> QED
    BY <1>0, <1>1, <2>1, <2>2
<1>8. CASE Fails(g)
  BY <1>0, <1>1, <1>8 DEF Fails
<1> QED
  BY <1>2, <1>3, <1>4, <1>5, <1>6, <1>7, <1>8

\* Exec and Commit increment what the database holds, and nobody else has read it
\* in a session or a transaction.
LEMMA WriteKeepsValues ==
  ASSUME TypeOK, LockInv, UpdateInv, NEW g \in Goroutines, Exec(g) \/ EndTx(g)
  PROVE  /\ ValueInv(g)' /\ seq' = increments'
         /\ \A k \in Goroutines \ {g} : SameValues(k)
         /\ seq' = seq \/ \A k \in Goroutines \ {g} : ~Inside(k)
<1> USE NoneAssumption DEF TypeOK, Goto, Return, history, caller, handle, bounds, SameValues
<1>0. ValueInv(g) /\ seq \in Nat /\ seq = increments
  BY DEF UpdateInv
<1>1. pc[g] = "body" /\ pc'[g] # "body"
  BY DEF Exec, EndTx, Runs, At
<1>2. Inside(g) => \A k \in Goroutines \ {g} : ~Inside(k)
  BY DEF LockInv, LocalInv, InsideInv
<1>3. CASE Exec(g)
  <2>1. op[g] = "Exec" /\ op[g] \in Locking
    BY <1>3 DEF Exec, Runs, Locking
  <2>2. Inside(g) /\ tx[g] # "active"
    BY <1>1, <2>1 DEF Inside, At, LockInv, LocalInv, CallInv
  <2>3. Incremented(g) = seq + 1
    BY <1>0, <2>2 DEF Incremented, ValueInv
  <2>4. /\ seq' = seq + 1 /\ increments' = increments + 1 /\ read' = [read EXCEPT ![g] = None]
        /\ pending' = pending /\ tx' = tx
    BY <1>3, <2>3 DEF Exec, Commits
  <2> QED
    BY <1>0, <1>1, <1>2, <2>2, <2>4 DEF ValueInv
<1>4. CASE EndTx(g)
  <2>1. /\ pending' = [pending EXCEPT ![g] = None] /\ read' = [read EXCEPT ![g] = None]
        /\ \/ seq' = seq /\ increments' = increments
           \/ seq' = pending[g] /\ increments' = increments + 1 /\ pending[g] # None
    BY <1>4 DEF EndTx, Commits, Wrote
  <2>2. pending[g] # None => Inside(g) /\ pending[g] = seq + 1
    BY <1>0 DEF ValueInv, Inside
  <2> QED
    BY <1>0, <1>1, <1>2, <2>1, <2>2 DEF ValueInv
<1> QED
  BY <1>3, <1>4

\* Goroutines that are left alone keep what they have read and written, unless
\* the database changes under one that is not inside.
LEMMA AloneKeepsValues ==
  ASSUME NEW k \in Goroutines, ValueInv(k), Same(k), SameValues(k),
         seq' = seq \/ ~Inside(k)
  PROVE  ValueInv(k)'
  BY DEF ValueInv, Same, SameValues, Inside

LEMMA StepKeepsUpdates ==
  ASSUME OwnHandles, TypeOK, LockInv, UpdateInv, NEW g \in Goroutines, Step(g)
  PROVE  UpdateInv'
<1>0. seq = increments /\ \A k \in Goroutines : ValueInv(k)
  BY DEF UpdateInv
<1>1. \A k \in Goroutines \ {g} : Same(k)
  BY OthersAreAlone
<1>2. /\ ValueInv(g)' /\ seq' = increments' /\ \A k \in Goroutines \ {g} : SameValues(k)
      /\ seq' = seq \/ \A k \in Goroutines \ {g} : ~Inside(k)
  <2>1. CASE (\E o \in Ops : Call(g, o)) \/ lock(g) \/ TryLock(g) \/ TimeOut(g) \/ SetLocked(g)
             \/ unlock(g) \/ TestLocked(g) \/ Release(g) \/ ClearLocked(g)
    BY <1>0, <2>1, LockKeepsValues
  <2>2. CASE Query(g) \/ Scan(g) \/ Begin(g) \/ TxQuery(g) \/ TxExec(g) \/ Administer(g) \/ Fails(g)
    BY <1>0, <2>2, ReadKeepsValues
  <2>3. CASE Exec(g) \/ EndTx(g)
    BY <2>3, WriteKeepsValues
  <2> QED
    BY <2>1, <2>2, <2>3 DEF Step, Works
<1>3. ASSUME NEW k \in Goroutines, k # g
      PROVE  ValueInv(k)'
  BY <1>0, <1>1, <1>2, <1>3, AloneKeepsValues
<1> QED
  BY <1>2, <1>3 DEF UpdateInv

LEMMA CrashKeepsUpdates ==
  ASSUME TypeOK, LockInv, UpdateInv, NEW h \in Handles, Crash(h)
  PROVE  UpdateInv'
<1>1. seq' = seq /\ increments' = increments
  BY DEF Crash
<1>2. ASSUME NEW k \in Goroutines
      PROVE  ValueInv(k)'
  <2>1. CASE HandleOf[k] # h
    <3>1. Same(k) /\ SameValues(k)
      BY <2>1, CrashStep DEF Crash, SameValues
    <3> QED
      BY <1>1, <3>1, AloneKeepsValues DEF UpdateInv
  <2>2. CASE HandleOf[k] = h
    BY <2>2 DEF Crash, ValueInv
  <2> QED
    BY <2>1, <2>2
<1> QED
  BY <1>1, <1>2 DEF UpdateInv

\* No increment is lost between goroutines that have a handle each, any number
\* of them: whoever writes what it has read in its session or transaction writes
\* one more than what the database holds.
THEOREM NoUpdateIsLost ==
  ASSUME OwnHandles
  PROVE  Spec => []NoLostUpdate
<1>1. Init => UpdateInv
  BY DEF Init, UpdateInv, ValueInv
<1>2. ASSUME TypeOK, LockInv, UpdateInv, [Next]_vars
      PROVE  UpdateInv'
  <2>1. CASE \E g \in Goroutines : Step(g)
    BY <1>2, <2>1, StepKeepsUpdates
  <2>2. CASE \E h \in Handles : Crash(h)
    BY <1>2, <2>2, CrashKeepsUpdates
  <2>3. CASE UNCHANGED vars
    BY <1>2, <2>3 DEF vars, handle, caller, history, UpdateInv, ValueInv
  <2> QED
    BY <1>2, <2>1, <2>2, <2>3 DEF Next
<1>3. UpdateInv => NoLostUpdate
  BY DEF UpdateInv, NoLostUpdate
<1> QED
  BY <1>1, <1>2, <1>3, TypeCorrect, LockInvariant, PTL DEF Spec
=============================================================================
