------------------------------- MODULE SyncDB -------------------------------
(***************************************************************************)
(* The synchronized database of zql (src/zql/syncronized.go) as zqlite     *)
(* opens it: a sql.DB whose calls are put between the lock and the unlock  *)
(* of a file, by goroutines that use one handle each, or share one.        *)
(*                                                                         *)
(* The database holds one number, seq, that every write increments.  A     *)
(* flock object is named by the goroutine that built it.  External: flock  *)
(* (one object at most has the file, the system takes the lock back when   *)
(* the process dies; that an object nobody refers to loses it when it is   *)
(* collected, some time later, is left out), the connection pool of sql.DB *)
(* (one connection, taken by an open transaction or by rows not read yet)  *)
(* and what SQLite answers SQLITE_BUSY to.  A panic of processError is     *)
(* modelled as the error it carries: the deferred calls are the same, and  *)
(* a program that does not recover it is Crash.                            *)
(***************************************************************************)
EXTENDS Integers, FiniteSets

CONSTANTS
  Goroutines, Handles,
  HandleOf,       \* HandleOf[g]: the SynchronizedDB that g uses
  OpenCloseSync,  \* OpenCloseSync[h]: opened by lock and closed by unlock
  MaxCalls,       \* bound on the calls
  MaxFaults,      \* bound on the errors and crashes
  None            \* nil

ASSUME HandleAssumption == HandleOf \in [Goroutines -> Handles]
ASSUME ModeAssumption   == OpenCloseSync \in [Handles -> BOOLEAN]
ASSUME NoneAssumption   == None \notin Goroutines \cup Int
ASSUME BoundsAssumption == MaxCalls \in Nat /\ MaxFaults \in Nat

VARIABLES
  owner,          \* the flock object that has the file
  fileLock, sessionLocked, dbOpen,  \* fields of each handle
  closed,         \* per handle, TRUE if its sql.DB is closed
  pc, op,         \* where each goroutine is, in which call
  inSession,      \* between its Lock and its Unlock
  tx, cursor,     \* its transaction; TRUE: rows that are not read yet
  read, pending,  \* what it read; what its transaction wrote
  seq,            \* the database
  increments,     \* history: those made
  leaked,         \* history: whose lock an error path has kept
  calls, faults

handle  == <<fileLock, sessionLocked, dbOpen, closed>>
caller  == <<inSession, tx, cursor, read, pending>>
history == <<increments, leaked>>
bounds  == <<calls, faults>>
vars    == <<owner, handle, pc, op, caller, seq, history, bounds>>

Locking    == {"Open", "Exec", "Query", "Begin", "Lock"}  \* they begin with lock
SessionOps == {"Lock", "Unlock"}

\* mutants: Begin unlocks as the other calls do, Rollback is the one of sql.Tx
UnlockingBegin  == {"Open", "Exec", "Query", "Begin", "Commit", "Rollback", "Unlock"}
UnlockingCommit == {"Open", "Exec", "Query", "Commit", "Unlock"}

Unlocking  == {"Open", "Exec", "Query", "Commit", "Rollback", "Unlock"}  \* they end with unlock
Ops        == Locking \cup Unlocking \cup {"TxExec", "TxQuery", "Commit", "Rollback", "Scan", "Close"}

Init ==
  /\ owner = None
  /\ fileLock = [h \in Handles |-> None]
  /\ sessionLocked = [h \in Handles |-> FALSE]
  /\ dbOpen = [h \in Handles |-> FALSE]
  /\ closed = [h \in Handles |-> TRUE]
  /\ pc = [g \in Goroutines |-> "idle"]
  /\ op = [g \in Goroutines |-> None]
  /\ inSession = [g \in Goroutines |-> FALSE]
  /\ tx = [g \in Goroutines |-> "none"]
  /\ cursor = [g \in Goroutines |-> FALSE]
  /\ read = [g \in Goroutines |-> None]
  /\ pending = [g \in Goroutines |-> None]
  /\ seq = 0
  /\ increments = 0
  /\ leaked = {}
  /\ calls = 0
  /\ faults = 0

At(g, place) == pc[g] = place
Goto(g, place) ==
  /\ pc' = [pc EXCEPT ![g] = place]
  /\ op' = [op EXCEPT ![g] = IF place = "idle" THEN None ELSE @]
db(g) == HandleOf[g]

\* The rules a caller follows: rows are read before anything else is called, an
\* open transaction writes once and is used alone, what was not opened is not closed.
MayCall(g, o) ==
  /\ cursor[g] <=> o = "Scan"
  /\ o \in {"TxExec", "TxQuery"} => tx[g] = "active"
  /\ o = "TxExec" => pending[g] = None
  /\ o \in {"Commit", "Rollback"} => tx[g] # "none"
  /\ o \in Locking \cup {"Unlock", "Close"} => tx[g] # "active"
  /\ o = "Unlock" => inSession[g]
  /\ o = "Close" => dbOpen[db(g)]

\* Unlock gives up the session before it unlocks.
Call(g, o) ==
  /\ At(g, "idle")
  /\ calls < MaxCalls
  /\ MayCall(g, o)
  /\ calls' = calls + 1
  /\ op' = [op EXCEPT ![g] = o]
  /\ pc' = [pc EXCEPT ![g] = IF o \in Locking THEN "lock" ELSE IF o = "Unlock" THEN "unlock" ELSE "body"]
  /\ inSession' = [inSession EXCEPT ![g] = @ /\ o # "Unlock"]
  /\ sessionLocked' = [sessionLocked EXCEPT ![db(g)] = @ /\ o # "Unlock"]
  /\ UNCHANGED <<owner, fileLock, dbOpen, closed, tx, cursor, read, pending, seq, history, faults>>

-----------------------------------------------------------------------------
(* lock and unlock.                                                        *)

\* mutant: unlock does not look at the session
SkipsLock(g) == sessionLocked[db(g)] /\ op[g] \notin SessionOps /\ At(g, "lock")

\* a call inside of a session neither locks nor unlocks
Skips(g) == sessionLocked[db(g)] /\ op[g] \notin SessionOps

lock(g) ==
  /\ At(g, "lock")
  /\ Goto(g, IF Skips(g) THEN "body" ELSE "try")
  /\ UNCHANGED <<owner, handle, caller, seq, history, bounds>>

\* A new flock object tries until it has the file.
TryLock(g) ==
  /\ At(g, "try")
  /\ owner = None
  /\ owner' = g
  /\ Goto(g, "set")
  /\ UNCHANGED <<handle, caller, seq, history, bounds>>

\* mutant: no timeout while the file is kept by a call that has failed
TimeOutNever(g) ==
  /\ At(g, "try")
  /\ owner \notin leaked \cup {None}
  /\ Goto(g, "idle")
  /\ UNCHANGED <<owner, handle, caller, seq, history, bounds>>
TimeOut(g) ==
  /\ At(g, "try")
  /\ owner # None
  /\ Goto(g, "idle")
  /\ UNCHANGED <<owner, handle, caller, seq, history, bounds>>

\* The end of lock: the object is kept, the sql.DB opened if it has to be.  When
\* that fails, lock returns the error with the lock: no unlock follows.
SetLocked(g) ==
  /\ At(g, "set")
  /\ fileLock' = [fileLock EXCEPT ![db(g)] = g]
  /\ \/ /\ IF OpenCloseSync[db(g)] \/ ~dbOpen[db(g)]
           THEN /\ dbOpen' = [dbOpen EXCEPT ![db(g)] = TRUE]
                /\ closed' = [closed EXCEPT ![db(g)] = FALSE]
           ELSE UNCHANGED <<dbOpen, closed>>
        /\ Goto(g, "body")
        /\ UNCHANGED <<leaked, faults>>
     \/ /\ OpenCloseSync[db(g)] \/ ~dbOpen[db(g)]
        /\ faults < MaxFaults
        /\ faults' = faults + 1
        /\ leaked' = leaked \cup {g}
        /\ Goto(g, "idle")
        /\ UNCHANGED <<dbOpen, closed>>
  /\ UNCHANGED <<owner, sessionLocked, caller, seq, increments, calls>>

\* unlock closes the sql.DB first: when that fails it returns with the lock.
unlock(g) ==
  /\ At(g, "unlock")
  /\ \/ /\ Skips(g)
        /\ Goto(g, "idle")
        /\ UNCHANGED <<dbOpen, closed, leaked, faults>>
     \/ /\ ~Skips(g)
        /\ closed' = [closed EXCEPT ![db(g)] = @ \/ OpenCloseSync[db(g)]]
        /\ \/ /\ dbOpen' = [dbOpen EXCEPT ![db(g)] = @ /\ ~OpenCloseSync[db(g)]]
              /\ Goto(g, "test")
              /\ UNCHANGED <<leaked, faults>>
           \/ /\ OpenCloseSync[db(g)]
              /\ faults < MaxFaults
              /\ faults' = faults + 1
              /\ leaked' = leaked \cup {g}
              /\ Goto(g, "idle")
              /\ UNCHANGED dbOpen
  /\ UNCHANGED <<owner, fileLock, sessionLocked, caller, seq, increments, calls>>

\* if d.fileLock != nil
TestLocked(g) ==
  /\ At(g, "test")
  /\ Goto(g, IF fileLock[db(g)] = None THEN "idle" ELSE "release")
  /\ UNCHANGED <<owner, handle, caller, seq, history, bounds>>

\* fileLock.Unlock: nothing for an object that has not the file, a panic for nil.
\* When it fails the lock and the field stay.
Release(g) ==
  LET object == fileLock[db(g)] IN
  /\ At(g, "release")
  /\ \/ /\ owner' = IF object = owner THEN None ELSE owner
        /\ leaked' = IF object = owner THEN leaked \ {object} ELSE leaked
        /\ Goto(g, IF object = None THEN "idle" ELSE "clear")
        /\ UNCHANGED faults
     \/ /\ object # None /\ object = owner
        /\ faults < MaxFaults
        /\ faults' = faults + 1
        /\ leaked' = leaked \cup {object}
        /\ Goto(g, "idle")
        /\ UNCHANGED owner
  /\ UNCHANGED <<handle, caller, seq, increments, calls>>

\* d.fileLock = nil
ClearLocked(g) ==
  /\ At(g, "clear")
  /\ fileLock' = [fileLock EXCEPT ![db(g)] = None]
  /\ Goto(g, "idle")
  /\ UNCHANGED <<owner, sessionLocked, dbOpen, closed, caller, seq, history, bounds>>

-----------------------------------------------------------------------------
(* The calls between lock and unlock.                                      *)

Return(g) == Goto(g, IF op[g] \in Unlocking THEN "unlock" ELSE "idle")

Wrote(g) == pending[g] # None

\* SQLite: the transactions that wrote, and those that read or wrote
reserved(g) == tx[g] = "active" /\ Wrote(g)
shared(g)   == cursor[g] \/ (tx[g] = "active" /\ (read[g] # None \/ Wrote(g)))

\* SQLITE_BUSY: one writer, and no reader when a write is committed
Busy(g) ==
  \E k \in Goroutines \ {g} :
    \/ op[g] = "TxExec" /\ reserved(k)
    \/ op[g] = "Exec" /\ shared(k)
    \/ op[g] = "Commit" /\ Wrote(g) /\ shared(k)

\* sql.DB has one connection: its goroutines wait for it
HasConn(g) ==
  op[g] \in {"Exec", "Query", "Begin"} =>
    /\ ~closed[db(g)]
    /\ \A k \in Goroutines \ {g} : HandleOf[k] = db(g) => ~cursor[k] /\ tx[k] # "active"

Runs(g, o) == At(g, "body") /\ op[g] = o /\ HasConn(g) /\ ~Busy(g)

\* what a statement that increments seq writes: what its session read, if it did
Incremented(g) == (IF inSession[g] /\ read[g] # None THEN read[g] ELSE seq) + 1

Commits(g, value) ==
  /\ seq' = value
  /\ increments' = increments + 1

Exec(g) ==
  /\ Runs(g, "Exec")
  /\ Commits(g, Incremented(g))
  /\ read' = [read EXCEPT ![g] = None]
  /\ Return(g)
  /\ UNCHANGED <<owner, handle, inSession, tx, cursor, pending, leaked, bounds>>

\* Query and QueryRow: the rows are read by Scan, after the unlock
Query(g) ==
  /\ Runs(g, "Query")
  /\ read' = [read EXCEPT ![g] = seq]
  /\ cursor' = [cursor EXCEPT ![g] = TRUE]
  /\ Return(g)
  /\ UNCHANGED <<owner, handle, inSession, tx, pending, seq, history, bounds>>

Scan(g) ==
  /\ Runs(g, "Scan")
  /\ cursor' = [cursor EXCEPT ![g] = FALSE]
  /\ Return(g)
  /\ UNCHANGED <<owner, handle, inSession, tx, read, pending, seq, history, bounds>>

\* Begin and BeginTx return without an unlock
Begin(g) ==
  /\ Runs(g, "Begin")
  /\ tx' = [tx EXCEPT ![g] = "active"]
  /\ read' = [read EXCEPT ![g] = None]
  /\ Return(g)
  /\ UNCHANGED <<owner, handle, inSession, cursor, pending, seq, history, bounds>>

TxQuery(g) ==
  /\ Runs(g, "TxQuery")
  /\ read' = [read EXCEPT ![g] = IF Wrote(g) THEN pending[g] ELSE seq]
  /\ Return(g)
  /\ UNCHANGED <<owner, handle, inSession, tx, cursor, pending, seq, history, bounds>>

TxExec(g) ==
  /\ Runs(g, "TxExec")
  /\ pending' = [pending EXCEPT ![g] = (IF read[g] # None THEN read[g] ELSE seq) + 1]
  /\ Return(g)
  /\ UNCHANGED <<owner, handle, inSession, tx, cursor, read, seq, history, bounds>>

\* Commit and Rollback, of a transaction that is done too: ErrTxDone is no error
EndTx(g) ==
  /\ Runs(g, "Commit") \/ Runs(g, "Rollback")
  /\ IF op[g] = "Commit" /\ Wrote(g)
     THEN Commits(g, pending[g])
     ELSE UNCHANGED <<seq, increments>>
  /\ tx' = [tx EXCEPT ![g] = "done"]
  /\ pending' = [pending EXCEPT ![g] = None]
  /\ read' = [read EXCEPT ![g] = None]
  /\ Return(g)
  /\ UNCHANGED <<owner, handle, inSession, cursor, leaked, bounds>>

\* Open, once more when lock has opened; Close, which leaves dbOpen; Lock
Administer(g) ==
  /\ At(g, "body")
  /\ op[g] \in {"Open", "Close", "Lock"}
  /\ closed' = [closed EXCEPT ![db(g)] = CASE op[g] = "Open" -> FALSE [] op[g] = "Close" -> TRUE [] OTHER -> @]
  /\ sessionLocked' = [sessionLocked EXCEPT ![db(g)] = @ \/ op[g] = "Lock"]
  /\ inSession' = [inSession EXCEPT ![g] = @ \/ op[g] = "Lock"]
  /\ read' = [read EXCEPT ![g] = IF op[g] = "Lock" THEN None ELSE @]
  /\ Return(g)
  /\ UNCHANGED <<owner, fileLock, dbOpen, tx, cursor, pending, seq, history, bounds>>

Statements == {"Exec", "Query", "Scan", "Begin", "TxQuery", "TxExec", "Commit", "Rollback"}

\* processError: the statement fails, is busy until it is retried no more, or
\* finds its sql.DB closed.  Begin keeps the lock.  A Commit that is retried
\* finds its transaction done, which it answers as success.  Open may fail too.
Fails(g) ==
  /\ At(g, "body")
  /\ op[g] \in Statements \cup {"Open"}
  /\ \/ Busy(g) /\ UNCHANGED faults
     \/ op[g] \in {"Exec", "Query", "Begin"} /\ closed[db(g)] /\ UNCHANGED faults
     \/ HasConn(g) /\ ~Busy(g) /\ tx[g] # "done" /\ faults < MaxFaults /\ faults' = faults + 1
  /\ leaked' = IF op[g] = "Begin" /\ ~Skips(g) THEN leaked \cup {g} ELSE leaked
  /\ IF op[g] \in {"Commit", "Rollback"}
     THEN /\ tx' = [tx EXCEPT ![g] = "done"]
          /\ pending' = [pending EXCEPT ![g] = None]
     ELSE UNCHANGED <<tx, pending>>
  /\ cursor' = [cursor EXCEPT ![g] = FALSE]
  /\ read' = [read EXCEPT ![g] = None]
  /\ Return(g)
  /\ UNCHANGED <<owner, handle, inSession, seq, increments, calls>>

-----------------------------------------------------------------------------
(* The system.                                                             *)

\* The process of a handle dies and is started again.
Crash(h) ==
  LET dead == {g \in Goroutines : HandleOf[g] = h} IN
  /\ faults < MaxFaults
  /\ faults' = faults + 1
  /\ owner' = IF owner \in dead THEN None ELSE owner
  /\ fileLock' = [fileLock EXCEPT ![h] = None]
  /\ sessionLocked' = [sessionLocked EXCEPT ![h] = FALSE]
  /\ dbOpen' = [dbOpen EXCEPT ![h] = FALSE]
  /\ closed' = [closed EXCEPT ![h] = TRUE]
  /\ pc' = [g \in Goroutines |-> IF g \in dead THEN "idle" ELSE pc[g]]
  /\ op' = [g \in Goroutines |-> IF g \in dead THEN None ELSE op[g]]
  /\ inSession' = [g \in Goroutines |-> g \notin dead /\ inSession[g]]
  /\ tx' = [g \in Goroutines |-> IF g \in dead THEN "none" ELSE tx[g]]
  /\ cursor' = [g \in Goroutines |-> g \notin dead /\ cursor[g]]
  /\ read' = [g \in Goroutines |-> IF g \in dead THEN None ELSE read[g]]
  /\ pending' = [g \in Goroutines |-> IF g \in dead THEN None ELSE pending[g]]
  /\ leaked' = leaked \ dead
  /\ UNCHANGED <<seq, increments, calls>>

\* what the code does once it is called
Works(g) ==
  \/ lock(g) \/ TryLock(g) \/ TimeOut(g) \/ SetLocked(g)
  \/ Exec(g) \/ Query(g) \/ Scan(g) \/ Begin(g) \/ TxQuery(g) \/ TxExec(g) \/ EndTx(g)
  \/ Administer(g) \/ Fails(g)
  \/ unlock(g) \/ TestLocked(g) \/ Release(g) \/ ClearLocked(g)

Step(g) == (\E o \in Ops : Call(g, o)) \/ Works(g)

Next == (\E g \in Goroutines : Step(g)) \/ (\E h \in Handles : Crash(h))

Spec == Init /\ [][Next]_vars

\* A goroutine that is in a call goes on.
FairSpec == Spec /\ \A g \in Goroutines : WF_vars(Works(g))

-----------------------------------------------------------------------------
(* Properties.                                                             *)

\* The fields, the program counters and the history variables have their types.
TypeOK ==
  /\ owner \in Goroutines \cup {None}
  /\ fileLock \in [Handles -> Goroutines \cup {None}]
  /\ sessionLocked \in [Handles -> BOOLEAN]
  /\ dbOpen \in [Handles -> BOOLEAN]
  /\ closed \in [Handles -> BOOLEAN]
  /\ pc \in [Goroutines -> {"idle", "lock", "try", "set", "body", "unlock", "test", "release", "clear"}]
  /\ op \in [Goroutines -> Ops \cup {None}]
  /\ inSession \in [Goroutines -> BOOLEAN]
  /\ tx \in [Goroutines -> {"none", "active", "done"}]
  /\ cursor \in [Goroutines -> BOOLEAN]
  /\ read \in [Goroutines -> Nat \cup {None}]
  /\ pending \in [Goroutines -> Nat \cup {None}]
  /\ seq \in Nat /\ increments \in Nat
  /\ leaked \subseteq Goroutines
  /\ calls \in Nat
  /\ faults \in Nat

\* g is in a locked call, in its session or in its transaction
Inside(g) ==
  \/ At(g, "body") /\ op[g] \in Locking
  \/ inSession[g]
  \/ tx[g] = "active"

\* Between a lock that succeeds and the unlock of a call, of a session and of a
\* transaction nobody else is: syncronized.go is a mutex over a file for the
\* goroutines that have a handle of their own, whatever fails or dies.
Mutex == INSTANCE FileMutex WITH Users <- Goroutines, inside <- {g \in Goroutines : Inside(g)}
ImplementsMutex == Mutex!Spec

\* Whoever has the file is in a call, a session or a transaction that will give
\* it back, or met an error that keeps it and was not given it back since: open in
\* lock, Begin, and Close or the unlock of the file in unlock.
LockHasOwner ==
  owner # None =>
    \/ Inside(owner)
    \/ pc[owner] \in {"set", "body", "unlock", "test", "release"}
    \/ owner \in leaked

\* No increment is lost, be it one statement, a session that reads and then
\* writes, or a transaction.
NoLostUpdate == seq = increments

\* Each call returns, also after a lock was kept for ever: lock times out, and
\* a statement finds SQLite busy no longer than it is retried.
CallsReturn == \A g \in Goroutines : [](pc[g] # "idle" => <>(pc[g] = "idle"))
=============================================================================
