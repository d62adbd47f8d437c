--------------------------- MODULE FileStore_proofs -------------------------
(***************************************************************************)
(* Proofs about FileStore: for any number of clients, records, entries and *)
(* faults, scribble and the cache of cachz implement RecordStore, a        *)
(* ReadAll that nothing disturbs returns the records, and the numbers that *)
(* IncrementSeq returns increase.                                          *)
(***************************************************************************)
EXTENDS FileStore, Recursion, FiniteSetTheorems, TLAPS

Contents == 1 .. MaxCalls \cup {None, Torn}

Labels == {"idle", "called", "mkdir", "truncate", "fill", "rename", "stat", "remove", "reading", "writing",
           "unlock", "fail", "ok", "missing", "error"}

\* The types of the variables of the two stores.
TypeOK ==
  /\ dir \in BOOLEAN
  /\ file \in [Keys -> Contents]
  /\ tmp \in [Records -> Contents]
  /\ mutex \in [Locks -> Clients \cup {None}]
  /\ op \in [Clients -> Ops \cup {None}]
  /\ pc \in [Clients -> Labels]
  /\ key \in [Clients -> Keys \cup {None}]
  /\ DOMAIN value = Clients
  /\ changed \in [Clients -> SUBSET Records]
  /\ DOMAIN list = Clients
  /\ rest \in [Clients -> Seq(Records \X BOOLEAN)]
  /\ calls \in 0 .. MaxCalls
  /\ faults \in Nat

\* A client is at a place of its call, with a key and a value of its call.
PlaceInv ==
  \A c \in Clients :
    /\ op[c] = None => pc[c] = "idle"
    /\ op[c] = "write" =>
         pc[c] \in {"called", "mkdir", "truncate", "fill", "rename", "unlock", "fail", "ok", "error"}
    /\ op[c] = "delete" => pc[c] \in {"called", "stat", "remove", "unlock", "fail", "ok", "error"}
    /\ op[c] = "read" => pc[c] \in {"called", "ok", "missing", "error"}
    /\ op[c] = "readall" => pc[c] \in {"called", "reading", "ok", "missing", "error"}
    /\ op[c] = "store" => pc[c] \in {"called", "mkdir", "fill", "unlock", "fail", "ok", "error"}
    /\ op[c] = "load" => pc[c] \in {"called", "reading", "unlock", "fail", "ok", "error"}
    /\ op[c] = "increment" => pc[c] \in {"called", "writing", "ok"}
    /\ op[c] \in {"write", "read"} => key[c] \in Records
    /\ op[c] = "delete" => key[c] \in Records \cup {None}
    /\ op[c] \in {"store", "load"} => key[c] \in Entries
    /\ op[c] \in {"write", "store"} => value[c] \in 1 .. MaxCalls

\* who is between Lock and Unlock
InCollection(c) == op[c] \in {"write", "delete"} /\ pc[c] \notin {"called", "ok", "error"}
InCache(c)      == op[c] \in {"store", "load"} /\ pc[c] \notin {"called", "ok", "error"}

MutexInv ==
  \A c \in Clients :
    /\ InCollection(c) => mutex["collection"] = c
    /\ InCache(c) => mutex["cache"] = c

\* The records are in the directory of the collection.
DirInv ==
  /\ (\E k \in Records : file[k] # None) => dir
  /\ \A c \in Clients : op[c] = "write" /\ pc[c] \in {"truncate", "fill", "rename"} => dir

\* What is renamed is whole.
RecordInv == \A c \in Clients : At(c, "write", "rename") => tmp[key[c]] = value[c]

StoreInv == TypeOK /\ PlaceInv /\ MutexInv /\ DirInv /\ RecordInv

-----------------------------------------------------------------------------
(* Types and places.                                                       *)

LEMMA InitInv == Init => StoreInv
<1> SUFFICES ASSUME Init
             PROVE  StoreInv
  OBVIOUS
<1>1. TypeOK
  <2>1. /\ dir \in BOOLEAN /\ file \in [Keys -> Contents] /\ tmp \in [Records -> Contents]
        /\ mutex \in [Locks -> Clients \cup {None}]
    BY DEF Init, Contents
  <2>4. calls \in 0 .. MaxCalls /\ faults \in Nat
    BY BoundsAssumption DEF Init
  <2>2. /\ op \in [Clients -> Ops \cup {None}] /\ pc \in [Clients -> Labels]
        /\ key \in [Clients -> Keys \cup {None}] /\ DOMAIN value = Clients
    BY DEF Init, Labels
  <2>3. changed \in [Clients -> SUBSET Records] /\ DOMAIN list = Clients /\ rest \in [Clients -> Seq(Records \X BOOLEAN)]
    BY DEF Init
  <2> QED
    BY <2>1, <2>2, <2>3, <2>4 DEF TypeOK
<1>2. PlaceInv /\ MutexInv /\ DirInv /\ RecordInv
  BY NoneAssumption DEF Init, PlaceInv, MutexInv, DirInv, RecordInv, InCollection, InCache, At, Ops, Keys
<1> QED
  BY <1>1, <1>2 DEF StoreInv

\* The calls of a client, their end, and a crash.
LEMMA CallsKeepTypes ==
  ASSUME TypeOK, PlaceInv, Crash \/ \E c \in Clients : Calls(c) \/ Return(c)
  PROVE  (TypeOK /\ PlaceInv)'
<1> USE BoundsAssumption, NoneAssumption DEF TypeOK, PlaceInv, Labels, Keys, Ops, files, history
<1>1. CASE Crash
  BY <1>1 DEF Crash, Fault
<1>2. ASSUME NEW c \in Clients, NEW o \in Ops, NEW k \in Keys \cup {None}, Call(c, o, k),
             o \in {"write", "read"} => k \in Records,
             o = "delete" => k \in Records \cup {None},
             o \in {"store", "load"} => k \in Entries
      PROVE  (TypeOK /\ PlaceInv)'
  BY <1>2 DEF Call, Goto
<1>3. ASSUME NEW c \in Clients, Calls(c)
      PROVE  (TypeOK /\ PlaceInv)'
  <2>1. CASE \E k \in Records : Call(c, "write", k) \/ Call(c, "delete", k) \/ Call(c, "read", k)
    BY <1>2, <2>1
  <2>2. CASE Call(c, "delete", None) \/ Call(c, "readall", None)
    BY <1>2, <2>2
  <2>3. CASE \E k \in Entries : Call(c, "store", k) \/ Call(c, "load", k)
    BY <1>2, <2>3
  <2>4. CASE Call(c, "increment", None)
    BY <1>2, <2>4
  <2> QED
    BY <1>3, <2>1, <2>2, <2>3, <2>4 DEF Calls
<1>4. ASSUME NEW c \in Clients, Return(c)
      PROVE  (TypeOK /\ PlaceInv)'
  BY <1>4 DEF Return, Goto
<1> QED
  BY <1>1, <1>3, <1>4

LEMMA ScribbleKeepsTypes ==
  ASSUME TypeOK, PlaceInv, NEW c \in Clients,
         LockCollection(c) \/ MkCollection(c) \/ TruncateTmp(c) \/ FillTmp(c) \/ Rename(c)
           \/ WriteFails(c) \/ DeleteFails(c) \/ Stat(c) \/ RemoveFile(c) \/ RemoveDone(c) \/ UnlockCollection(c)
  PROVE  (TypeOK /\ PlaceInv)'
<1> USE BoundsAssumption, NoneAssumption, KeysAssumption
    DEF TypeOK, PlaceInv, Labels, Keys, Ops, files, history, At, Goto, Lock, Unlock, Locks, Contents, Changes, Fault
<1>1. CASE LockCollection(c)
  BY <1>1 DEF LockCollection
<1>2. CASE MkCollection(c)
  BY <1>2 DEF MkCollection
<1>3. CASE TruncateTmp(c)
  BY <1>3 DEF TruncateTmp
<1>4. CASE FillTmp(c)
  BY <1>4 DEF FillTmp
<1>5. CASE Rename(c)
  BY <1>5 DEF Rename
<1>6. CASE WriteFails(c)
  BY <1>6 DEF WriteFails
<1>7. CASE Stat(c)
  BY <1>7 DEF Stat
<1>8. CASE RemoveFile(c)
  <2> DEFINE ks == IF key[c] = None THEN Records ELSE {key[c]}
  <2>1. ks \in SUBSET Records /\ pc[c] = "remove"
    BY <1>8 DEF RemoveFile
  <2>2. PICK k \in ks :
          \/ file[k] # None /\ file' = [file EXCEPT ![k] = None] /\ UNCHANGED tmp
          \/ key[c] = None /\ tmp[k] # None /\ tmp' = [tmp EXCEPT ![k] = None] /\ UNCHANGED file
    <3>1. RemoveFile(c)
      BY <1>8
    <3> QED
      BY ONLY <3>1 DEF RemoveFile
  <2>3. Changes(ks) /\ UNCHANGED <<dir, mutex, pc, op, key, value, list, rest, calls, faults>>
    BY <1>8 DEF RemoveFile
  <2> HIDE DEF ks
  <2>4. file' \in [Keys -> Contents] /\ tmp' \in [Records -> Contents]
    BY <2>1, <2>2
  <2>5. changed' \in [Clients -> SUBSET Records]
    BY <2>1, <2>3
  <2> QED
    BY <2>1, <2>3, <2>4, <2>5
<1>9. CASE RemoveDone(c)
  BY <1>9 DEF RemoveDone
<1>10. CASE UnlockCollection(c)
  BY <1>10 DEF UnlockCollection
<1>11. CASE DeleteFails(c)
  BY <1>11 DEF DeleteFails
<1> QED
  BY <1>1, <1>2, <1>3, <1>4, <1>5, <1>6, <1>7, <1>8, <1>9, <1>10, <1>11

-----------------------------------------------------------------------------
\* A directory is read in some order, each of its files once.
LEMMA SetToSeqFacts ==
  ASSUME NEW S, IsFiniteSet(S)
  PROVE  /\ SetToSeq(S) \in Seq(S)
         /\ \A x \in S : \E i \in 1 .. Len(SetToSeq(S)) : SetToSeq(S)[i] = x
<1> DEFINE n == Cardinality(S)
<1>1. n \in Nat /\ ExistsBijection(1 .. n, S)
  BY FS_CardinalityType
<1>2. PICK f \in [1 .. n -> S] : IsInjective(f)
  BY <1>1 DEF ExistsBijection, Bijection, Injection
<1>3. SetToSeq(S) \in [1 .. n -> S] /\ IsInjective(SetToSeq(S))
  BY <1>2 DEF SetToSeq
<1> DEFINE g == SetToSeq(S)
<1>4. g \in Injection(1 .. n, S)
  BY <1>3 DEF Injection
<1>5. IsFiniteSet(1 .. n) /\ Cardinality(1 .. n) = n
  BY <1>1, FS_Interval
<1>6. g \in Surjection(1 .. n, S)
  BY <1>4, <1>5, FS_Injection
<1> HIDE DEF n, g
<1>7. g \in Seq(S) /\ Len(g) = n
  BY <1>1, <1>3 DEF g
<1> QED
  BY <1>6, <1>7 DEF Surjection, g

\* what is in the directory of the collection
Names == {<<k, FALSE>> : k \in {r \in Records : file[r] # None}}
           \cup {<<k, TRUE>> : k \in {r \in Records : tmp[r] # None}}

LEMMA NamesFacts ==
  /\ SetToSeq(Names) \in Seq(Names)
  /\ Names \subseteq Records \X BOOLEAN
  /\ SetToSeq(Names) \in Seq(Records \X BOOLEAN)
  /\ \A x \in Names : \E i \in 1 .. Len(SetToSeq(Names)) : SetToSeq(Names)[i] = x
<1>1. Names \subseteq Records \X BOOLEAN
  <2> SUFFICES ASSUME NEW x \in Names
               PROVE  x \in Records \X BOOLEAN
    OBVIOUS
  <2>1. PICK k \in Records : x = <<k, FALSE>> \/ x = <<k, TRUE>>
    BY Zenon DEF Names
  <2>2. <<k, FALSE>> \in Records \X BOOLEAN /\ <<k, TRUE>> \in Records \X BOOLEAN
    OBVIOUS
  <2> QED
    BY <2>1, <2>2, Zenon
<1>2. IsFiniteSet(BOOLEAN)
  <2>1. IsFiniteSet({TRUE}) /\ IsFiniteSet({FALSE})
    BY FS_Singleton, Zenon
  <2>2. IsFiniteSet({TRUE} \cup {FALSE})
    BY <2>1, FS_Union, Zenon
  <2>3. BOOLEAN = {TRUE} \cup {FALSE}
    OBVIOUS
  <2> QED
    BY <2>2, <2>3, Zenon
<1>3. IsFiniteSet(Names)
  BY <1>1, <1>2, KeysAssumption, FS_Product, FS_Subset
<1>4. SetToSeq(Names) \in Seq(Names)
  BY <1>3, SetToSeqFacts
<1> QED
  BY <1>1, <1>3, <1>4, SetToSeqFacts

LEMMA ReadsKeepTypes ==
  ASSUME TypeOK, PlaceInv, NEW c \in Clients, Read(c) \/ ReadDir(c) \/ ReadNext(c) \/ ReadFails(c)
  PROVE  (TypeOK /\ PlaceInv)'
<1> USE DEF TypeOK, PlaceInv, Labels, Ops, files, history, At, Goto
<1>1. CASE Read(c)
  BY <1>1 DEF Read
<1>2. CASE ReadDir(c)
  BY <1>2, NamesFacts DEF ReadDir, Names
<1>3. CASE ReadNext(c)
  <2>1. rest' = rest \/ (rest[c] # <<>> /\ rest' = [rest EXCEPT ![c] = Tail(@)])
    BY <1>3 DEF ReadNext
  <2>2. pc' \in {pc, [pc EXCEPT ![c] = "ok"], [pc EXCEPT ![c] = "missing"]} /\ DOMAIN list' = Clients
    BY <1>3 DEF ReadNext
  <2>3. At(c, "readall", "reading") /\ UNCHANGED <<dir, file, tmp, mutex, op, key, value, changed, calls, faults>>
    BY <1>3 DEF ReadNext
  <2>4. rest' \in [Clients -> Seq(Records \X BOOLEAN)]
    <3>1. ASSUME rest[c] # <<>> PROVE Tail(rest[c]) \in Seq(Records \X BOOLEAN)
      BY <3>1
    <3>2. CASE rest' = rest
      BY <3>2
    <3>3. CASE rest[c] # <<>> /\ rest' = [rest EXCEPT ![c] = Tail(@)]
      BY <3>1, <3>3
    <3> QED
      BY <2>1, <3>2, <3>3
  <2> QED
    BY <2>2, <2>3, <2>4
<1>4. CASE ReadFails(c)
  BY <1>4 DEF ReadFails, Fault
<1> QED
  BY <1>1, <1>2, <1>3, <1>4

LEMMA CacheKeepsTypes ==
  ASSUME TypeOK, PlaceInv, NEW c \in Clients,
         LockCache(c) \/ TruncateEntry(c) \/ FillEntry(c) \/ MkdirFails(c) \/ StoreFails(c) \/ LoadFails(c)
           \/ Load(c) \/ UnlockCache(c) \/ ReadToIncrement(c) \/ Increment(c)
  PROVE  (TypeOK /\ PlaceInv)'
<1> USE BoundsAssumption, NoneAssumption, KeysAssumption
    DEF TypeOK, PlaceInv, Labels, Keys, Ops, files, history, At, Goto, Lock, Unlock, Locks, Contents, Fault
<1>1. CASE LockCache(c)
  BY <1>1 DEF LockCache
<1>2. CASE TruncateEntry(c)
  BY <1>2 DEF TruncateEntry
<1>3. CASE FillEntry(c)
  BY <1>3 DEF FillEntry
<1>4. CASE MkdirFails(c)
  BY <1>4 DEF MkdirFails
<1>5. CASE StoreFails(c)
  BY <1>5 DEF StoreFails
<1>6. CASE Load(c)
  BY <1>6 DEF Load
<1>7. CASE UnlockCache(c)
  BY <1>7 DEF UnlockCache
<1>8. CASE ReadToIncrement(c)
  BY <1>8 DEF ReadToIncrement
<1>9. CASE Increment(c)
  BY <1>9 DEF Increment
<1>10. CASE LoadFails(c)
  BY <1>10 DEF LoadFails
<1> QED
  BY <1>1, <1>2, <1>3, <1>4, <1>5, <1>6, <1>7, <1>8, <1>9, <1>10

\* The type invariant of the two stores.
LEMMA TypesKept ==
  ASSUME TypeOK, PlaceInv, [Next]_vars
  PROVE  (TypeOK /\ PlaceInv)'
<1>1. CASE UNCHANGED vars
  BY <1>1 DEF vars, files, client, history, TypeOK, PlaceInv
<1>2. ASSUME NEW c \in Clients, Step(c)
      PROVE  (TypeOK /\ PlaceInv)'
  BY <1>2, CallsKeepTypes, ScribbleKeepsTypes, ReadsKeepTypes, CacheKeepsTypes DEF Step
<1>3. ASSUME NEW c \in Clients, Fails(c)
      PROVE  (TypeOK /\ PlaceInv)'
  BY <1>3, ScribbleKeepsTypes, ReadsKeepTypes, CacheKeepsTypes DEF Fails
<1> QED
  BY <1>1, <1>2, <1>3, CallsKeepTypes DEF Next

-----------------------------------------------------------------------------
(* The mutexes.                                                            *)

\* A call begins, and is in no mutex yet.
LEMMA CallFacts ==
  ASSUME TypeOK, PlaceInv, NEW c \in Clients, Calls(c)
  PROVE  /\ op[c] = None /\ pc[c] = "idle" /\ pc' = [pc EXCEPT ![c] = "called"]
         /\ \E o \in Ops, k \in Keys \cup {None} :
              /\ op' = [op EXCEPT ![c] = o] /\ key' = [key EXCEPT ![c] = k]
              /\ value' = [value EXCEPT ![c] = IF o \in {"write", "store"} THEN calls + 1 ELSE None]
              /\ o \in {"write", "read"} => k \in Records
              /\ o = "delete" => k \in Records \cup {None}
              /\ o \in {"store", "load"} => k \in Entries
         /\ calls < MaxCalls
         /\ UNCHANGED <<files, mutex, list, rest, changed>>
<1>1. ASSUME NEW o \in Ops, NEW k \in Keys \cup {None}, Call(c, o, k)
      PROVE  /\ op[c] = None /\ pc[c] = "idle" /\ pc' = [pc EXCEPT ![c] = "called"]
             /\ op' = [op EXCEPT ![c] = o] /\ key' = [key EXCEPT ![c] = k]
             /\ value' = [value EXCEPT ![c] = IF o \in {"write", "store"} THEN calls + 1 ELSE None]
             /\ calls < MaxCalls
             /\ UNCHANGED <<files, mutex, list, rest, changed>>
  BY <1>1 DEF Call, Goto, TypeOK, PlaceInv, Ops
<1>2. PICK o \in Ops, k \in Keys \cup {None} :
        /\ Call(c, o, k)
        /\ o \in {"write", "read"} => k \in Records
        /\ o = "delete" => k \in Records \cup {None}
        /\ o \in {"store", "load"} => k \in Entries
  BY DEF Calls, Ops, Keys
<1> QED
  BY <1>1, <1>2

LEMMA MutexKept ==
  ASSUME TypeOK, PlaceInv, MutexInv, [Next]_vars
  PROVE  MutexInv'
<1> USE NoneAssumption DEF MutexInv, InCollection, InCache, Locks, files, history, At, Goto, Lock, Unlock
<1>1. CASE UNCHANGED vars
  BY <1>1 DEF vars, client
<1>2. CASE Crash
  BY <1>2 DEF Crash, Ops
<1>3. ASSUME NEW c \in Clients, Calls(c)
      PROVE  MutexInv'
  <2>1. mutex' = mutex /\ pc'[c] = "called"
    BY <1>3, CallFacts DEF TypeOK
  <2>2. \A d \in Clients \ {c} : pc'[d] = pc[d] /\ op'[d] = op[d]
    BY <1>3, CallFacts DEF TypeOK
  <2> QED
    BY <2>1, <2>2
<1>4. ASSUME NEW c \in Clients, LockCollection(c)
      PROVE  MutexInv'
  BY <1>4 DEF LockCollection, TypeOK, PlaceInv
<1>5. ASSUME NEW c \in Clients, MkCollection(c)
      PROVE  MutexInv'
  BY <1>5 DEF MkCollection, TypeOK, PlaceInv
<1>6. ASSUME NEW c \in Clients, TruncateTmp(c)
      PROVE  MutexInv'
  BY <1>6 DEF TruncateTmp, TypeOK, PlaceInv
<1>7. ASSUME NEW c \in Clients, FillTmp(c)
      PROVE  MutexInv'
  BY <1>7 DEF FillTmp, TypeOK, PlaceInv
<1>8. ASSUME NEW c \in Clients, Rename(c)
      PROVE  MutexInv'
  BY <1>8 DEF Rename, TypeOK, PlaceInv
<1>9. ASSUME NEW c \in Clients, WriteFails(c)
      PROVE  MutexInv'
  BY <1>9 DEF WriteFails, TypeOK, PlaceInv
<1>10. ASSUME NEW c \in Clients, Stat(c)
      PROVE  MutexInv'
  BY <1>10 DEF Stat, TypeOK, PlaceInv
<1>11. ASSUME NEW c \in Clients, RemoveFile(c)
      PROVE  MutexInv'
  BY <1>11 DEF RemoveFile, TypeOK, PlaceInv
<1>12. ASSUME NEW c \in Clients, RemoveDone(c)
      PROVE  MutexInv'
  BY <1>12 DEF RemoveDone, TypeOK, PlaceInv
<1>13. ASSUME NEW c \in Clients, UnlockCollection(c)
      PROVE  MutexInv'
  BY <1>13 DEF UnlockCollection, TypeOK, PlaceInv
<1>14. ASSUME NEW c \in Clients, Read(c)
      PROVE  MutexInv'
  BY <1>14 DEF Read, TypeOK, PlaceInv
<1>15. ASSUME NEW c \in Clients, ReadDir(c)
      PROVE  MutexInv'
  BY <1>15 DEF ReadDir, TypeOK, PlaceInv
<1>16. ASSUME NEW c \in Clients, ReadNext(c)
      PROVE  MutexInv'
  <2>1. op[c] = "readall" /\ UNCHANGED <<mutex, op>> /\ \A d \in Clients \ {c} : pc'[d] = pc[d]
    BY <1>16 DEF ReadNext, TypeOK
  <2> QED
    BY <2>1
<1>17. ASSUME NEW c \in Clients, LockCache(c)
      PROVE  MutexInv'
  BY <1>17 DEF LockCache, TypeOK, PlaceInv
<1>18. ASSUME NEW c \in Clients, TruncateEntry(c)
      PROVE  MutexInv'
  BY <1>18 DEF TruncateEntry, TypeOK, PlaceInv
<1>19. ASSUME NEW c \in Clients, FillEntry(c)
      PROVE  MutexInv'
  BY <1>19 DEF FillEntry, TypeOK, PlaceInv
<1>20. ASSUME NEW c \in Clients, MkdirFails(c)
      PROVE  MutexInv'
  BY <1>20 DEF MkdirFails, TypeOK, PlaceInv
<1>21. ASSUME NEW c \in Clients, StoreFails(c)
      PROVE  MutexInv'
  BY <1>21 DEF StoreFails, TypeOK, PlaceInv
<1>22. ASSUME NEW c \in Clients, Load(c)
      PROVE  MutexInv'
  BY <1>22 DEF Load, TypeOK, PlaceInv
<1>23. ASSUME NEW c \in Clients, UnlockCache(c)
      PROVE  MutexInv'
  BY <1>23 DEF UnlockCache, TypeOK, PlaceInv
<1>24. ASSUME NEW c \in Clients, ReadToIncrement(c)
      PROVE  MutexInv'
  BY <1>24 DEF ReadToIncrement, TypeOK, PlaceInv
<1>25. ASSUME NEW c \in Clients, Increment(c)
      PROVE  MutexInv'
  BY <1>25 DEF Increment, TypeOK, PlaceInv
<1>26. ASSUME NEW c \in Clients, Return(c)
      PROVE  MutexInv'
  BY <1>26 DEF Return, TypeOK, PlaceInv, Ops
<1>27. ASSUME NEW c \in Clients, DeleteFails(c)
      PROVE  MutexInv'
  BY <1>27 DEF DeleteFails, TypeOK, PlaceInv
<1>28. ASSUME NEW c \in Clients, ReadFails(c)
      PROVE  MutexInv'
  BY <1>28 DEF ReadFails, TypeOK, PlaceInv
<1>29. ASSUME NEW c \in Clients, LoadFails(c)
      PROVE  MutexInv'
  BY <1>29 DEF LoadFails, TypeOK, PlaceInv
<1> QED
  BY <1>1, <1>2, <1>3, <1>4, <1>5, <1>6, <1>7, <1>8, <1>9, <1>10, <1>11, <1>12, <1>13, <1>14, <1>15, <1>16, <1>17, <1>18, <1>19, <1>20, <1>21, <1>22, <1>23, <1>24, <1>25, <1>26, <1>27, <1>28, <1>29 DEF Next, Step, Fails

-----------------------------------------------------------------------------
(* The records, which change under the mutex of the collection.            *)

LEMMA RecordsKept ==
  ASSUME StoreInv, [Next]_vars
  PROVE  (DirInv /\ RecordInv)'
<1> USE NoneAssumption, KeysAssumption DEF DirInv, RecordInv, Keys, files, history, At, Goto
<1>0. TypeOK /\ PlaceInv /\ MutexInv /\ DirInv /\ RecordInv
  BY DEF StoreInv
<1>a. ASSUME NEW c \in Clients, NEW d \in Clients \ {c}, InCollection(c), op[d] \in {"write", "delete"}
      PROVE  pc[d] \in {"called", "ok", "error"}
  BY <1>0, <1>a DEF MutexInv, InCollection
<1>1. CASE UNCHANGED vars
  BY <1>0, <1>1 DEF vars, client
<1>2. CASE Crash
  BY <1>0, <1>2 DEF Crash, Ops
<1>3. ASSUME NEW c \in Clients, Calls(c)
      PROVE  (DirInv /\ RecordInv)'
  <2>1. UNCHANGED <<dir, file, tmp>> /\ pc'[c] = "called"
    BY <1>0, <1>3, CallFacts DEF TypeOK
  <2>2. \A d \in Clients \ {c} : pc'[d] = pc[d] /\ op'[d] = op[d] /\ key'[d] = key[d] /\ value'[d] = value[d]
    BY <1>0, <1>3, CallFacts DEF TypeOK
  <2> QED
    BY <1>0, <2>1, <2>2
<1>4. ASSUME NEW c \in Clients, LockCollection(c)
      PROVE  (DirInv /\ RecordInv)'
  BY <1>0, <1>a, <1>4 DEF LockCollection, TypeOK, PlaceInv, InCollection
<1>5. ASSUME NEW c \in Clients, MkCollection(c)
      PROVE  (DirInv /\ RecordInv)'
  BY <1>0, <1>a, <1>5 DEF MkCollection, TypeOK, PlaceInv, InCollection
<1>6. ASSUME NEW c \in Clients, TruncateTmp(c)
      PROVE  (DirInv /\ RecordInv)'
  BY <1>0, <1>a, <1>6 DEF TruncateTmp, TypeOK, PlaceInv, InCollection
<1>7. ASSUME NEW c \in Clients, FillTmp(c)
      PROVE  (DirInv /\ RecordInv)'
  BY <1>0, <1>a, <1>7 DEF FillTmp, TypeOK, PlaceInv, InCollection
<1>8. ASSUME NEW c \in Clients, Rename(c)
      PROVE  (DirInv /\ RecordInv)'
  BY <1>0, <1>a, <1>8 DEF Rename, TypeOK, PlaceInv, InCollection
<1>9. ASSUME NEW c \in Clients, WriteFails(c)
      PROVE  (DirInv /\ RecordInv)'
  BY <1>0, <1>a, <1>9 DEF WriteFails, TypeOK, PlaceInv, InCollection
<1>10. ASSUME NEW c \in Clients, Stat(c)
      PROVE  (DirInv /\ RecordInv)'
  BY <1>0, <1>a, <1>10 DEF Stat, TypeOK, PlaceInv, InCollection
<1>11. ASSUME NEW c \in Clients, RemoveFile(c)
      PROVE  (DirInv /\ RecordInv)'
  <2>1. PICK k \in IF key[c] = None THEN Records ELSE {key[c]} :
          \/ file[k] # None /\ file' = [file EXCEPT ![k] = None] /\ UNCHANGED tmp
          \/ key[c] = None /\ tmp[k] # None /\ tmp' = [tmp EXCEPT ![k] = None] /\ UNCHANGED file
    <3>1. RemoveFile(c)
      BY <1>11
    <3> QED
      BY ONLY <3>1 DEF RemoveFile
  <2>2. At(c, "delete", "remove") /\ UNCHANGED <<dir, pc, op, key, value>>
    BY <1>11 DEF RemoveFile
  <2>3. \A r \in Keys : file'[r] \in {file[r], None}
    BY <1>0, <2>1 DEF TypeOK
  <2>4. \A d \in Clients : op[d] \in {"write", "delete"} => d = c \/ pc[d] \in {"called", "ok", "error"}
    BY <1>a, <2>2 DEF InCollection
  <2>5. DirInv'
    BY <1>0, <2>2, <2>3
  <2>6. RecordInv'
    BY <2>2, <2>4
  <2> QED
    BY <2>5, <2>6
<1>12. ASSUME NEW c \in Clients, RemoveDone(c)
      PROVE  (DirInv /\ RecordInv)'
  <2>1. At(c, "delete", "remove") /\ pc' = [pc EXCEPT ![c] = "unlock"]
        /\ UNCHANGED <<file, tmp, op, key, value>>
    BY <1>12 DEF RemoveDone
  <2>2. \/ key[c] = None /\ (\A k \in Records : file[k] = None) /\ dir' = FALSE
        \/ key[c] # None /\ file[key[c]] = None /\ dir' = dir
    BY <1>12 DEF RemoveDone
  <2>3. \A d \in Clients : op[d] \in {"write", "delete"} => d = c \/ pc[d] \in {"called", "ok", "error"}
    BY <1>a, <2>1 DEF InCollection
  <2>4. \A d \in Clients \ {c} : pc'[d] = pc[d]
    BY <1>0, <2>1 DEF TypeOK
  <2>5. pc'[c] = "unlock"
    BY <1>0, <2>1 DEF TypeOK
  <2>6. DirInv'
    BY <1>0, <2>1, <2>2, <2>3, <2>4, <2>5
  <2>7. RecordInv'
    BY <2>1, <2>2, <2>3, <2>4, <2>5
  <2> QED
    BY <2>6, <2>7
<1>13. ASSUME NEW c \in Clients, UnlockCollection(c)
      PROVE  (DirInv /\ RecordInv)'
  BY <1>0, <1>a, <1>13 DEF UnlockCollection, TypeOK, PlaceInv, InCollection
<1>14. ASSUME NEW c \in Clients, Read(c)
      PROVE  (DirInv /\ RecordInv)'
  BY <1>0, <1>a, <1>14 DEF Read, TypeOK, PlaceInv, InCollection
<1>15. ASSUME NEW c \in Clients, ReadDir(c)
      PROVE  (DirInv /\ RecordInv)'
  BY <1>0, <1>a, <1>15 DEF ReadDir, TypeOK, PlaceInv, InCollection
<1>16. ASSUME NEW c \in Clients, ReadNext(c)
      PROVE  (DirInv /\ RecordInv)'
  <2>1. op[c] = "readall" /\ UNCHANGED <<dir, file, tmp, op, key, value>> /\ \A d \in Clients \ {c} : pc'[d] = pc[d]
    BY <1>0, <1>16 DEF ReadNext, TypeOK
  <2> QED
    BY <1>0, <2>1
<1>17. ASSUME NEW c \in Clients, LockCache(c)
      PROVE  (DirInv /\ RecordInv)'
  BY <1>0, <1>a, <1>17 DEF LockCache, TypeOK, PlaceInv, InCollection
<1>18. ASSUME NEW c \in Clients, TruncateEntry(c)
      PROVE  (DirInv /\ RecordInv)'
  BY <1>0, <1>a, <1>18 DEF TruncateEntry, TypeOK, PlaceInv, InCollection
<1>19. ASSUME NEW c \in Clients, FillEntry(c)
      PROVE  (DirInv /\ RecordInv)'
  BY <1>0, <1>a, <1>19 DEF FillEntry, TypeOK, PlaceInv, InCollection
<1>20. ASSUME NEW c \in Clients, MkdirFails(c)
      PROVE  (DirInv /\ RecordInv)'
  BY <1>0, <1>a, <1>20 DEF MkdirFails, TypeOK, PlaceInv, InCollection
<1>21. ASSUME NEW c \in Clients, StoreFails(c)
      PROVE  (DirInv /\ RecordInv)'
  BY <1>0, <1>a, <1>21 DEF StoreFails, TypeOK, PlaceInv, InCollection
<1>22. ASSUME NEW c \in Clients, Load(c)
      PROVE  (DirInv /\ RecordInv)'
  BY <1>0, <1>a, <1>22 DEF Load, TypeOK, PlaceInv, InCollection
<1>23. ASSUME NEW c \in Clients, UnlockCache(c)
      PROVE  (DirInv /\ RecordInv)'
  BY <1>0, <1>a, <1>23 DEF UnlockCache, TypeOK, PlaceInv, InCollection
<1>24. ASSUME NEW c \in Clients, ReadToIncrement(c)
      PROVE  (DirInv /\ RecordInv)'
  BY <1>0, <1>a, <1>24 DEF ReadToIncrement, TypeOK, PlaceInv, InCollection
<1>25. ASSUME NEW c \in Clients, Increment(c)
      PROVE  (DirInv /\ RecordInv)'
  BY <1>0, <1>a, <1>25 DEF Increment, TypeOK, PlaceInv, InCollection
<1>26. ASSUME NEW c \in Clients, Return(c)
      PROVE  (DirInv /\ RecordInv)'
  BY <1>0, <1>a, <1>26 DEF Return, TypeOK, PlaceInv, InCollection
<1>27. ASSUME NEW c \in Clients, DeleteFails(c)
      PROVE  (DirInv /\ RecordInv)'
  BY <1>0, <1>a, <1>27 DEF DeleteFails, TypeOK, PlaceInv, InCollection
<1>28. ASSUME NEW c \in Clients, ReadFails(c)
      PROVE  (DirInv /\ RecordInv)'
  BY <1>0, <1>a, <1>28 DEF ReadFails, TypeOK, PlaceInv, InCollection
<1>29. ASSUME NEW c \in Clients, LoadFails(c)
      PROVE  (DirInv /\ RecordInv)'
  BY <1>0, <1>a, <1>29 DEF LoadFails, TypeOK, PlaceInv, InCollection
<1> QED
  BY <1>1, <1>2, <1>3, <1>4, <1>5, <1>6, <1>7, <1>8, <1>9, <1>10, <1>11, <1>12, <1>13, <1>14, <1>15, <1>16, <1>17, <1>18, <1>19, <1>20, <1>21, <1>22, <1>23, <1>24, <1>25, <1>26, <1>27, <1>28, <1>29 DEF Next, Step, Fails

\* The types, the places of the calls and who is in which mutex, the records that
\* are only in a directory that exists, and what Rename and Unlock find: the
\* inductive invariant of scribble and of the cache.
THEOREM StoreInvariant == Spec => []StoreInv
<1>1. StoreInv /\ [Next]_vars => StoreInv'
  BY TypesKept, MutexKept, RecordsKept DEF StoreInv
<1> QED
  BY <1>1, InitInv, PTL DEF Spec

-----------------------------------------------------------------------------
(* The steps of RecordStore.                                               *)

SameClient(d) == op'[d] = op[d] /\ pc'[d] = pc[d] /\ key'[d] = key[d] /\ value'[d] = value[d]

\* What a client sees of the abstract store.
View(c) == <<AbstractCall(c), AbstractOutcome(c), AbstractResult(c)>>

\* A step of one client changes what it alone sees.
LEMMA StepOfOne ==
  ASSUME NEW c \in Clients, \A d \in Clients \ {c} : SameClient(d)
  PROVE  /\ [d \in Clients |-> AbstractCall(d)]' = [[d \in Clients |-> AbstractCall(d)] EXCEPT ![c] = AbstractCall(c)']
         /\ [d \in Clients |-> AbstractOutcome(d)]'
              = [[d \in Clients |-> AbstractOutcome(d)] EXCEPT ![c] = AbstractOutcome(c)']
         /\ [d \in Clients |-> AbstractResult(d)]'
              = [[d \in Clients |-> AbstractResult(d)] EXCEPT ![c] = AbstractResult(c)']
<1>1. \A d \in Clients \ {c} : AbstractCall(d)' = AbstractCall(d)
  BY DEF SameClient, AbstractCall
<1>2. \A d \in Clients \ {c} : AbstractOutcome(d)' = AbstractOutcome(d)
  BY DEF SameClient, AbstractOutcome
<1>3. \A d \in Clients \ {c} : AbstractResult(d)' = AbstractResult(d)
  BY DEF SameClient, AbstractResult
<1> QED
  BY <1>1, <1>2, <1>3

LEMMA NothingSeen ==
  ASSUME NEW c \in Clients, \A d \in Clients \ {c} : SameClient(d), View(c)' = View(c), UNCHANGED file
  PROVE  UNCHANGED Store!vars
<1>1. AbstractCall(c)' = AbstractCall(c) /\ AbstractOutcome(c)' = AbstractOutcome(c) /\ AbstractResult(c)' = AbstractResult(c)
  BY DEF View
<1>2. /\ [d \in Clients |-> AbstractCall(d)]' = [d \in Clients |-> AbstractCall(d)]
      /\ [d \in Clients |-> AbstractOutcome(d)]' = [d \in Clients |-> AbstractOutcome(d)]
      /\ [d \in Clients |-> AbstractResult(d)]' = [d \in Clients |-> AbstractResult(d)]
  BY <1>1, StepOfOne
<1> QED
  BY <1>2 DEF Store!vars

\* The locks, and what happens to directories and .tmp files.
LEMMA QuietSteps ==
  ASSUME StoreInv, NEW c \in Clients,
         LockCollection(c) \/ MkCollection(c) \/ TruncateTmp(c) \/ FillTmp(c)
           \/ LockCache(c) \/ UnlockCache(c) \/ ReadDir(c) \/ ReadNext(c) \/ ReadToIncrement(c) \/ Increment(c)
           \/ UnlockCollection(c)
  PROVE  UNCHANGED Store!vars
<1>0. TypeOK /\ PlaceInv
  BY DEF StoreInv
<1>1. (\A d \in Clients \ {c} : SameClient(d)) /\ UNCHANGED file
  BY <1>0 DEF SameClient, TypeOK, files, Goto, LockCollection, MkCollection, TruncateTmp, FillTmp,
       LockCache, UnlockCache, ReadDir, ReadNext, ReadToIncrement, Increment, UnlockCollection
<1> USE NoneAssumption DEF View, AbstractCall, AbstractOutcome, AbstractResult, TypeOK, PlaceInv, files, Goto, At
<1>2. CASE LockCollection(c)
  <2>1. View(c)' = View(c)
    BY <1>0, <1>2 DEF LockCollection
  <2> QED
    BY <1>1, <2>1, NothingSeen
<1>3. CASE MkCollection(c)
  <2>1. View(c)' = View(c)
    BY <1>0, <1>3 DEF MkCollection
  <2> QED
    BY <1>1, <2>1, NothingSeen
<1>4. CASE TruncateTmp(c)
  <2>1. View(c)' = View(c)
    BY <1>0, <1>4 DEF TruncateTmp
  <2> QED
    BY <1>1, <2>1, NothingSeen
<1>5. CASE FillTmp(c)
  <2>1. View(c)' = View(c)
    BY <1>0, <1>5 DEF FillTmp
  <2> QED
    BY <1>1, <2>1, NothingSeen
<1>8. CASE LockCache(c)
  <2>1. View(c)' = View(c)
    BY <1>0, <1>8 DEF LockCache
  <2> QED
    BY <1>1, <2>1, NothingSeen
<1>9. CASE UnlockCache(c)
  <2>1. View(c)' = View(c)
    BY <1>0, <1>9 DEF UnlockCache
  <2> QED
    BY <1>1, <2>1, NothingSeen
<1>10. CASE ReadDir(c)
  <2>1. View(c)' = View(c)
    BY <1>0, <1>10 DEF ReadDir
  <2> QED
    BY <1>1, <2>1, NothingSeen
<1>11. CASE ReadNext(c)
  <2>1. View(c)' = View(c)
    BY <1>0, <1>11 DEF ReadNext
  <2> QED
    BY <1>1, <2>1, NothingSeen
<1>12. CASE ReadToIncrement(c)
  <2>1. View(c)' = View(c)
    BY <1>0, <1>12 DEF ReadToIncrement
  <2> QED
    BY <1>1, <2>1, NothingSeen
<1>13. CASE Increment(c)
  <2>1. View(c)' = View(c)
    BY <1>0, <1>13 DEF Increment
  <2> QED
    BY <1>1, <2>1, NothingSeen
<1>14. CASE UnlockCollection(c)
  <2>1. View(c)' = View(c)
    BY <1>0, <1>14 DEF UnlockCollection
  <2> QED
    BY <1>1, <2>1, NothingSeen
<1> QED
  BY <1>2, <1>3, <1>4, <1>5, <1>8, <1>9, <1>10, <1>11, <1>12, <1>13, <1>14

\* What a step of c may change is its outcome: its call and its result stay.
LEMMA OutcomeStep ==
  ASSUME NEW c \in Clients, \A d \in Clients \ {c} : SameClient(d),
         AbstractCall(c)' = AbstractCall(c), AbstractResult(c)' = AbstractResult(c)
  PROVE  /\ UNCHANGED <<[d \in Clients |-> AbstractCall(d)], [d \in Clients |-> AbstractResult(d)]>>
         /\ [d \in Clients |-> AbstractOutcome(d)]'
              = [[d \in Clients |-> AbstractOutcome(d)] EXCEPT ![c] = AbstractOutcome(c)']
BY StepOfOne

\* Nobody else is in the middle of a write: the mutex of the cache sees to it.
LEMMA FreeKey ==
  ASSUME StoreInv, NEW c \in Clients, NEW k \in Keys, k \in Records \/ InCache(c)
  PROVE  Store!Free(c, k)
<1> SUFFICES ASSUME NEW d \in Clients \ {c}, k \in AbstractCall(d).keys, AbstractOutcome(d) = "begun"
             PROVE  FALSE
  BY DEF Store!Free
<1>1. op[d] = "store" /\ pc[d] = "fill"
  BY DEF AbstractOutcome
<1>2. key[d] \in Entries /\ k = key[d]
  BY <1>1 DEF AbstractCall, StoreInv, PlaceInv
<1>3. InCache(d) /\ InCache(c)
  BY <1>1, <1>2, KeysAssumption DEF InCache
<1> QED
  BY <1>3 DEF StoreInv, MutexInv

LEMMA RenamePuts ==
  ASSUME StoreInv, NEW c \in Clients, Rename(c)
  PROVE  Store!Put(c)
<1>0. TypeOK /\ PlaceInv /\ RecordInv
  BY DEF StoreInv
<1>1. \A d \in Clients \ {c} : SameClient(d)
  BY <1>0 DEF Rename, Goto, TypeOK, SameClient
<1>2. op[c] = "write" /\ pc[c] = "rename" /\ op' = op /\ key' = key /\ value' = value /\ pc'[c] = "unlock"
  BY <1>0 DEF Rename, Goto, At, TypeOK
<1>3. /\ AbstractCall(c) = [op |-> "write", keys |-> {key[c]}, value |-> value[c]]
      /\ AbstractCall(c)' = AbstractCall(c) /\ AbstractResult(c)' = AbstractResult(c)
      /\ AbstractOutcome(c) = "pending" /\ AbstractOutcome(c)' = "ok"
  BY <1>2 DEF AbstractCall, AbstractResult, AbstractOutcome
<1>4. key[c] \in Records /\ file' = [file EXCEPT ![key[c]] = value[c]]
  BY <1>0, <1>2 DEF Rename, PlaceInv, RecordInv, At
<1>5. Store!Free(c, key[c])
  BY <1>4, FreeKey DEF Keys
<1>6. UNCHANGED <<[d \in Clients |-> AbstractCall(d)], [d \in Clients |-> AbstractResult(d)]>>
  BY <1>1, <1>3, OutcomeStep
<1>7. [d \in Clients |-> AbstractOutcome(d)]' = [[d \in Clients |-> AbstractOutcome(d)] EXCEPT ![c] = "ok"]
  BY <1>1, <1>3, OutcomeStep
<1>8. Store!Op(c) = "write" /\ key[c] \in [d \in Clients |-> AbstractCall(d)][c].keys /\ Store!Undone(c)
      /\ [d \in Clients |-> AbstractCall(d)][c].value = value[c]
  BY <1>3 DEF Store!Op, Store!Undone
<1> QED
  BY <1>4, <1>5, <1>6, <1>7, <1>8 DEF Store!Put

LEMMA TruncateBegins ==
  ASSUME StoreInv, NEW c \in Clients, TruncateEntry(c)
  PROVE  Store!Begin(c)
<1>0. TypeOK /\ PlaceInv
  BY DEF StoreInv
<1>1. \A d \in Clients \ {c} : SameClient(d)
  BY <1>0 DEF TruncateEntry, Goto, TypeOK, SameClient
<1>2. op[c] = "store" /\ pc[c] = "mkdir" /\ op' = op /\ key' = key /\ value' = value /\ pc'[c] = "fill"
  BY <1>0 DEF TruncateEntry, Goto, At, TypeOK
<1>3. /\ AbstractCall(c) = [op |-> "write", keys |-> {key[c]}, value |-> value[c]]
      /\ AbstractCall(c)' = AbstractCall(c) /\ AbstractResult(c)' = AbstractResult(c)
      /\ AbstractOutcome(c) = "pending" /\ AbstractOutcome(c)' = "begun"
  BY <1>2 DEF AbstractCall, AbstractResult, AbstractOutcome
<1>4. key[c] \in Entries \ Records /\ file' = [file EXCEPT ![key[c]] = Torn]
  BY <1>0, <1>2, KeysAssumption DEF TruncateEntry, PlaceInv
<1>5. Store!Free(c, key[c])
  BY <1>2, <1>4, FreeKey DEF Keys, InCache
<1>6. UNCHANGED <<[d \in Clients |-> AbstractCall(d)], [d \in Clients |-> AbstractResult(d)]>>
  BY <1>1, <1>3, OutcomeStep
<1>7. [d \in Clients |-> AbstractOutcome(d)]' = [[d \in Clients |-> AbstractOutcome(d)] EXCEPT ![c] = "begun"]
  BY <1>1, <1>3, OutcomeStep
<1>8. Store!Op(c) = "write" /\ key[c] \in [d \in Clients |-> AbstractCall(d)][c].keys /\ Store!Undone(c)
  BY <1>3 DEF Store!Op, Store!Undone
<1> QED
  BY <1>4, <1>5, <1>6, <1>7, <1>8 DEF Store!Begin

LEMMA FillPuts ==
  ASSUME StoreInv, NEW c \in Clients, FillEntry(c)
  PROVE  Store!Put(c)
<1>0. TypeOK /\ PlaceInv
  BY DEF StoreInv
<1>1. \A d \in Clients \ {c} : SameClient(d)
  BY <1>0 DEF FillEntry, Goto, TypeOK, SameClient
<1>2. op[c] = "store" /\ pc[c] = "fill" /\ op' = op /\ key' = key /\ value' = value /\ pc'[c] = "unlock"
  BY <1>0 DEF FillEntry, Goto, At, TypeOK
<1>3. /\ AbstractCall(c) = [op |-> "write", keys |-> {key[c]}, value |-> value[c]]
      /\ AbstractCall(c)' = AbstractCall(c) /\ AbstractResult(c)' = AbstractResult(c)
      /\ AbstractOutcome(c) = "begun" /\ AbstractOutcome(c)' = "ok"
  BY <1>2 DEF AbstractCall, AbstractResult, AbstractOutcome
<1>4. key[c] \in Entries \ Records /\ file' = [file EXCEPT ![key[c]] = value[c]]
  BY <1>0, <1>2, KeysAssumption DEF FillEntry, PlaceInv
<1>5. Store!Free(c, key[c])
  BY <1>2, <1>4, FreeKey DEF Keys, InCache
<1>6. UNCHANGED <<[d \in Clients |-> AbstractCall(d)], [d \in Clients |-> AbstractResult(d)]>>
  BY <1>1, <1>3, OutcomeStep
<1>7. [d \in Clients |-> AbstractOutcome(d)]' = [[d \in Clients |-> AbstractOutcome(d)] EXCEPT ![c] = "ok"]
  BY <1>1, <1>3, OutcomeStep
<1>8. Store!Op(c) = "write" /\ key[c] \in [d \in Clients |-> AbstractCall(d)][c].keys /\ [d \in Clients |-> AbstractOutcome(d)][c] = "begun"
      /\ [d \in Clients |-> AbstractCall(d)][c].value = value[c]
  BY <1>3 DEF Store!Op
<1> QED
  BY <1>4, <1>5, <1>6, <1>7, <1>8 DEF Store!Put

\* Stat finds nothing to delete.
StatFails(c) == Stat(c) /\ pc'[c] = "fail"

LEMMA FailureFails ==
  ASSUME StoreInv, NEW c \in Clients,
         Fails(c) \/ StatFails(c)
  PROVE  Store!Fail(c) \/ UNCHANGED Store!vars
<1>0. TypeOK /\ PlaceInv
  BY DEF StoreInv
<1> USE DEF Fails, StatFails, Stat, WriteFails, DeleteFails, ReadFails, MkdirFails, StoreFails, LoadFails
<1>1. (\A d \in Clients \ {c} : SameClient(d)) /\ file' = file
  BY <1>0 DEF files, Goto, TypeOK, SameClient
<1>2. /\ pc[c] \notin {"idle", "ok", "missing", "error", "unlock", "fail"}
      /\ op' = op /\ key' = key /\ value' = value /\ pc'[c] \in {"fail", "error"}
  BY <1>0 DEF Goto, At, TypeOK
<1>3. AbstractCall(c)' = AbstractCall(c) /\ AbstractResult(c)' = AbstractResult(c)
  BY <1>2 DEF AbstractCall, AbstractResult
<1>4. CASE AbstractOutcome(c) = "none"
  <2>1. AbstractOutcome(c)' = AbstractOutcome(c)
    BY <1>2, <1>4 DEF AbstractOutcome
  <2> QED
    BY <1>1, <1>3, <2>1, NothingSeen DEF View
<1>5. CASE AbstractOutcome(c) # "none"
  <2>1. AbstractOutcome(c) \in {"pending", "begun"} /\ AbstractOutcome(c)' = "error"
    BY <1>2, <1>5 DEF AbstractOutcome
  <2> QED
    BY <1>1, <1>3, <2>1, OutcomeStep DEF Store!Fail
<1> QED
  BY <1>4, <1>5

LEMMA RemoveRemoves ==
  ASSUME StoreInv, NEW c \in Clients, RemoveFile(c)
  PROVE  (\E k \in Keys : Store!Remove(c, k)) \/ UNCHANGED Store!vars
<1>0. TypeOK /\ PlaceInv
  BY DEF StoreInv
<1>1. \A d \in Clients : SameClient(d)
  BY DEF RemoveFile, SameClient
<1>2. op[c] = "delete" /\ pc[c] = "remove" /\ key[c] \in Records \cup {None}
  BY <1>0 DEF RemoveFile, At, PlaceInv
<1>3. PICK k \in IF key[c] = None THEN Records ELSE {key[c]} :
        \/ file[k] # None /\ file' = [file EXCEPT ![k] = None] /\ UNCHANGED tmp
        \/ key[c] = None /\ tmp[k] # None /\ tmp' = [tmp EXCEPT ![k] = None] /\ UNCHANGED file
  BY DEF RemoveFile
<1>4. /\ AbstractCall(c).op = "delete" /\ AbstractOutcome(c) = "pending"
      /\ AbstractCall(c).keys = IF key[c] = None THEN Records ELSE {key[c]}
  BY <1>2 DEF AbstractCall, AbstractOutcome
<1>5. AbstractCall(c)' = AbstractCall(c) /\ AbstractOutcome(c)' = AbstractOutcome(c) /\ AbstractResult(c)' = AbstractResult(c)
  BY <1>1 DEF AbstractCall, AbstractOutcome, AbstractResult, SameClient
<1>6. /\ [d \in Clients |-> AbstractCall(d)]' = [d \in Clients |-> AbstractCall(d)]
      /\ [d \in Clients |-> AbstractOutcome(d)]' = [d \in Clients |-> AbstractOutcome(d)]
      /\ [d \in Clients |-> AbstractResult(d)]' = [d \in Clients |-> AbstractResult(d)]
  BY <1>1, <1>5, StepOfOne
<1>7. CASE file[k] # None /\ file' = [file EXCEPT ![k] = None]
  <2>1. k \in Keys /\ k \in AbstractCall(c).keys
    BY <1>2, <1>3, <1>4 DEF Keys
  <2>2. Store!Remove(c, k)
    BY <1>4, <1>6, <1>7, <2>1 DEF Store!Remove, Store!Op, Store!Undone
  <2> QED
    BY <2>1, <2>2
<1>8. CASE UNCHANGED file
  BY <1>6, <1>8 DEF Store!vars
<1> QED
  BY <1>3, <1>7, <1>8

LEMMA StatOrNothing ==
  ASSUME StoreInv, NEW c \in Clients, Stat(c), pc'[c] # "fail"
  PROVE  UNCHANGED Store!vars
<1>0. TypeOK /\ PlaceInv
  BY DEF StoreInv
<1>1. (\A d \in Clients \ {c} : SameClient(d)) /\ file' = file
  BY <1>0 DEF Stat, files, Goto, TypeOK, SameClient
<1>2. op[c] = "delete" /\ pc[c] = "stat" /\ op' = op /\ key' = key /\ value' = value /\ pc'[c] = "remove"
  BY <1>0 DEF Stat, Goto, At, TypeOK
<1>3. View(c)' = View(c)
  BY <1>2 DEF View, AbstractCall, AbstractOutcome, AbstractResult
<1> QED
  BY <1>1, <1>3, NothingSeen

LEMMA DoneRemoved ==
  ASSUME StoreInv, NEW c \in Clients, RemoveDone(c)
  PROVE  Store!Removed(c)
<1>0. TypeOK /\ PlaceInv
  BY DEF StoreInv
<1>1. (\A d \in Clients \ {c} : SameClient(d)) /\ file' = file
  BY <1>0 DEF RemoveDone, Goto, TypeOK, SameClient
<1>2. /\ op[c] = "delete" /\ pc[c] = "remove" /\ op' = op /\ key' = key /\ value' = value /\ pc'[c] = "unlock"
  BY <1>0 DEF RemoveDone, Goto, At, TypeOK
<1>3. /\ AbstractCall(c).op = "delete" /\ AbstractCall(c).keys = IF key[c] = None THEN Records ELSE {key[c]}
      /\ AbstractCall(c)' = AbstractCall(c) /\ AbstractResult(c)' = AbstractResult(c)
  BY <1>2 DEF AbstractCall, AbstractResult
<1>4. AbstractOutcome(c) = "pending" /\ AbstractOutcome(c)' = "ok"
  BY <1>2 DEF AbstractOutcome
<1>5. \A k \in AbstractCall(c).keys : file[k] = None
  BY <1>3 DEF RemoveDone
<1> QED
  BY <1>1, <1>3, <1>4, <1>5, OutcomeStep DEF Store!Removed, Store!Op, Store!Undone

LEMMA ReadGets ==
  ASSUME StoreInv, NEW c \in Clients, Read(c) \/ Load(c)
  PROVE  Store!Get(c)
<1>0. TypeOK /\ PlaceInv
  BY DEF StoreInv
<1>1. (\A d \in Clients \ {c} : SameClient(d)) /\ file' = file
  BY <1>0 DEF Read, Load, files, Goto, TypeOK, SameClient
<1>2. /\ op' = op /\ key' = key /\ value'[c] = file[key[c]]
      /\ \/ op[c] = "read" /\ pc[c] = "called" /\ pc'[c] \in {"ok", "missing"}
         \/ op[c] = "load" /\ pc[c] = "reading" /\ pc'[c] = "unlock"
  BY <1>0 DEF Read, Load, Goto, At, TypeOK
<1>3. /\ AbstractCall(c).op = "read" /\ AbstractCall(c).keys = {key[c]}
      /\ AbstractCall(c)' = AbstractCall(c) /\ AbstractResult(c)' = file[key[c]]
  BY <1>2 DEF AbstractCall, AbstractResult
<1>4. AbstractOutcome(c) = "pending" /\ AbstractOutcome(c)' = "ok"
  BY <1>2 DEF AbstractOutcome
<1>5. key[c] \in Keys /\ Store!Free(c, key[c])
  <2>1. CASE op[c] = "read"
    BY <1>0, <2>1, FreeKey DEF PlaceInv, Keys
  <2>2. CASE op[c] = "load" /\ pc[c] = "reading"
    BY <1>0, <2>2, FreeKey DEF PlaceInv, Keys, InCache
  <2> QED
    BY <1>2, <2>1, <2>2
<1>6. /\ [d \in Clients |-> AbstractCall(d)]' = [d \in Clients |-> AbstractCall(d)]
      /\ [d \in Clients |-> AbstractOutcome(d)]' = [[d \in Clients |-> AbstractOutcome(d)] EXCEPT ![c] = "ok"]
      /\ [d \in Clients |-> AbstractResult(d)]' = [[d \in Clients |-> AbstractResult(d)] EXCEPT ![c] = file[key[c]]]
  BY <1>1, <1>3, <1>4, StepOfOne
<1> QED
  BY <1>1, <1>3, <1>4, <1>5, <1>6 DEF Store!Get, Store!Op, Store!Undone

LEMMA CallInvokes ==
  ASSUME StoreInv, NEW c \in Clients, Calls(c)
  PROVE  Store!Invoke(c) \/ UNCHANGED Store!vars
<1>0. TypeOK /\ PlaceInv
  BY DEF StoreInv
<1>1. /\ op[c] = None /\ pc[c] = "idle" /\ pc' = [pc EXCEPT ![c] = "called"] /\ calls < MaxCalls /\ file' = file
  BY <1>0, CallFacts DEF files
<1>2. PICK o \in Ops, k \in Keys \cup {None} :
        /\ op' = [op EXCEPT ![c] = o] /\ key' = [key EXCEPT ![c] = k]
        /\ value' = [value EXCEPT ![c] = IF o \in {"write", "store"} THEN calls + 1 ELSE None]
        /\ o \in {"write", "read"} => k \in Records
        /\ o = "delete" => k \in Records \cup {None}
        /\ o \in {"store", "load"} => k \in Entries
  BY <1>0, CallFacts
<1>3. \A d \in Clients \ {c} : SameClient(d)
  BY <1>0, <1>1, <1>2 DEF SameClient, TypeOK
<1>4. op'[c] = o /\ pc'[c] = "called" /\ key'[c] = k /\ value'[c] = IF o \in {"write", "store"} THEN calls + 1 ELSE None
  BY <1>0, <1>1, <1>2 DEF TypeOK
<1>5. AbstractCall(c) = Store!NoCall /\ AbstractOutcome(c) = "none" /\ AbstractResult(c) = None
  BY <1>1, NoneAssumption DEF AbstractCall, AbstractOutcome, AbstractResult, Store!NoCall, Ops
<1>6. CASE o \in {"readall", "increment"}
  <2>1. AbstractCall(c)' = Store!NoCall /\ AbstractOutcome(c)' = "none" /\ AbstractResult(c)' = None
    BY <1>4, <1>6 DEF AbstractCall, AbstractOutcome, AbstractResult, Store!NoCall
  <2> QED
    BY <1>1, <1>3, <1>5, <2>1, NothingSeen DEF View
<1>7. CASE o \notin {"readall", "increment"}
  <2>1. AbstractOutcome(c)' = "pending" /\ AbstractResult(c)' = None
    BY <1>4, <1>7 DEF AbstractOutcome, AbstractResult, Ops
  <2>2. AbstractCall(c)' \in Store!Requests
    <3>1. CASE o \in {"write", "store"}
      <4>1. AbstractCall(c)' = [op |-> "write", keys |-> {k}, value |-> calls + 1]
        BY <1>4, <3>1 DEF AbstractCall
      <4>2. k \in Keys /\ calls + 1 \in 1 .. MaxCalls
        BY <1>0, <1>1, <1>2, <3>1, BoundsAssumption DEF TypeOK, Keys
      <4> QED
        BY <4>1, <4>2 DEF Store!Requests
    <3>2. CASE o \in {"read", "load"}
      <4>1. AbstractCall(c)' = [op |-> "read", keys |-> {k}, value |-> None]
        BY <1>4, <3>2 DEF AbstractCall
      <4>2. k \in Keys
        BY <1>2, <3>2 DEF Keys
      <4> QED
        BY <4>1, <4>2 DEF Store!Requests
    <3>3. CASE o = "delete"
      <4>1. AbstractCall(c)' = [op |-> "delete", keys |-> IF k = None THEN Records ELSE {k}, value |-> None]
        BY <1>4, <3>3 DEF AbstractCall
      <4>2. (IF k = None THEN Records ELSE {k}) \in SUBSET Records
        BY <1>2, <3>3
      <4> QED
        BY <4>1, <4>2 DEF Store!Requests
    <3> QED
      BY <1>7, <3>1, <3>2, <3>3 DEF Ops
  <2>3. /\ [d \in Clients |-> AbstractCall(d)]' = [[d \in Clients |-> AbstractCall(d)] EXCEPT ![c] = AbstractCall(c)']
        /\ [d \in Clients |-> AbstractOutcome(d)]' = [[d \in Clients |-> AbstractOutcome(d)] EXCEPT ![c] = "pending"]
        /\ [d \in Clients |-> AbstractResult(d)]' = [d \in Clients |-> AbstractResult(d)]
    BY <1>3, <1>5, <2>1, StepOfOne
  <2>4. Store!Op(c) = "none"
    BY <1>5 DEF Store!Op, Store!NoCall
  <2>5. \E r \in Store!Requests :
          [d \in Clients |-> AbstractCall(d)]' = [[d \in Clients |-> AbstractCall(d)] EXCEPT ![c] = r]
    BY <2>2, <2>3
  <2> QED
    BY <1>1, <2>3, <2>4, <2>5, Zenon DEF Store!Invoke
<1> QED
  BY <1>6, <1>7

LEMMA ReturnReturns ==
  ASSUME StoreInv, NEW c \in Clients, Return(c)
  PROVE  Store!Return(c) \/ UNCHANGED Store!vars
<1>0. TypeOK /\ PlaceInv
  BY DEF StoreInv
<1>1. (\A d \in Clients \ {c} : SameClient(d)) /\ file' = file
  BY <1>0 DEF Return, files, Goto, TypeOK, SameClient
<1>2. pc[c] \in {"ok", "missing", "error"} /\ op'[c] = None /\ op[c] \in Ops
  BY <1>0, NoneAssumption DEF Return, Goto, TypeOK, PlaceInv
<1>3. AbstractCall(c)' = Store!NoCall /\ AbstractOutcome(c)' = "none" /\ AbstractResult(c)' = None
  BY <1>2, NoneAssumption DEF AbstractCall, AbstractOutcome, AbstractResult, Store!NoCall, Ops
<1>4. CASE op[c] \in {"readall", "increment"}
  <2>1. AbstractCall(c) = Store!NoCall /\ AbstractOutcome(c) = "none" /\ AbstractResult(c) = None
    BY <1>4 DEF AbstractCall, AbstractOutcome, AbstractResult, Store!NoCall
  <2> QED
    BY <1>1, <1>3, <2>1, NothingSeen DEF View
<1>5. CASE op[c] \notin {"readall", "increment"}
  <2>1. AbstractOutcome(c) \in {"ok", "error"}
    BY <1>2, <1>5 DEF AbstractOutcome, Ops
  <2> QED
    BY <1>1, <1>3, <2>1, StepOfOne DEF Store!Return
<1> QED
  BY <1>4, <1>5

LEMMA CrashCrashes ==
  ASSUME Crash
  PROVE  Store!Crash
<1>1. \A c \in Clients : op'[c] = None
  BY DEF Crash
<1>2. \A c \in Clients : AbstractCall(c)' = Store!NoCall /\ AbstractOutcome(c)' = "none" /\ AbstractResult(c)' = None
  BY <1>1, NoneAssumption DEF AbstractCall, AbstractOutcome, AbstractResult, Store!NoCall, Ops
<1>3. file' = file
  BY DEF Crash, files
<1> QED
  BY <1>2, <1>3 DEF Store!Crash

LEMMA StoreInit == Init => Store!Init
<1> SUFFICES ASSUME Init
             PROVE  Store!Init
  OBVIOUS
<1>1. \A c \in Clients : AbstractCall(c) = Store!NoCall /\ AbstractOutcome(c) = "none" /\ AbstractResult(c) = None
  BY NoneAssumption DEF Init, AbstractCall, AbstractOutcome, AbstractResult, Store!NoCall, Ops
<1> QED
  BY <1>1 DEF Init, Store!Init

\* scribble and the cache of cachz implement RecordStore, for any number of
\* clients, records, entries, crashes and failures: every step of a call is a
\* step of the store, or changes nothing that a caller sees (ImplementsRecords).
THEOREM StoreImplementsRecords == Spec => ImplementsRecords
<1>1. StoreInv /\ [Next]_vars => [Store!Next]_Store!vars
  <2> SUFFICES ASSUME StoreInv, [Next]_vars
               PROVE  [Store!Next]_Store!vars
    OBVIOUS
  <2>1. CASE UNCHANGED vars
    <3>1. UNCHANGED <<file, op, pc, key, value>>
      BY <2>1 DEF vars, files, client
    <3>2. \A c \in Clients : View(c)' = View(c)
      BY <3>1 DEF View, AbstractCall, AbstractOutcome, AbstractResult
    <3> QED
      BY <3>1, <3>2 DEF View, Store!vars
  <2>2. CASE Crash
    BY <2>2, CrashCrashes DEF Store!Next
  <2>3. ASSUME NEW c \in Clients, Calls(c)
        PROVE  [Store!Next]_Store!vars
    BY <2>3, CallInvokes DEF Store!Next
  <2>4. ASSUME NEW c \in Clients, Fails(c)
        PROVE  [Store!Next]_Store!vars
    BY <2>4, FailureFails DEF Store!Next
  <2>5. ASSUME NEW c \in Clients, Step(c)
        PROVE  [Store!Next]_Store!vars
    <3>1. CASE Stat(c)
      BY <3>1, StatOrNothing, FailureFails DEF StatFails, Store!Next
    <3>8. CASE RemoveDone(c)
      BY <3>8, DoneRemoved DEF Store!Next
    <3>2. CASE Rename(c)
      BY <3>2, RenamePuts DEF Store!Next
    <3>3. CASE RemoveFile(c)
      BY <3>3, RemoveRemoves DEF Store!Next
    <3>4. CASE Read(c) \/ Load(c)
      BY <3>4, ReadGets DEF Store!Next
    <3>5. CASE TruncateEntry(c)
      BY <3>5, TruncateBegins DEF Store!Next
    <3>6. CASE FillEntry(c)
      BY <3>6, FillPuts DEF Store!Next
    <3>7. CASE Return(c)
      BY <3>7, ReturnReturns DEF Store!Next
    <3> QED
      BY <2>5, <3>1, <3>2, <3>3, <3>4, <3>5, <3>6, <3>7, <3>8, QuietSteps DEF Step
  <2> QED
    BY <2>1, <2>2, <2>3, <2>4, <2>5 DEF Next
<1> QED
  BY <1>1, StoreInit, StoreInvariant, PTL DEF Spec, ImplementsRecords, Store!Spec

-----------------------------------------------------------------------------
(* ReadAll.                                                                *)

Existing == {<<<<k, FALSE>>, file[k]>> : k \in {r \in Records : file[r] # None}}

Leftovers == {<<k, TRUE>> : k \in {r \in Records : tmp[r] # None}}

\* What a ReadAll that nothing disturbed has read and what it has left: each
\* record is in one or the other, and all that is left is still there.
Reading(c) ==
  /\ \A x \in list[c] : x \in Existing \/ x[1] \in Leftovers
  /\ \A k \in Records : file[k] # None =>
       <<<<k, FALSE>>, file[k]>> \in list[c] \/ \E i \in 1 .. Len(rest[c]) : rest[c][i] = <<k, FALSE>>
  /\ \A i \in 1 .. Len(rest[c]) : LET n == rest[c][i] IN IF n[2] THEN tmp[n[1]] # None ELSE file[n[1]] # None

ReadInv(c) ==
  /\ pc[c] \in {"idle", "called"} => list[c] = {}
  /\ op[c] = "readall" /\ changed[c] = {} =>
       /\ pc[c] \in {"reading", "ok"} => Reading(c)
       /\ pc[c] = "ok" => rest[c] = <<>>
       /\ pc[c] = "missing" => \A k \in Records : file[k] = None

LEMMA ReadInvStable ==
  ASSUME TypeOK, \A c \in Clients : ReadInv(c)
  PROVE  ReadAllStable
<1> SUFFICES ASSUME NEW c \in Clients, op[c] = "readall", changed[c] = {}
             PROVE  /\ pc[c] = "ok" => Existing \subseteq list[c] /\ {x[1] : x \in list[c] \ Existing} \subseteq Leftovers
                    /\ pc[c] = "missing" => Existing = {}
  BY DEF ReadAllStable, Existing, Leftovers
<1>1. ReadInv(c)
  OBVIOUS
<1>2. ASSUME pc[c] = "ok"
      PROVE  Existing \subseteq list[c] /\ {x[1] : x \in list[c] \ Existing} \subseteq Leftovers
  <2>1. Reading(c) /\ rest[c] = <<>>
    BY <1>1, <1>2 DEF ReadInv
  <2>2. ASSUME NEW x \in Existing
        PROVE  x \in list[c]
    <3>1. PICK k \in Records : file[k] # None /\ x = <<<<k, FALSE>>, file[k]>>
      BY Zenon DEF Existing
    <3>2. Len(rest[c]) = 0
      BY <2>1
    <3>3. <<<<k, FALSE>>, file[k]>> \in list[c] \/ \E i \in 1 .. Len(rest[c]) : rest[c][i] = <<k, FALSE>>
      BY <2>1, <3>1, Zenon DEF Reading
    <3> QED
      BY <3>1, <3>2, <3>3
  <2>3. \A x \in list[c] \ Existing : x[1] \in Leftovers
    BY <2>1, Zenon DEF Reading
  <2> QED
    BY <2>2, <2>3
<1>3. ASSUME pc[c] = "missing"
      PROVE  Existing = {}
  BY <1>1, <1>3 DEF ReadInv, Existing
<1> QED
  BY <1>2, <1>3

\* A step either leaves the records and the .tmp files that a ReadAll finds, or
\* is seen in what changed under it.
LEMMA Undisturbed ==
  ASSUME StoreInv, NEW c \in Clients, Calls(c) \/ Step(c) \/ Fails(c),
         NEW d \in Clients, op[d] = "readall", op'[d] = "readall", changed'[d] = {}
  PROVE  /\ changed[d] = {}
         /\ \A k \in Records : file'[k] = file[k] /\ (tmp[k] # None => tmp'[k] # None)
<1>0. TypeOK /\ PlaceInv
  BY DEF StoreInv
<1> DEFINE G == changed[d] = {} /\ \A k \in Records : file'[k] = file[k] /\ (tmp[k] # None => tmp'[k] # None)
<1>1. CASE UNCHANGED <<changed, file, tmp>>
  BY <1>1
<1>2. CASE TruncateTmp(c) \/ FillTmp(c)
  <2>1. changed' = changed /\ file' = file /\ op[c] = "write"
    BY <1>2 DEF TruncateTmp, FillTmp, At
  <2>2. tmp' = [tmp EXCEPT ![key[c]] = Torn] \/ tmp' = [tmp EXCEPT ![key[c]] = value[c]]
    BY <1>2 DEF TruncateTmp, FillTmp
  <2>3. Torn # None /\ value[c] # None
    BY <1>0, <2>1, NoneAssumption DEF PlaceInv
  <2> QED
    BY <1>0, <2>1, <2>2, <2>3 DEF TypeOK
<1>3. CASE Rename(c)
  <2>1. Changes({key[c]})
    BY <1>3 DEF Rename
  <2> QED
    BY <2>1 DEF Changes
<1>4. CASE RemoveFile(c)
  <2>1. PICK k \in IF key[c] = None THEN Records ELSE {key[c]} : TRUE
    BY <1>4, Zenon DEF RemoveFile
  <2>2. Changes(IF key[c] = None THEN Records ELSE {key[c]})
    BY <1>4 DEF RemoveFile
  <2> QED
    BY <2>1, <2>2 DEF Changes
<1>5. CASE TruncateEntry(c) \/ FillEntry(c)
  <2>1. UNCHANGED <<changed, tmp>> /\ op[c] = "store"
    BY <1>5 DEF TruncateEntry, FillEntry, At
  <2>2. key[c] \notin Records
    BY <1>0, <2>1, KeysAssumption DEF PlaceInv
  <2>3. \A k \in Keys \ {key[c]} : file'[k] = file[k]
    BY <1>0, <1>5 DEF TruncateEntry, FillEntry, TypeOK
  <2> QED
    BY <2>1, <2>2, <2>3 DEF Keys
<1>6. CASE Return(c)
  <2>1. UNCHANGED <<file, tmp>> /\ op'[c] = None /\ changed' = [changed EXCEPT ![c] = {}]
    BY <1>0, <1>6 DEF Return, files, TypeOK
  <2>2. c # d
    BY <2>1, NoneAssumption DEF Ops
  <2> QED
    BY <1>0, <2>1, <2>2 DEF TypeOK
<1>7. CASE Calls(c)
  BY <1>0, <1>1, <1>7, CallFacts DEF files
<1>8. CASE LockCollection(c) \/ MkCollection(c) \/ Stat(c) \/ RemoveDone(c) \/ UnlockCollection(c) \/ Fails(c)
  BY <1>1, <1>8 DEF LockCollection, MkCollection, Stat, RemoveDone, UnlockCollection, Fails, WriteFails, DeleteFails, ReadFails, MkdirFails, StoreFails, LoadFails, files
<1>9. CASE \/ Read(c) \/ ReadDir(c) \/ ReadNext(c) \/ LockCache(c) \/ Load(c) \/ UnlockCache(c)
           \/ ReadToIncrement(c) \/ Increment(c)
  BY <1>1, <1>9 DEF Read, ReadDir, ReadNext, LockCache, Load, UnlockCache, ReadToIncrement, Increment, files
<1> QED
  BY <1>2, <1>3, <1>4, <1>5, <1>6, <1>7, <1>8, <1>9 DEF Step

\* The rest of what a ReadAll has to do is not touched by the steps of others.
LEMMA OthersStay ==
  ASSUME StoreInv, NEW c \in Clients, Calls(c) \/ Step(c) \/ Fails(c), NEW d \in Clients \ {c}
  PROVE  op'[d] = op[d] /\ pc'[d] = pc[d] /\ list'[d] = list[d] /\ rest'[d] = rest[d]
<1>0. TypeOK /\ PlaceInv
  BY DEF StoreInv
<1> USE DEF TypeOK, Goto, files
<1>1. CASE Calls(c)
  BY <1>0, <1>1, CallFacts
<1>2. CASE Return(c)
  BY <1>0, <1>2 DEF Return
<1>3. CASE \/ LockCollection(c) \/ MkCollection(c) \/ TruncateTmp(c) \/ FillTmp(c) \/ Rename(c)
           \/ Stat(c) \/ RemoveFile(c) \/ RemoveDone(c) \/ UnlockCollection(c)
  BY <1>0, <1>3 DEF LockCollection, MkCollection, TruncateTmp, FillTmp, Rename, Stat, RemoveFile, RemoveDone, UnlockCollection
<1>4. CASE Read(c) \/ ReadDir(c) \/ ReadNext(c) \/ ReadToIncrement(c) \/ Increment(c) \/ Fails(c)
  BY <1>0, <1>4 DEF Read, ReadDir, ReadNext, ReadToIncrement, Increment, Fails, WriteFails, DeleteFails, ReadFails, MkdirFails, StoreFails, LoadFails
<1>5. CASE LockCache(c) \/ TruncateEntry(c) \/ FillEntry(c) \/ Load(c) \/ UnlockCache(c)
  BY <1>0, <1>5 DEF LockCache, TruncateEntry, FillEntry, Load, UnlockCache
<1> QED
  BY <1>1, <1>2, <1>3, <1>4, <1>5 DEF Step

LEMMA ReadDirReads ==
  ASSUME StoreInv, NEW c \in Clients, ReadInv(c), ReadDir(c)
  PROVE  ReadInv(c)'
<1>0. TypeOK /\ DirInv
  BY DEF StoreInv
<1>1. /\ rest'[c] = SetToSeq(Names) /\ pc'[c] = IF dir THEN "reading" ELSE "missing"
      /\ list'[c] = {} /\ UNCHANGED <<file, tmp>>
  BY <1>0 DEF ReadDir, Names, TypeOK, ReadInv, Goto, At, files
<1>2. ASSUME ~dir
      PROVE  \A k \in Records : file'[k] = None
  BY <1>0, <1>1, <1>2 DEF DirInv
<1>3. Reading(c)'
  <2> DEFINE s == SetToSeq(Names)
  <2>1. s \in Seq(Records \X BOOLEAN) /\ \A x \in Names : \E i \in 1 .. Len(s) : s[i] = x
    BY NamesFacts
  <2>2. \A k \in Records : file[k] # None => <<k, FALSE>> \in Names
    BY DEF Names
  <2>3. \A i \in 1 .. Len(s) : s[i] \in Names
    <3>1. s \in Seq(Names)
      BY NamesFacts
    <3> HIDE DEF s
    <3> QED
      BY <3>1
  <2>4. \A n \in Names : IF n[2] THEN tmp[n[1]] # None ELSE file[n[1]] # None
    <3> SUFFICES ASSUME NEW n \in Names
                 PROVE  IF n[2] THEN tmp[n[1]] # None ELSE file[n[1]] # None
      OBVIOUS
    <3>1. \/ \E k \in Records : file[k] # None /\ n = <<k, FALSE>>
          \/ \E k \in Records : tmp[k] # None /\ n = <<k, TRUE>>
      BY Zenon DEF Names
    <3>2. ASSUME NEW k \in Records, file[k] # None, n = <<k, FALSE>>
          PROVE  ~n[2] /\ n[1] = k
      BY <3>2
    <3>3. ASSUME NEW k \in Records, tmp[k] # None, n = <<k, TRUE>>
          PROVE  n[2] /\ n[1] = k
      BY <3>3
    <3> QED
      BY <3>1, <3>2, <3>3
  <2> HIDE DEF s
  <2>5. rest'[c] = s
    BY <1>1 DEF s
  <2> QED
    BY <1>1, <2>1, <2>2, <2>3, <2>4, <2>5 DEF Reading
<1> QED
  BY <1>1, <1>2, <1>3 DEF ReadInv

LEMMA ReadNextReads ==
  ASSUME StoreInv, NEW c \in Clients, ReadInv(c), ReadNext(c)
  PROVE  ReadInv(c)'
<1>0. TypeOK
  BY DEF StoreInv
<1>1. op[c] = "readall" /\ pc[c] = "reading" /\ UNCHANGED <<op, file, tmp, changed>>
  BY DEF ReadNext, At, files
<1>2. CASE rest[c] = <<>>
  <2>1. pc'[c] = "ok" /\ UNCHANGED <<list, rest>>
    BY <1>0, <1>2 DEF ReadNext, Goto, TypeOK
  <2>2. ASSUME changed[c] = {}
        PROVE  Reading(c)'
    <3>1. Reading(c)
      BY <1>1, <2>2 DEF ReadInv
    <3> QED
      BY <1>1, <2>1, <3>1 DEF Reading, Existing, Leftovers
  <2> QED
    BY <1>1, <1>2, <2>1, <2>2 DEF ReadInv
<1>3. CASE rest[c] # <<>>
  <2> DEFINE name == Head(rest[c])
             b    == IF name[2] THEN tmp[name[1]] ELSE file[name[1]]
  <2>1. /\ rest'[c] = Tail(rest[c])
        /\ pc'[c] = IF b = None THEN "missing" ELSE "reading"
        /\ list'[c] = IF b = None THEN {} ELSE list[c] \cup {<<name, b>>}
    BY <1>0, <1>1, <1>3 DEF ReadNext, Goto, TypeOK
  <2>2. ASSUME changed[c] = {}
        PROVE  b # None /\ Reading(c)'
    <3>1. Reading(c)
      BY <1>1, <2>2 DEF ReadInv
    <3>2. rest[c] \in Seq(Records \X BOOLEAN) /\ Len(rest[c]) > 0
      BY <1>0, <1>3 DEF TypeOK
    <3>3. name = rest[c][1] /\ name \in Records \X BOOLEAN /\ 1 \in 1 .. Len(rest[c])
      BY <1>3, <3>2
    <3>4. b # None
      BY <3>1, <3>3 DEF Reading
    <3>5. /\ Len(Tail(rest[c])) = Len(rest[c]) - 1
          /\ \A i \in 1 .. Len(rest[c]) - 1 : Tail(rest[c])[i] = rest[c][i + 1]
      BY <1>3, <3>2
    <3>6. list'[c] = list[c] \cup {<<name, b>>}
      BY <2>1, <3>4
    <3>7. ~name[2] => name = <<name[1], FALSE>> /\ b = file[name[1]] /\ name[1] \in Records
      <4>1. PICK r \in Records, f \in BOOLEAN : name = <<r, f>>
        BY <3>3
      <4> HIDE DEF name
      <4>2. name[1] = r /\ name[2] = f
        BY <4>1
      <4>3. ~name[2] => b = file[name[1]]
        BY Zenon
      <4> QED
        BY <4>1, <4>2, <4>3
    <3>13. name[2] => name = <<name[1], TRUE>> /\ b = tmp[name[1]] /\ name[1] \in Records
      <4>1. PICK r \in Records, f \in BOOLEAN : name = <<r, f>>
        BY <3>3
      <4> HIDE DEF name
      <4>2. name[1] = r /\ name[2] = f
        BY <4>1
      <4>3. name[2] => b = tmp[name[1]]
        BY Zenon
      <4> QED
        BY <4>1, <4>2, <4>3
    <3> HIDE DEF name, b
    <3>8. Existing' = Existing /\ Leftovers' = Leftovers
      BY <1>1 DEF Existing, Leftovers
    <3>9. \A x \in list'[c] : x \in Existing \/ x[1] \in Leftovers
      <4> SUFFICES ASSUME NEW x \in list'[c]
                   PROVE  x \in Existing \/ x[1] \in Leftovers
        OBVIOUS
      <4>1. CASE x \in list[c]
        BY <3>1, <4>1 DEF Reading
      <4>2. CASE x = <<name, b>> /\ ~name[2]
        <5>1. x = <<<<name[1], FALSE>>, file[name[1]]>> /\ file[name[1]] # None
          BY <3>4, <3>7, <4>2, Zenon
        <5> QED
          BY <3>7, <4>2, <5>1, Zenon DEF Existing
      <4>3. CASE x = <<name, b>> /\ name[2]
        <5>1. name = <<name[1], TRUE>> /\ tmp[name[1]] # None /\ name[1] \in Records
          BY <3>4, <3>13, <4>3, Zenon
        <5>2. name \in Leftovers
          BY <5>1, Zenon DEF Leftovers
        <5>3. x[1] = name
          BY <4>3
        <5> QED
          BY <5>2, <5>3
      <4> QED
        BY <3>6, <4>1, <4>2, <4>3
    <3>10. ASSUME NEW k \in Records, file[k] # None
           PROVE  \/ <<<<k, FALSE>>, file[k]>> \in list'[c]
                  \/ \E i \in 1 .. Len(rest'[c]) : rest'[c][i] = <<k, FALSE>>
      <4>1. CASE <<<<k, FALSE>>, file[k]>> \in list[c]
        BY <3>6, <4>1
      <4>2. CASE \E i \in 1 .. Len(rest[c]) : rest[c][i] = <<k, FALSE>>
        <5>1. PICK i \in 1 .. Len(rest[c]) : rest[c][i] = <<k, FALSE>>
          BY <4>2
        <5>2. CASE i = 1
          <6>1. name = <<k, FALSE>>
            BY <3>3, <5>1, <5>2
          <6>2. b = file[k]
            BY <3>7, <6>1
          <6> QED
            BY <3>6, <6>1, <6>2
        <5>3. CASE i # 1
          <6>1. i - 1 \in 1 .. Len(rest[c]) - 1 /\ Tail(rest[c])[i - 1] = rest[c][i]
            BY <3>2, <3>5, <5>3
          <6> QED
            BY <2>1, <3>5, <5>1, <6>1
        <5> QED
          BY <5>2, <5>3
      <4> QED
        BY <3>1, <3>10, <4>1, <4>2 DEF Reading
    <3>11. ASSUME NEW i \in 1 .. Len(rest'[c])
           PROVE  IF rest'[c][i][2] THEN tmp[rest'[c][i][1]] # None ELSE file[rest'[c][i][1]] # None
      <4>1. i + 1 \in 1 .. Len(rest[c]) /\ rest'[c][i] = rest[c][i + 1]
        BY <2>1, <3>2, <3>5
      <4> QED
        BY <3>1, <4>1 DEF Reading
    <3>12. Reading(c)'
      BY <1>1, <3>8, <3>9, <3>10, <3>11 DEF Reading
    <3> QED
      BY <3>4, <3>12
  <2> HIDE DEF b
  <2> QED
    BY <1>1, <2>1, <2>2 DEF ReadInv
<1> QED
  BY <1>2, <1>3

LEMMA ReadInvKept ==
  ASSUME StoreInv, \A c \in Clients : ReadInv(c), [Next]_vars
  PROVE  \A c \in Clients : ReadInv(c)'
<1>0. TypeOK /\ PlaceInv
  BY DEF StoreInv
<1> SUFFICES ASSUME NEW d \in Clients
             PROVE  ReadInv(d)'
  OBVIOUS
<1>i. ReadInv(d)
  OBVIOUS
<1>1. CASE UNCHANGED vars
  <2>1. UNCHANGED <<file, tmp, op, pc, list, rest, changed>>
    BY <1>1 DEF vars, files, client
  <2>2. Existing' = Existing /\ Leftovers' = Leftovers
    BY <2>1 DEF Existing, Leftovers
  <2>3. Reading(d)' <=> Reading(d)
    BY <2>1, <2>2 DEF Reading
  <2> QED
    BY <1>i, <2>1, <2>3 DEF ReadInv
<1>2. CASE Crash
  BY <1>2, NoneAssumption DEF Crash, ReadInv, Ops
<1>3. ASSUME NEW c \in Clients, Calls(c) \/ Step(c) \/ Fails(c), c # d
      PROVE  ReadInv(d)'
  <2>1. op'[d] = op[d] /\ pc'[d] = pc[d] /\ list'[d] = list[d] /\ rest'[d] = rest[d]
    BY <1>3, OthersStay
  <2>2. ASSUME op'[d] = "readall", changed'[d] = {}
        PROVE  /\ changed[d] = {}
               /\ \A k \in Records : file'[k] = file[k] /\ (tmp[k] # None => tmp'[k] # None)
    BY <1>3, <2>1, <2>2, Undisturbed
  <2>3. ASSUME op'[d] = "readall", changed'[d] = {}, Reading(d)
        PROVE  Reading(d)'
    <3>1. \A k \in Records : file'[k] = file[k] /\ (tmp[k] # None => tmp'[k] # None)
      BY <2>2, <2>3
    <3>2. Existing' = Existing
      BY <3>1 DEF Existing
    <3>3. rest[d] \in Seq(Records \X BOOLEAN)
      BY <1>0 DEF TypeOK
    <3>4. \A i \in 1 .. Len(rest[d]) : rest[d][i][1] \in Records
      BY <3>3
    <3>8. Leftovers \subseteq Leftovers'
      BY <3>1 DEF Leftovers
    <3>5. \A x \in list'[d] : x \in Existing' \/ x[1] \in Leftovers'
      BY <2>1, <2>3, <3>2, <3>8 DEF Reading
    <3>6. \A k \in Records : file'[k] # None =>
            <<<<k, FALSE>>, file'[k]>> \in list'[d] \/ \E i \in 1 .. Len(rest'[d]) : rest'[d][i] = <<k, FALSE>>
      BY <2>1, <2>3, <3>1 DEF Reading
    <3>7. ASSUME NEW i \in 1 .. Len(rest'[d])
          PROVE  IF rest'[d][i][2] THEN tmp'[rest'[d][i][1]] # None ELSE file'[rest'[d][i][1]] # None
      <4>1. IF rest[d][i][2] THEN tmp[rest[d][i][1]] # None ELSE file[rest[d][i][1]] # None
        BY <2>1, <2>3, <3>7 DEF Reading
      <4>2. rest[d][i][1] \in Records
        BY <2>1, <3>4
      <4> QED
        BY <2>1, <3>1, <4>1, <4>2
    <3> QED
      BY <3>5, <3>6, <3>7 DEF Reading
  <2> QED
    BY <1>i, <2>1, <2>2, <2>3 DEF ReadInv
<1>4. ASSUME Calls(d) \/ Return(d)
      PROVE  ReadInv(d)'
  <2>1. CASE Calls(d)
    <3>1. pc[d] = "idle" /\ pc'[d] = "called" /\ list' = list
      BY <1>0, <2>1, CallFacts DEF TypeOK
    <3> QED
      BY <1>i, <3>1 DEF ReadInv
  <2>2. CASE Return(d)
    <3>1. pc'[d] = "idle" /\ list'[d] = {}
      BY <1>0, <2>2 DEF Return, Goto, TypeOK
    <3> QED
      BY <3>1 DEF ReadInv
  <2> QED
    BY <1>4, <2>1, <2>2
<1>6. ASSUME ReadFails(d)
      PROVE  ReadInv(d)'
  <2>1. pc'[d] = "error"
    BY <1>0, <1>6 DEF ReadFails, Goto, TypeOK
  <2> QED
    BY <2>1 DEF ReadInv
<1>5. ASSUME (Fails(d) /\ ~ReadFails(d)) \/ (Step(d) /\ ~Return(d) /\ ~ReadDir(d) /\ ~ReadNext(d))
      PROVE  ReadInv(d)'
  <2>1. op[d] # "readall" /\ op' = op /\ list' = list
    BY <1>5 DEF Step, Fails, LockCollection, MkCollection, TruncateTmp, FillTmp, Rename, Stat, RemoveFile, RemoveDone,
         UnlockCollection, Read, LockCache, TruncateEntry, FillEntry, Load, UnlockCache, ReadToIncrement, Increment,
         WriteFails, DeleteFails, MkdirFails, StoreFails, LoadFails, At
  <2>2. pc'[d] \notin {"idle", "called"}
    <3>1. CASE RemoveFile(d)
      BY <3>1 DEF RemoveFile, At
    <3>2. CASE ~RemoveFile(d)
      BY <1>0, <1>5, <3>2 DEF Step, Fails, LockCollection, MkCollection, TruncateTmp, FillTmp, Rename, Stat, RemoveDone,
         UnlockCollection, Read, LockCache, TruncateEntry, FillEntry, Load, UnlockCache, ReadToIncrement, Increment,
         WriteFails, DeleteFails, MkdirFails, StoreFails, LoadFails, Goto, TypeOK
    <3> QED
      BY <3>1, <3>2
  <2> QED
    BY <2>1, <2>2 DEF ReadInv
<1> QED
  BY <1>1, <1>2, <1>3, <1>4, <1>5, <1>6, <1>i, ReadDirReads, ReadNextReads DEF Next, Step

\* A ReadAll under which no record changes returns all the records, each once,
\* and nothing else but the contents of .tmp files that are there, for any number
\* of clients and records (ReadAllStable).
THEOREM ReadAllIsStable == Spec => []ReadAllStable
<1> DEFINE Inv == StoreInv /\ \A c \in Clients : ReadInv(c)
<1>1. Init => Inv
  <2>1. Init => \A c \in Clients : ReadInv(c)
    BY NoneAssumption DEF Init, ReadInv, Ops
  <2> QED
    BY <2>1, InitInv
<1>2. Inv /\ [Next]_vars => Inv'
  BY ReadInvKept, TypesKept, MutexKept, RecordsKept DEF StoreInv
<1>3. Inv => ReadAllStable
  BY ReadInvStable DEF StoreInv
<1> QED
  BY <1>1, <1>2, <1>3, PTL DEF Spec

-----------------------------------------------------------------------------
(* The sequence: its digits, as they are written and read.                 *)

\* A number has finitely many digits: its tenth is less.
LEMMA Tenth ==
  ASSUME NEW n \in Nat, n >= 10
  PROVE  n \div 10 \in Nat /\ n \div 10 < n /\ n % 10 \in 0 .. 9 /\ n = 10 * (n \div 10) + (n % 10)
OBVIOUS

\* The digits of a number are what their definition says.
LEMMA DigitsDefined ==
  /\ DOMAIN Digits = Nat
  /\ \A n \in Nat : Digits[n] = IF n < 10 THEN <<n>> ELSE Append(Digits[n \div 10], n % 10)
<1> DEFINE V     == Seq(Nat)
           below == [n \in Nat |-> IF n < 10 THEN {} ELSE {n \div 10}]
           Value == [n \in Nat |-> [f \in [Nat -> V] |->
                       IF n < 10 THEN <<n>> ELSE Append(f[n \div 10], n % 10)]]
<1>1. Founded(Nat, below)
  <2>1. below \in [Nat -> SUBSET Nat]
    BY Tenth
  <2>2. ASSUME NEW T \in SUBSET Nat, T # {}
        PROVE  \E n \in T : below[n] \cap T = {}
    <3>1. PICK n \in T : \A k \in T : n <= k
      BY <2>2, LeastNatural
    <3>2. below[n] \cap T = {}
      BY <3>1, Tenth
    <3> QED
      BY <3>2
  <2> HIDE DEF below
  <2> QED
    BY <2>1, <2>2 DEF Founded
<1>2. DependsBelow(Nat, V, below, Value)
  <2>1. ASSUME NEW n \in Nat, NEW f \in [Nat -> V]
        PROVE  (IF n < 10 THEN <<n>> ELSE Append(f[n \div 10], n % 10)) \in V
    BY Tenth
  <2>2. Value \in [Nat -> [[Nat -> V] -> V]]
    BY <2>1
  <2>3. ASSUME NEW n \in Nat, NEW f \in [Nat -> V], NEW g \in [Nat -> V], \A k \in below[n] : f[k] = g[k]
        PROVE  Value[n][f] = Value[n][g]
    BY <2>3
  <2> HIDE DEF below, Value
  <2> QED
    BY <2>2, <2>3 DEF DependsBelow
<1>3. PICK f \in [Nat -> V] : \A n \in Nat : f[n] = Value[n][f]
  <2> HIDE DEF below, Value
  <2>1. V # {}
    <3>1. <<>> \in V
      OBVIOUS
    <3> HIDE DEF V
    <3> QED
      BY <3>1
  <2> HIDE DEF V
  <2>2. Defined(Nat, V, Value)
    BY <1>1, <1>2, <2>1, RecursionExists, Zenon
  <2> QED
    BY <2>2, Zenon DEF Defined
<1>4. f = [n \in Nat |-> IF n < 10 THEN <<n>> ELSE Append(f[n \div 10], n % 10)]
  <2>1. \A n \in Nat : f[n] = IF n < 10 THEN <<n>> ELSE Append(f[n \div 10], n % 10)
    BY <1>3
  <2> HIDE DEF V
  <2> QED
    BY <2>1
<1>5. Digits = [n \in Nat |-> IF n < 10 THEN <<n>> ELSE Append(Digits[n \div 10], n % 10)]
  BY <1>4, Zenon DEF Digits
<1> QED
  BY <1>5

LEMMA DigitsType == \A n \in Nat : Digits[n] \in Seq(0 .. 9) /\ Len(Digits[n]) >= 1
<1> DEFINE T == {n \in Nat : ~(Digits[n] \in Seq(0 .. 9) /\ Len(Digits[n]) >= 1)}
<1> SUFFICES ASSUME T # {}
             PROVE  FALSE
  OBVIOUS
<1>1. PICK n \in T : \A k \in T : n <= k
  BY LeastNatural
<1> DEFINE D == Digits[n]
<1>0. ~(D \in Seq(0 .. 9) /\ Len(D) >= 1)
  OBVIOUS
<1>2. ASSUME n < 10
      PROVE  FALSE
  <2>1. Digits[n] = <<n>> /\ n \in 0 .. 9
    BY <1>2, DigitsDefined
  <2>2. <<n>> \in Seq(0 .. 9) /\ Len(<<n>>) >= 1
    BY <2>1
  <2> QED
    BY <1>0, <2>1, <2>2, Zenon
<1>3. ASSUME n >= 10
      PROVE  FALSE
  <2>1. n \div 10 \in Nat \ T /\ n % 10 \in 0 .. 9
    BY <1>1, <1>3, Tenth
  <2> DEFINE s == Digits[n \div 10]
  <2>2. s \in Seq(0 .. 9) /\ Len(s) >= 1
    BY <2>1
  <2>3. Digits[n] = Append(s, n % 10)
    BY <1>3, DigitsDefined
  <2> HIDE DEF s
  <2>4. Append(s, n % 10) \in Seq(0 .. 9) /\ Len(Append(s, n % 10)) >= 1
    BY <2>1, <2>2
  <2> QED
    BY <1>0, <2>3, <2>4, Zenon
<1> QED
  BY <1>2, <1>3

\* What Atoi reads, digit by digit.
LEMMA AtoiReads ==
  ASSUME NEW s \in Seq(0 .. 9)
  PROVE  \E f \in [0 .. Len(s) -> Nat] :
           /\ f[0] = 0 /\ \A i \in 1 .. Len(s) : f[i] = 10 * f[i - 1] + s[i]
           /\ Atoi(s) = f[Len(s)]
<1> DEFINE n     == Len(s)
           S     == 0 .. n
           below == [i \in S |-> IF i = 0 THEN {} ELSE {i - 1}]
           Value == [i \in S |-> [f \in [S -> Nat] |-> IF i = 0 THEN 0 ELSE 10 * f[i - 1] + s[i]]]
<1>0. n \in Nat /\ \A i \in 1 .. n : s[i] \in Nat
  OBVIOUS
<1> HIDE DEF n
<1>1. Founded(S, below)
  <2>1. below \in [S -> SUBSET S]
    BY <1>0
  <2>2. ASSUME NEW T \in SUBSET S, T # {}
        PROVE  \E i \in T : below[i] \cap T = {}
    <3>0. T \subseteq Nat
      BY <1>0
    <3>1. PICK i \in T : \A k \in T : i <= k
      BY <2>2, <3>0, LeastNatural, Zenon
    <3> QED
      BY <1>0, <3>1
  <2> HIDE DEF below, S
  <2> QED
    BY <2>1, <2>2 DEF Founded
<1>2. DependsBelow(S, Nat, below, Value)
  <2>0. ASSUME NEW i \in S, NEW f \in [S -> Nat]
        PROVE  (IF i = 0 THEN 0 ELSE 10 * f[i - 1] + s[i]) \in Nat
    <3>1. CASE i = 0
      BY <3>1
    <3>2. CASE i # 0
      <4>1. i - 1 \in S /\ i \in 1 .. n
        BY <1>0, <3>2
      <4>2. f[i - 1] \in Nat /\ s[i] \in Nat
        BY <1>0, <4>1
      <4> QED
        BY <3>2, <4>2
    <3> QED
      BY <3>1, <3>2
  <2>1. Value \in [S -> [[S -> Nat] -> Nat]]
    BY <2>0
  <2>2. ASSUME NEW i \in S, NEW f \in [S -> Nat], NEW g \in [S -> Nat], \A k \in below[i] : f[k] = g[k]
        PROVE  Value[i][f] = Value[i][g]
    BY <2>2
  <2> HIDE DEF below, Value, S
  <2> QED
    BY <2>1, <2>2 DEF DependsBelow
<1>3. PICK f \in [S -> Nat] : \A i \in S : f[i] = Value[i][f]
  <2> HIDE DEF below, Value, S
  <2>1. Defined(S, Nat, Value)
    BY <1>1, <1>2, RecursionExists
  <2> QED
    BY <2>1 DEF Defined
<1>4. \A i \in S : f[i] = IF i = 0 THEN 0 ELSE 10 * f[i - 1] + s[i]
  BY <1>3
<1>5. f = [i \in S |-> IF i = 0 THEN 0 ELSE 10 * f[i - 1] + s[i]]
  BY <1>4
<1> DEFINE r == CHOOSE g : g = [i \in S |-> IF i = 0 THEN 0 ELSE 10 * g[i - 1] + s[i]]
<1>6. r = [i \in S |-> IF i = 0 THEN 0 ELSE 10 * r[i - 1] + s[i]]
  BY <1>5, Zenon
<1>7. Atoi(s) = r[n]
  BY Zenon DEF Atoi, n
<1> HIDE DEF r
<1>8. r[0] = 0 /\ \A i \in 1 .. n : r[i] = 10 * r[i - 1] + s[i]
  BY <1>0, <1>6
<1>9. \A i \in S : r[i] \in Nat
  <2> DEFINE T == {i \in S : r[i] \notin Nat}
  <2> SUFFICES ASSUME T # {}
               PROVE  FALSE
    OBVIOUS
  <2>0. T \subseteq Nat
    BY <1>0
  <2>1. PICK i \in T : \A k \in T : i <= k
    BY <2>0, LeastNatural, Zenon
  <2>2. i # 0
    BY <1>8
  <2>3. i - 1 \in S /\ i \in 1 .. n /\ r[i - 1] \in Nat
    BY <1>0, <2>1, <2>2
  <2>4. r[i] = 10 * r[i - 1] + s[i] /\ s[i] \in Nat
    BY <1>0, <1>8, <2>3
  <2>5. r[i] \in Nat
    BY <2>3, <2>4
  <2> QED
    BY <2>5
<1>10. r \in [S -> Nat]
  BY <1>6, <1>9
<1> QED
  BY <1>7, <1>8, <1>10 DEF n

LEMMA AtoiAppend ==
  ASSUME NEW s \in Seq(0 .. 9), NEW d \in 0 .. 9
  PROVE  Atoi(s) \in Nat /\ Atoi(Append(s, d)) = 10 * Atoi(s) + d
<1> DEFINE t == Append(s, d)
           n == Len(s)
<1>1. t \in Seq(0 .. 9) /\ Len(t) = n + 1 /\ t[n + 1] = d /\ (\A i \in 1 .. n : t[i] = s[i]) /\ n \in Nat
  OBVIOUS
<1>2. PICK f \in [0 .. n -> Nat] :
        f[0] = 0 /\ (\A i \in 1 .. n : f[i] = 10 * f[i - 1] + s[i]) /\ Atoi(s) = f[n]
  BY AtoiReads
<1> HIDE DEF t
<1>3. PICK g \in [0 .. n + 1 -> Nat] :
        g[0] = 0 /\ (\A i \in 1 .. n + 1 : g[i] = 10 * g[i - 1] + t[i]) /\ Atoi(t) = g[n + 1]
  BY <1>1, AtoiReads
<1> HIDE DEF n
<1>4. \A i \in 0 .. n : f[i] = g[i]
  <2> DEFINE T == {i \in 0 .. n : f[i] # g[i]}
  <2> SUFFICES ASSUME T # {}
               PROVE  FALSE
    OBVIOUS
  <2>0. T \subseteq Nat
    BY <1>1
  <2>1. PICK i \in T : \A k \in T : i <= k
    BY <2>0, LeastNatural, Zenon
  <2>2. i # 0
    BY <1>2, <1>3
  <2>3. i - 1 \in 0 .. n /\ i \in 1 .. n /\ f[i - 1] = g[i - 1]
    BY <1>1, <2>1, <2>2
  <2>4. f[i] = 10 * f[i - 1] + s[i] /\ g[i] = 10 * g[i - 1] + s[i]
    BY <1>1, <1>2, <1>3, <2>3
  <2> QED
    BY <2>3, <2>4
<1>5. Atoi(t) = 10 * f[n] + d
  BY <1>1, <1>3, <1>4
<1> QED
  BY <1>1, <1>2, <1>5 DEF t

\* Of an empty file Atoi is not called: the number is 0, which it gives here too.
LEMMA AtoiEmpty == Atoi(<<>>) = 0
<1>1. <<>> \in Seq(0 .. 9) /\ Len(<<>>) = 0
  OBVIOUS
<1> QED
  BY <1>1, AtoiReads

\* Atoi reads what fmt.Sprint has written.
LEMMA DigitsRead == \A n \in Nat : Atoi(Digits[n]) = n
<1> DEFINE T == {n \in Nat : Atoi(Digits[n]) # n}
<1> SUFFICES ASSUME T # {}
             PROVE  FALSE
  OBVIOUS
<1>1. PICK n \in T : \A k \in T : n <= k
  BY LeastNatural
<1>2. ASSUME n < 10
      PROVE  Atoi(Digits[n]) = n
  <2>1. Digits[n] = Append(<<>>, n) /\ n \in 0 .. 9
    BY <1>2, DigitsDefined
  <2>2. <<>> \in Seq(0 .. 9)
    OBVIOUS
  <2>3. Atoi(Append(<<>>, n)) = 10 * 0 + n
    BY <2>1, <2>2, AtoiAppend, AtoiEmpty
  <2> QED
    BY <2>1, <2>3
<1>3. ASSUME n >= 10
      PROVE  Atoi(Digits[n]) = n
  <2> DEFINE m == n \div 10
             d == n % 10
  <2>1. m \in Nat /\ m < n /\ d \in 0 .. 9 /\ n = 10 * m + d
    BY <1>3, Tenth
  <2>2. Digits[n] = Append(Digits[m], d)
    BY <1>3, DigitsDefined
  <2> HIDE DEF m, d
  <2>3. Atoi(Digits[m]) = m
    BY <1>1, <2>1
  <2>4. Digits[m] \in Seq(0 .. 9)
    BY <2>1, DigitsType
  <2>5. Atoi(Append(Digits[m], d)) = 10 * m + d
    BY <2>1, <2>3, <2>4, AtoiAppend
  <2> QED
    BY <2>1, <2>2, <2>5
<1> QED
  BY <1>2, <1>3

\* A larger number has no fewer digits.
LEMMA DigitsLonger == \A n \in Nat : \A m \in 0 .. n : Len(Digits[m]) <= Len(Digits[n])
<1> DEFINE T == {n \in Nat : \E m \in 0 .. n : ~(Len(Digits[m]) <= Len(Digits[n]))}
<1> SUFFICES ASSUME T # {}
             PROVE  FALSE
  OBVIOUS
<1>1. PICK n \in T : \A k \in T : n <= k
  BY LeastNatural
<1>2. PICK m \in 0 .. n : ~(Len(Digits[m]) <= Len(Digits[n]))
  OBVIOUS
<1>3. Len(Digits[n]) \in Nat /\ Len(Digits[n]) >= 1
  BY DigitsType
<1>4. ASSUME m < 10
      PROVE  Len(Digits[m]) <= Len(Digits[n])
  <2>1. Digits[m] = <<m>>
    BY <1>4, DigitsDefined
  <2>2. Len(Digits[m]) = 1
    BY <2>1
  <2> QED
    BY <1>3, <2>2
<1>5. ASSUME m >= 10
      PROVE  Len(Digits[m]) <= Len(Digits[n])
  <2>0. m \in Nat /\ n >= 10
    BY <1>5
  <2>1. n \div 10 \in Nat \ T /\ m \div 10 \in 0 .. n \div 10
    BY <1>1, <1>5, <2>0, Tenth
  <2>2. Len(Digits[m \div 10]) <= Len(Digits[n \div 10])
    BY <2>1
  <2>3. Digits[m] = Append(Digits[m \div 10], m % 10) /\ Digits[n] = Append(Digits[n \div 10], n % 10)
    <3>1. ~(m < 10) /\ ~(n < 10)
      BY <1>5, <2>0
    <3> QED
      BY <2>0, <3>1, DigitsDefined, Zenon
  <2>4. Digits[m \div 10] \in Seq(0 .. 9) /\ Digits[n \div 10] \in Seq(0 .. 9)
    BY <2>1, DigitsType
  <2>5. Len(Digits[m]) = Len(Digits[m \div 10]) + 1 /\ Len(Digits[n]) = Len(Digits[n \div 10]) + 1
    BY <2>3, <2>4
  <2> QED
    BY <2>2, <2>4, <2>5
<1> QED
  BY <1>2, <1>4, <1>5
-----------------------------------------------------------------------------
(* The numbers that IncrementSeq returns.                                  *)

\* The types of the sequence.
SeqTypes ==
  /\ seq \in Seq(0 .. 9)
  /\ issued \in Seq(0 .. Modulus - 1)
  /\ \A c \in Clients : At(c, "increment", "writing") => value[c] \in 0 .. Modulus - 1

\* as long as no two calls overlap, one client at most increments
Alone == ~overlapped => \A c, d \in Clients : op[c] = "increment" /\ op[d] = "increment" => c = d

\* The file holds v, which is what was issued last if anything was, and a client
\* that has read it writes the number after v.
Holds(v) ==
  /\ seq = Digits[v] \/ (seq = <<>> /\ v = 0)
  /\ \A i \in 1 .. Len(issued) : issued[i] <= v
  /\ \A i \in 1 .. Len(issued) - 1 : issued[i] < issued[i + 1]
  /\ \A c \in Clients : At(c, "increment", "writing") => value[c] = (v + 1) % Modulus

NumberInv == ~overlapped /\ 0 \notin ToSet(issued) => \E v \in 0 .. Modulus - 1 : Holds(v)

SeqInv == SeqTypes /\ Alone /\ NumberInv

\* A number overwrites one that is not longer.
LEMMA OverwriteAll ==
  ASSUME NEW old \in Seq(0 .. 9), NEW new \in Seq(0 .. 9), Len(old) <= Len(new)
  PROVE  Overwrite(old, new) = new
<1>1. Len(new) + 1 \in Nat /\ Len(old) \in Nat /\ Len(new) + 1 > Len(old)
  OBVIOUS
<1>2. SubSeq(old, Len(new) + 1, Len(old)) = <<>>
  BY <1>1
<1> QED
  BY <1>2 DEF Overwrite

\* What is written over a number is a number too.
LEMMA OverwriteType ==
  ASSUME NEW old \in Seq(0 .. 9), NEW new \in Seq(0 .. 9)
  PROVE  Overwrite(old, new) \in Seq(0 .. 9)
<1>1. SubSeq(old, Len(new) + 1, Len(old)) \in Seq(0 .. 9)
  OBVIOUS
<1> QED
  BY <1>1 DEF Overwrite

LEMMA AppendFacts ==
  ASSUME NEW S, NEW s \in Seq(S), NEW x \in S
  PROVE  /\ Len(s) \in Nat /\ Len(Append(s, x)) = Len(s) + 1 /\ Append(s, x)[Len(s) + 1] = x
         /\ \A i \in 1 .. Len(s) : Append(s, x)[i] = s[i] /\ s[i] \in S
OBVIOUS

LEMMA AtoiType == \A s \in Seq(0 .. 9) : Atoi(s) \in Nat
<1> SUFFICES ASSUME NEW s \in Seq(0 .. 9)
             PROVE  Atoi(s) \in Nat
  OBVIOUS
<1>1. 0 \in 0 .. 9
  OBVIOUS
<1> QED
  BY <1>1, AtoiAppend

LEMMA Remainder ==
  ASSUME NEW n \in Nat
  PROVE  n % Modulus \in 0 .. Modulus - 1 /\ (n < Modulus => n % Modulus = n) /\ (n = Modulus => n % Modulus = 0)
BY BoundsAssumption

LEMMA SeqInit == Init => SeqInv
<1> SUFFICES ASSUME Init
             PROVE  SeqInv
  OBVIOUS
<1>1. \A c \in Clients : op[c] = None /\ pc[c] = "idle"
  BY DEF Init
<1>2. issued = <<>> /\ None # "increment"
  BY NoneAssumption DEF Init, Ops
<1>3. SeqTypes
  <2>1. seq \in Seq(0 .. 9)
    <3>1. \A n \in Numbers : n \in Nat
      BY NumbersAssumption, BoundsAssumption
    <3>2. seq = <<>> \/ \E n \in Numbers : seq = Digits[n]
      BY Zenon DEF Init
    <3>3. <<>> \in Seq(0 .. 9)
      OBVIOUS
    <3> QED
      BY <3>1, <3>2, <3>3, DigitsType, Zenon
  <2>2. issued \in Seq(0 .. Modulus - 1)
    BY <1>2
  <2> QED
    BY <1>1, <1>2, <2>1, <2>2, Zenon DEF SeqTypes, At
<1>4. Alone
  BY <1>1, <1>2 DEF Alone
<1>5. NumberInv
  <2>1. \E v \in 0 .. Modulus - 1 : seq = Digits[v] \/ (seq = <<>> /\ v = 0)
    <3>1. seq = <<>> \/ \E n \in Numbers : seq = Digits[n]
      BY Zenon DEF Init
    <3>2. 0 \in 0 .. Modulus - 1
      BY BoundsAssumption
    <3> QED
      BY <3>1, <3>2, NumbersAssumption, Zenon
  <2>2. ASSUME NEW v \in 0 .. Modulus - 1, seq = Digits[v] \/ (seq = <<>> /\ v = 0)
        PROVE  Holds(v)
    <3>1. Len(issued) = 0
      BY <1>2
    <3>2. /\ \A i \in 1 .. Len(issued) : issued[i] <= v
          /\ \A i \in 1 .. Len(issued) - 1 : issued[i] < issued[i + 1]
      BY <3>1
    <3> QED
      BY <1>1, <1>2, <2>2, <3>2, Zenon DEF Holds, At
  <2> QED
    BY <2>1, <2>2, Zenon DEF NumberInv
<1> QED
  BY <1>3, <1>4, <1>5 DEF SeqInv

\* A step that is neither a call of IncrementSeq nor one of its steps.
LEMMA OtherStepsKeepSeq ==
  ASSUME SeqInv, UNCHANGED <<seq, issued>>, overlapped => overlapped',
         \A c \in Clients : op'[c] = "increment" => op[c] = "increment" /\ pc'[c] = pc[c] /\ value'[c] = value[c]
  PROVE  SeqInv'
<1>1. \A c \in Clients : At(c, "increment", "writing")' => At(c, "increment", "writing") /\ value'[c] = value[c]
  BY DEF At
<1>2. SeqTypes'
  BY <1>1 DEF SeqInv, SeqTypes
<1>3. Alone'
  BY DEF SeqInv, Alone
<1>4. ASSUME NEW v \in 0 .. Modulus - 1, Holds(v)
      PROVE  Holds(v)'
  BY <1>1, <1>4 DEF Holds
<1>5. NumberInv'
  BY <1>4 DEF SeqInv, NumberInv
<1> QED
  BY <1>2, <1>3, <1>5 DEF SeqInv

LEMMA CallKeepsSeq ==
  ASSUME TypeOK, PlaceInv, SeqInv, NEW c \in Clients, Calls(c)
  PROVE  SeqInv'
<1>1. ASSUME NEW o \in Ops, NEW k \in Keys \cup {None}, Call(c, o, k)
      PROVE  SeqInv'
  <2>1. /\ op' = [op EXCEPT ![c] = o] /\ pc' = [pc EXCEPT ![c] = "called"] /\ pc[c] = "idle"
        /\ \A d \in Clients \ {c} : value'[d] = value[d]
        /\ UNCHANGED <<seq, issued>>
        /\ overlapped' = (overlapped \/ (o = "increment" /\ \E d \in Clients : op[d] = "increment"))
    BY <1>1 DEF Call, Goto, files, TypeOK
  <2>2. \A d \in Clients : op'[d] = (IF d = c THEN o ELSE op[d]) /\ pc'[d] = (IF d = c THEN "called" ELSE pc[d])
    BY <2>1 DEF TypeOK
  <2>3. \A d \in Clients : At(d, "increment", "writing")' => d # c /\ At(d, "increment", "writing") /\ value'[d] = value[d]
    BY <2>1, <2>2 DEF At
  <2>4. SeqTypes'
    BY <2>1, <2>3 DEF SeqInv, SeqTypes
  <2>5. Alone'
    <3> SUFFICES ASSUME ~overlapped', NEW d \in Clients, NEW e \in Clients, op'[d] = "increment", op'[e] = "increment"
                 PROVE  d = e
      BY DEF Alone
    <3>1. ~overlapped /\ ~(o = "increment" /\ \E f \in Clients : op[f] = "increment")
      BY <2>1
    <3> QED
      BY <2>2, <3>1 DEF SeqInv, Alone
  <2>6. ASSUME NEW v \in 0 .. Modulus - 1, Holds(v)
        PROVE  Holds(v)'
    BY <2>1, <2>3, <2>6 DEF Holds
  <2>7. NumberInv'
    <3>1. ~overlapped' => ~overlapped
      BY <2>1
    <3> QED
      BY <2>1, <2>6, <3>1 DEF SeqInv, NumberInv
  <2> QED
    BY <2>4, <2>5, <2>7 DEF SeqInv
<1>2. PICK o \in Ops, k \in Keys \cup {None} : Call(c, o, k)
  BY DEF Calls, Ops, Keys
<1> QED
  BY <1>1, <1>2

\* IncrementSeq reads v.
LEMMA ReadKeepsSeq ==
  ASSUME TypeOK, PlaceInv, SeqInv, NEW c \in Clients, ReadToIncrement(c)
  PROVE  SeqInv'
<1> DEFINE n == Atoi(seq) + 1
<1>1. /\ At(c, "increment", "called") /\ UNCHANGED <<op, seq, issued, overlapped>>
      /\ value' = [value EXCEPT ![c] = n % Modulus] /\ pc' = [pc EXCEPT ![c] = "writing"]
  BY DEF ReadToIncrement, Goto, files, history
<1>2. n \in Nat
  <2>1. Atoi(seq) \in Nat
    BY AtoiType DEF SeqInv, SeqTypes
  <2> QED
    BY <2>1
<1> HIDE DEF n
<1>3. value'[c] = n % Modulus /\ n % Modulus \in 0 .. Modulus - 1 /\ \A d \in Clients \ {c} : value'[d] = value[d]
  BY <1>1, <1>2, Remainder DEF TypeOK
<1>4. \A d \in Clients : At(d, "increment", "writing")' => d = c \/ At(d, "increment", "writing")
  BY <1>1 DEF At, TypeOK
<1>5. SeqTypes'
  BY <1>1, <1>3, <1>4 DEF SeqInv, SeqTypes
<1>6. Alone'
  BY <1>1 DEF SeqInv, Alone
<1>7. ASSUME NEW v \in 0 .. Modulus - 1, Holds(v)
      PROVE  Holds(v)'
  <2>1. Atoi(seq) = v
    <3>1. v \in Nat
      BY BoundsAssumption
    <3> QED
      BY <1>7, <3>1, DigitsRead, AtoiEmpty, Zenon DEF Holds
  <2>2. \A d \in Clients : At(d, "increment", "writing")' => value'[d] = (v + 1) % Modulus
    BY <1>3, <1>4, <1>7, <2>1 DEF Holds, n
  <2> QED
    BY <1>1, <1>7, <2>2 DEF Holds
<1>8. NumberInv'
  BY <1>1, <1>7 DEF SeqInv, NumberInv
<1> QED
  BY <1>5, <1>6, <1>8 DEF SeqInv

\* IncrementSeq writes the number after v, which is not shorter.
LEMMA IncrementKeepsSeq ==
  ASSUME TypeOK, PlaceInv, SeqInv, NEW c \in Clients, Increment(c)
  PROVE  SeqInv'
<1>0. At(c, "increment", "writing") /\ value[c] \in 0 .. Modulus - 1
  BY DEF SeqInv, SeqTypes, Increment
<1>2. PICK w \in 0 .. Modulus - 1 : w = value[c] /\ w \in Nat
  BY <1>0, BoundsAssumption
<1>1. /\ At(c, "increment", "writing") /\ UNCHANGED <<op, value, overlapped>>
      /\ seq' = Overwrite(seq, Digits[w]) /\ issued' = Append(issued, w) /\ pc' = [pc EXCEPT ![c] = "ok"]
  BY <1>2 DEF Increment, Goto
<1>3. \A d \in Clients : At(d, "increment", "writing")' => d # c /\ At(d, "increment", "writing")
  BY <1>1 DEF At, TypeOK
<1>4. seq \in Seq(0 .. 9) /\ issued \in Seq(0 .. Modulus - 1)
  BY DEF SeqInv, SeqTypes
<1>5. SeqTypes'
  <2>1. seq' \in Seq(0 .. 9)
    BY <1>1, <1>2, <1>4, DigitsType, OverwriteType
  <2>2. issued' \in Seq(0 .. Modulus - 1)
    BY <1>1, <1>2, <1>4
  <2> QED
    BY <1>1, <1>3, <2>1, <2>2 DEF SeqInv, SeqTypes
<1>6. Alone'
  BY <1>1 DEF SeqInv, Alone
<1>7. ASSUME ~overlapped, 0 \notin ToSet(issued')
      PROVE  \E v \in 0 .. Modulus - 1 : Holds(v)'
  <2>1. /\ Len(issued') = Len(issued) + 1 /\ Len(issued) \in Nat /\ issued'[Len(issued) + 1] = w
        /\ \A i \in 1 .. Len(issued) : issued'[i] = issued[i] /\ issued[i] \in 0 .. Modulus - 1
    <3>1. /\ Len(Append(issued, w)) = Len(issued) + 1 /\ Len(issued) \in Nat /\ Append(issued, w)[Len(issued) + 1] = w
          /\ \A i \in 1 .. Len(issued) : Append(issued, w)[i] = issued[i] /\ issued[i] \in 0 .. Modulus - 1
      <4> DEFINE S == 0 .. Modulus - 1
      <4>1. issued \in Seq(S) /\ w \in S
        BY <1>4
      <4> HIDE DEF S
      <4>2. /\ Len(issued) \in Nat /\ Len(Append(issued, w)) = Len(issued) + 1 /\ Append(issued, w)[Len(issued) + 1] = w
            /\ \A i \in 1 .. Len(issued) : Append(issued, w)[i] = issued[i] /\ issued[i] \in S
        BY <4>1, AppendFacts, Zenon
      <4> QED
        BY <4>2 DEF S
    <3> QED
      BY <1>1, <3>1, Zenon
  <2>2. 0 \notin ToSet(issued) /\ w # 0
    BY <1>7, <2>1 DEF ToSet
  <2>3. PICK v \in 0 .. Modulus - 1 : Holds(v)
    BY <1>7, <2>2 DEF SeqInv, NumberInv
  <2>4. v \in Nat /\ w = (v + 1) % Modulus
    BY <1>1, <1>2, <2>3, BoundsAssumption DEF Holds
  <2>5. w = v + 1
    <3>1. v + 1 < Modulus \/ v + 1 = Modulus
      BY <2>4, BoundsAssumption
    <3>2. v + 1 \in Nat
      BY <2>4
    <3> QED
      BY <2>2, <2>4, <3>1, <3>2, Remainder
  <2>6. seq' = Digits[w]
    <3>1. Digits[w] \in Seq(0 .. 9) /\ Len(Digits[w]) >= 1
      BY <1>2, DigitsType
    <3>2. Len(seq) <= Len(Digits[w])
      <4>1. CASE seq = Digits[v]
        <5>1. v \in 0 .. w
          BY <2>4, <2>5
        <5> QED
          BY <1>2, <4>1, <5>1, DigitsLonger
      <4>2. CASE seq = <<>>
        BY <3>1, <4>2
      <4> QED
        BY <2>3, <4>1, <4>2 DEF Holds
    <3> QED
      BY <1>1, <1>4, <3>1, <3>2, OverwriteAll
  <2>7. \A i \in 1 .. Len(issued') : issued'[i] <= w
    BY <1>2, <2>1, <2>3, <2>4, <2>5 DEF Holds
  <2>8. ASSUME NEW i \in 1 .. Len(issued') - 1
        PROVE  issued'[i] < issued'[i + 1]
    <3>1. i \in 1 .. Len(issued) /\ issued'[i] = issued[i] /\ issued[i] <= v /\ issued[i] \in Nat
      BY <2>1, <2>3, BoundsAssumption DEF Holds
    <3>2. CASE i = Len(issued)
      BY <2>1, <2>4, <2>5, <3>1, <3>2
    <3>3. CASE i # Len(issued)
      <4>1. i \in 1 .. Len(issued) - 1 /\ i + 1 \in 1 .. Len(issued)
        BY <2>1, <3>1, <3>3
      <4> QED
        BY <2>1, <2>3, <3>1, <4>1 DEF Holds
    <3> QED
      BY <3>2, <3>3
  <2>9. \A d \in Clients : ~At(d, "increment", "writing")'
    BY <1>1, <1>3, <1>7 DEF SeqInv, Alone, At
  <2>10. Holds(w)'
    BY <2>6, <2>7, <2>8, <2>9 DEF Holds
  <2> QED
    BY <1>2, <2>10
<1>8. NumberInv'
  BY <1>1, <1>7 DEF NumberInv
<1> QED
  BY <1>5, <1>6, <1>8 DEF SeqInv

LEMMA SeqKept ==
  ASSUME TypeOK, PlaceInv, SeqInv, [Next]_vars
  PROVE  SeqInv'
<1>2. ASSUME NEW c \in Clients, Step(c), ~ReadToIncrement(c), ~Increment(c)
      PROVE  SeqInv'
  <2>1. UNCHANGED <<seq, issued, overlapped>>
    BY <1>2 DEF Step, LockCollection, MkCollection, TruncateTmp, FillTmp, Rename, Stat, RemoveFile, RemoveDone,
         UnlockCollection, Read, ReadDir, ReadNext, LockCache, TruncateEntry, FillEntry, Load, UnlockCache, Return,
         files, history
  <2>2. \A d \in Clients : op'[d] = "increment" => op[d] = "increment" /\ pc'[d] = pc[d] /\ value'[d] = value[d]
    <3>1. CASE Return(c)
      BY <3>1, NoneAssumption DEF Return, Goto, TypeOK, Ops
    <3>2. CASE ~Return(c)
      <4>1. op' = op /\ op[c] # "increment"
        BY <1>2, <3>2 DEF Step, LockCollection, MkCollection, TruncateTmp, FillTmp, Rename, Stat, RemoveFile, RemoveDone,
         UnlockCollection, Read, ReadDir, ReadNext, LockCache, TruncateEntry, FillEntry, Load, UnlockCache, At
      <4>2. \A d \in Clients \ {c} : pc'[d] = pc[d] /\ value'[d] = value[d]
        BY <1>2, <3>2 DEF Step, LockCollection, MkCollection, TruncateTmp, FillTmp, Rename, Stat, RemoveFile, RemoveDone,
         UnlockCollection, Read, ReadDir, ReadNext, LockCache, TruncateEntry, FillEntry, Load, UnlockCache, Goto, TypeOK
      <4> QED
        BY <4>1, <4>2
    <3> QED
      BY <3>1, <3>2
  <2> QED
    BY <2>1, <2>2, OtherStepsKeepSeq
<1>3. ASSUME NEW c \in Clients, Fails(c)
      PROVE  SeqInv'
  <2>1. UNCHANGED <<seq, issued, overlapped, op, value>> /\ op[c] # "increment"
    BY <1>3 DEF Fails, WriteFails, DeleteFails, ReadFails, MkdirFails, StoreFails, LoadFails, files, history, At
  <2>2. \A d \in Clients \ {c} : pc'[d] = pc[d]
    BY <1>3 DEF Fails, WriteFails, DeleteFails, ReadFails, MkdirFails, StoreFails, LoadFails, Goto, TypeOK
  <2> QED
    BY <2>1, <2>2, OtherStepsKeepSeq
<1>4. CASE Crash
  <2>1. UNCHANGED <<seq, issued, overlapped>> /\ \A d \in Clients : op'[d] = None
    BY <1>4 DEF Crash, files, history
  <2>2. None # "increment"
    BY NoneAssumption DEF Ops
  <2> QED
    BY <2>1, <2>2, OtherStepsKeepSeq
<1>5. CASE UNCHANGED vars
  <2>1. UNCHANGED <<seq, issued, overlapped, op, pc, value>>
    BY <1>5 DEF vars, files, client, history
  <2> QED
    BY <2>1, OtherStepsKeepSeq
<1> QED
  BY <1>2, <1>3, <1>4, <1>5, CallKeepsSeq, ReadKeepsSeq, IncrementKeepsSeq DEF Next, Step

\* As long as no two calls of IncrementSeq overlap, each returns a larger number
\* than the ones before until the number wraps, for any number of callers, of
\* crashes and of digits (SeqIncreases).
THEOREM NumbersIncrease == Spec => []SeqIncreases
<1> DEFINE Inv == TypeOK /\ PlaceInv /\ SeqInv
<1>1. Init => Inv
  BY InitInv, SeqInit DEF StoreInv
<1>2. Inv /\ [Next]_vars => Inv'
  BY TypesKept, SeqKept
<1>3. Inv => SeqIncreases
  <2> SUFFICES ASSUME SeqInv, ~overlapped, NEW i \in 1 .. Len(issued) - 1, 0 \notin ToSet(issued)
               PROVE  issued[i] < issued[i + 1]
    BY DEF SeqIncreases
  <2>1. PICK v \in 0 .. Modulus - 1 : Holds(v)
    BY DEF SeqInv, NumberInv
  <2> QED
    BY <2>1 DEF Holds
<1> QED
  BY <1>1, <1>2, <1>3, PTL DEF Spec
=============================================================================
