------------------------------ MODULE FileStore -----------------------------
(* The files that the module keeps: the records of a scribble Driver       *)
(* (src/scribble), one .json file each, in one collection; the entries of  *)
(* a persistent cache (src/cachz/file.go), one file each; and a sequence   *)
(* number (src/filez/seq.go).  Clients are goroutines of a process that    *)
(* may crash, and comes back with new mutexes.                             *)
(*                                                                         *)
(* External: a file is rewritten in two steps, truncated and then filled;  *)
(* a rename, and the opening of a file to read it, are atomic.  A content  *)
(* is the number of the call that wrote it, or Torn.                       *)
EXTENDS Integers, Sequences, FiniteSets, SequencesExt

CONSTANTS
  Clients,
  Records, Entries,   \* resources of the collection, keys of the cache
  Numbers,            \* numbers that the sequence may start at
  Modulus,            \* 2^32 of the uint32 of the sequence
  MaxCalls,           \* bound on calls, and the contents
  MaxFaults,          \* bound on crashes and failures of the file system
  None, Torn

\* the calls of a Driver, of a cache, of a sequence
Ops == {"write", "delete", "read", "readall", "store", "load", "increment"}

ASSUME KeysAssumption   == Records \cap Entries = {} /\ IsFiniteSet(Records)
ASSUME BoundsAssumption == MaxCalls \in Nat /\ MaxFaults \in Nat /\ Modulus \in Nat \ {0}
ASSUME NumbersAssumption == Numbers \subseteq 0 .. Modulus - 1
ASSUME NoneAssumption   ==
  {None, Torn} \cap (Records \cup Entries \cup Nat) = {} /\ None # Torn /\ None \notin Clients \cup Ops

Keys  == Records \cup Entries
Locks == {"collection", "cache"}

VARIABLES
  uses,             \* which of the three is used: they share nothing
  dir,              \* TRUE: the directory of the collection exists
  file, tmp,        \* contents of the files, and of the .json.tmp of records
  seq,              \* the digits in the file of the sequence
  mutex,            \* who holds the mutex of the collection, of the cache
  pc, op, key,      \* per client: where it is in which call, on what
  value,            \* what it writes, or has read
  list, rest,       \* what ReadAll has read, and the files it has left to read
  changed,          \* the records that changed since ReadAll was called
  issued,           \* the numbers that IncrementSeq returned
  overlapped,       \* TRUE: two calls of IncrementSeq were in progress at once
  calls, faults

files   == <<uses, dir, file, tmp, seq>>
client  == <<pc, op, key, value, list, rest, changed>>
history == <<issued, overlapped>>
vars    == <<files, mutex, client, history, calls, faults>>

\* how fmt.Sprint writes a number, and Atoi reads it
Digits[n \in Nat] == IF n < 10 THEN <<n>> ELSE Append(Digits[n \div 10], n % 10)
Atoi(s) == LET read[i \in 0 .. Len(s)] == IF i = 0 THEN 0 ELSE 10 * read[i - 1] + s[i] IN read[Len(s)]

Init ==
  /\ uses \in {"scribble", "cachz", "seq"}
  /\ dir = FALSE
  /\ file = [k \in Keys |-> None]
  /\ tmp = [k \in Records |-> None]
  /\ seq \in {<<>>} \cup {Digits[n] : n \in Numbers}
  /\ mutex = [l \in Locks |-> None]
  /\ pc = [c \in Clients |-> "idle"]
  /\ op = [c \in Clients |-> None]
  /\ key = [c \in Clients |-> None]
  /\ value = [c \in Clients |-> None]
  /\ list = [c \in Clients |-> {}]
  /\ rest = [c \in Clients |-> <<>>]
  /\ changed = [c \in Clients |-> {}]
  /\ issued = <<>> /\ overlapped = FALSE
  /\ calls = 0 /\ faults = 0

At(c, o, place)  == op[c] = o /\ pc[c] = place
Goto(c, place)   == pc' = [pc EXCEPT ![c] = place]
\* Mutant: a mutex that is not waited for.
LockAlways(l, c) == mutex' = [mutex EXCEPT ![l] = c]
Lock(l, c)       == mutex[l] = None /\ mutex' = [mutex EXCEPT ![l] = c]
Unlock(l)        == mutex' = [mutex EXCEPT ![l] = None]
Fault            == faults < MaxFaults /\ faults' = faults + 1
\* a record changes under every ReadAll in progress
Changes(ks)      == changed' = [c \in Clients |-> IF op[c] = "readall" THEN changed[c] \cup ks ELSE changed[c]]

Call(c, o, k) ==
  /\ pc[c] = "idle" /\ calls < MaxCalls
  /\ calls' = calls + 1
  /\ op' = [op EXCEPT ![c] = o]
  /\ key' = [key EXCEPT ![c] = k]
  /\ value' = [value EXCEPT ![c] = IF o \in {"write", "store"} THEN calls + 1 ELSE None]
  /\ Goto(c, "called")
  /\ overlapped' = (overlapped \/ (o = "increment" /\ \E d \in Clients : op[d] = "increment"))
  /\ UNCHANGED <<files, mutex, list, rest, changed, issued, faults>>

\* the caller has the result
Return(c) ==
  /\ pc[c] \in {"ok", "error", "missing"}
  /\ Goto(c, "idle")
  /\ op' = [op EXCEPT ![c] = None]
  /\ key' = [key EXCEPT ![c] = None]
  /\ value' = [value EXCEPT ![c] = None]
  /\ list' = [list EXCEPT ![c] = {}]
  /\ rest' = [rest EXCEPT ![c] = <<>>]
  /\ changed' = [changed EXCEPT ![c] = {}]
  /\ UNCHANGED <<files, mutex, history, calls, faults>>

-----------------------------------------------------------------------------
(* scribble.                                                               *)

\* getOrCreateMutex: the mutex of a collection is made once
LockCollection(c) ==
  /\ op[c] \in {"write", "delete"} /\ pc[c] = "called"
  /\ Lock("collection", c)
  /\ Goto(c, IF op[c] = "write" THEN "mkdir" ELSE "stat")
  /\ UNCHANGED <<files, op, key, value, list, rest, changed, history, calls, faults>>

\* write, step by step: MkdirAll, WriteFile of the .tmp file, Rename
MkCollection(c) ==
  /\ At(c, "write", "mkdir")
  /\ dir' = TRUE
  /\ Goto(c, "truncate")
  /\ UNCHANGED <<uses, file, tmp, seq, mutex, op, key, value, list, rest, changed, history, calls, faults>>

TruncateTmp(c) ==
  /\ At(c, "write", "truncate")
  /\ tmp' = [tmp EXCEPT ![key[c]] = Torn]
  /\ Goto(c, "fill")
  /\ UNCHANGED <<uses, dir, file, seq, mutex, op, key, value, list, rest, changed, history, calls, faults>>

FillTmp(c) ==
  /\ At(c, "write", "fill")
  /\ tmp' = [tmp EXCEPT ![key[c]] = value[c]]
  /\ Goto(c, "rename")
  /\ UNCHANGED <<uses, dir, file, seq, mutex, op, key, value, list, rest, changed, history, calls, faults>>

Rename(c) ==
  /\ At(c, "write", "rename")
  /\ file' = [file EXCEPT ![key[c]] = tmp[key[c]]]
  /\ tmp' = [tmp EXCEPT ![key[c]] = None]
  /\ Changes({key[c]})
  /\ Goto(c, "unlock")
  /\ UNCHANGED <<uses, dir, seq, mutex, op, key, value, list, rest, history, calls, faults>>

\* a step fails: the .tmp file stays as it is
WriteFails(c) ==
  /\ op[c] = "write" /\ pc[c] \in {"mkdir", "truncate", "fill", "rename"}
  /\ Fault
  /\ Goto(c, "fail")
  /\ UNCHANGED <<files, mutex, op, key, value, list, rest, changed, history, calls>>

\* Delete of a record, or of the collection (None): an error if stat finds nothing
Stat(c) ==
  /\ At(c, "delete", "stat")
  /\ Goto(c, IF (IF key[c] = None THEN dir ELSE file[key[c]] # None) THEN "remove" ELSE "fail")
  /\ UNCHANGED <<files, mutex, op, key, value, list, rest, changed, history, calls, faults>>

\* os.RemoveAll of the .json file, or of one file after the other and the directory
RemoveFile(c) ==
  /\ At(c, "delete", "remove")
  /\ \E k \in IF key[c] = None THEN Records ELSE {key[c]} :
       \/ /\ file[k] # None
          /\ file' = [file EXCEPT ![k] = None] /\ UNCHANGED tmp
       \/ /\ key[c] = None /\ tmp[k] # None
          /\ tmp' = [tmp EXCEPT ![k] = None] /\ UNCHANGED file
  /\ Changes(IF key[c] = None THEN Records ELSE {key[c]})
  /\ UNCHANGED <<uses, dir, seq, mutex, pc, op, key, value, list, rest, history, calls, faults>>

RemoveDone(c) ==
  /\ At(c, "delete", "remove")
  /\ IF key[c] = None
     THEN (\A k \in Records : file[k] = None /\ tmp[k] = None) /\ dir' = FALSE
     ELSE file[key[c]] = None /\ UNCHANGED dir
  /\ Goto(c, "unlock")
  /\ UNCHANGED <<uses, file, tmp, seq, mutex, op, key, value, list, rest, changed, history, calls, faults>>

\* stat fails, or RemoveAll after some of the files: the error is returned, and
\* what is left stays
DeleteFails(c) ==
  /\ At(c, "delete", "stat") \/ At(c, "delete", "remove")
  /\ Fault
  /\ Goto(c, "fail")
  /\ UNCHANGED <<files, mutex, op, key, value, list, rest, changed, history, calls>>

\* Mutant: the mutex is not unlocked by a defer.
UnlockCollectionOk(c) ==
  /\ op[c] \in {"write", "delete"} /\ pc[c] \in {"unlock", "fail"}
  /\ IF pc[c] = "unlock" THEN Unlock("collection") ELSE UNCHANGED mutex
  /\ Goto(c, IF pc[c] = "unlock" THEN "ok" ELSE "error")
  /\ UNCHANGED <<files, op, key, value, list, rest, changed, history, calls, faults>>
\* the deferred Unlock
UnlockCollection(c) ==
  /\ op[c] \in {"write", "delete"} /\ pc[c] \in {"unlock", "fail"}
  /\ Unlock("collection")
  /\ Goto(c, IF pc[c] = "unlock" THEN "ok" ELSE "error")
  /\ UNCHANGED <<files, op, key, value, list, rest, changed, history, calls, faults>>

\* Read takes no mutex; that there is no such record is an error of its own
Read(c) ==
  /\ At(c, "read", "called")
  /\ value' = [value EXCEPT ![c] = file[key[c]]]
  /\ Goto(c, IF file[key[c]] = None THEN "missing" ELSE "ok")
  /\ UNCHANGED <<files, mutex, op, key, list, rest, changed, history, calls, faults>>

\* ReadAll neither: ReadDir gives every file, .tmp files included
ReadDir(c) ==
  /\ At(c, "readall", "called")
  /\ LET names == {<<k, FALSE>> : k \in {r \in Records : file[r] # None}}
                  \cup {<<k, TRUE>> : k \in {r \in Records : tmp[r] # None}}
     IN rest' = [rest EXCEPT ![c] = SetToSeq(names)]
  /\ Goto(c, IF dir THEN "reading" ELSE "missing")
  /\ UNCHANGED <<files, mutex, op, key, value, list, changed, history, calls, faults>>

\* Mutant: readAll stops at a file that is being written, with what it has.
ReadNextStops(c) ==
  /\ At(c, "readall", "reading")
  /\ IF rest[c] = <<>>
     THEN Goto(c, "ok") /\ UNCHANGED <<list, rest>>
     ELSE LET name == Head(rest[c])
              b    == IF name[2] THEN tmp[name[1]] ELSE file[name[1]]
          IN /\ rest' = [rest EXCEPT ![c] = Tail(@)]
             /\ IF b = None THEN Goto(c, "missing") ELSE IF b = Torn THEN Goto(c, "ok") ELSE UNCHANGED pc
             /\ list' = [list EXCEPT ![c] = IF b = None THEN {} ELSE @ \cup {<<name, b>>}]
  /\ UNCHANGED <<files, mutex, op, key, value, changed, history, calls, faults>>
\* readAll stops at a file that is gone; what is torn it returns as it is
ReadNext(c) ==
  /\ At(c, "readall", "reading")
  /\ IF rest[c] = <<>>
     THEN Goto(c, "ok") /\ UNCHANGED <<list, rest>>
     ELSE LET name == Head(rest[c])
              b    == IF name[2] THEN tmp[name[1]] ELSE file[name[1]]
          IN /\ rest' = [rest EXCEPT ![c] = Tail(@)]
             /\ IF b = None THEN Goto(c, "missing") ELSE UNCHANGED pc
             /\ list' = [list EXCEPT ![c] = IF b = None THEN {} ELSE @ \cup {<<name, b>>}]
  /\ UNCHANGED <<files, mutex, op, key, value, changed, history, calls, faults>>

\* a file, or the directory, is there and cannot be read
ReadFails(c) ==
  /\ At(c, "read", "called") \/ At(c, "readall", "called") \/ At(c, "readall", "reading")
  /\ Fault
  /\ list' = [list EXCEPT ![c] = {}]
  /\ Goto(c, "error")
  /\ UNCHANGED <<files, mutex, op, key, value, rest, changed, history, calls>>

-----------------------------------------------------------------------------
(* The persistent cache of cachz.                                          *)

LockCache(c) ==
  /\ op[c] \in {"store", "load"} /\ pc[c] = "called"
  /\ Lock("cache", c)
  /\ Goto(c, IF op[c] = "store" THEN "mkdir" ELSE "reading")
  /\ UNCHANGED <<files, op, key, value, list, rest, changed, history, calls, faults>>

TruncateEntry(c) ==
  /\ At(c, "store", "mkdir")
  /\ file' = [file EXCEPT ![key[c]] = Torn]
  /\ Goto(c, "fill")
  /\ UNCHANGED <<uses, dir, tmp, seq, mutex, op, key, value, list, rest, changed, history, calls, faults>>

FillEntry(c) ==
  /\ At(c, "store", "fill")
  /\ file' = [file EXCEPT ![key[c]] = value[c]]
  /\ Goto(c, "unlock")
  /\ UNCHANGED <<uses, dir, tmp, seq, mutex, op, key, value, list, rest, changed, history, calls, faults>>

\* MkdirAll fails: Store returns with the mutex locked
MkdirFails(c) ==
  /\ At(c, "store", "mkdir")
  /\ Fault
  /\ Goto(c, "error")
  /\ UNCHANGED <<files, mutex, op, key, value, list, rest, changed, history, calls>>

\* the file cannot be opened, or not filled
StoreFails(c) ==
  /\ At(c, "store", "mkdir") \/ At(c, "store", "fill")
  /\ Fault
  /\ Goto(c, "fail")
  /\ UNCHANGED <<files, mutex, op, key, value, list, rest, changed, history, calls>>

Load(c) ==
  /\ At(c, "load", "reading")
  /\ value' = [value EXCEPT ![c] = file[key[c]]]
  /\ Goto(c, "unlock")
  /\ UNCHANGED <<files, mutex, op, key, list, rest, changed, history, calls, faults>>

LoadFails(c) ==
  /\ At(c, "load", "reading")
  /\ Fault
  /\ Goto(c, "fail")
  /\ UNCHANGED <<files, mutex, op, key, value, list, rest, changed, history, calls>>

UnlockCache(c) ==
  /\ op[c] \in {"store", "load"} /\ pc[c] \in {"unlock", "fail"}
  /\ Unlock("cache")
  /\ Goto(c, IF pc[c] = "unlock" THEN "ok" ELSE "error")
  /\ UNCHANGED <<files, op, key, value, list, rest, changed, history, calls, faults>>

-----------------------------------------------------------------------------
(* The sequence.                                                           *)

\* Mutant: the file is opened to append.
OverwriteAppends(old, new) == old \o new
\* WriteAt(b, 0): what was longer keeps its end
Overwrite(old, new) ==
  new \o SubSeq(old, Len(new) + 1, Len(old))

\* IncrementSeq reads the file, and writes to it without a lock.
ReadToIncrement(c) ==
  /\ At(c, "increment", "called")
  /\ value' = [value EXCEPT ![c] = (Atoi(seq) + 1) % Modulus]
  /\ Goto(c, "writing")
  /\ UNCHANGED <<files, mutex, op, key, list, rest, changed, history, calls, faults>>

Increment(c) ==
  /\ At(c, "increment", "writing")
  /\ seq' = Overwrite(seq, Digits[value[c]])
  /\ issued' = Append(issued, value[c])
  /\ Goto(c, "ok")
  /\ UNCHANGED <<uses, dir, file, tmp, mutex, op, key, value, list, rest, changed, overlapped, calls, faults>>

-----------------------------------------------------------------------------
Crash ==
  /\ Fault
  /\ mutex' = [l \in Locks |-> None]
  /\ pc' = [c \in Clients |-> "idle"]
  /\ op' = [c \in Clients |-> None]
  /\ key' = [c \in Clients |-> None]
  /\ value' = [c \in Clients |-> None]
  /\ list' = [c \in Clients |-> {}]
  /\ rest' = [c \in Clients |-> <<>>]
  /\ changed' = [c \in Clients |-> {}]
  /\ UNCHANGED <<files, history, calls>>

Calls(c) ==
  \/ uses = "scribble" /\ \E k \in Records : Call(c, "write", k) \/ Call(c, "delete", k) \/ Call(c, "read", k)
  \/ uses = "scribble" /\ (Call(c, "delete", None) \/ Call(c, "readall", None))
  \/ uses = "cachz" /\ \E k \in Entries : Call(c, "store", k) \/ Call(c, "load", k)
  \/ uses = "seq" /\ Call(c, "increment", None)

Step(c) ==
  \/ LockCollection(c) \/ MkCollection(c) \/ TruncateTmp(c) \/ FillTmp(c) \/ Rename(c)
  \/ Stat(c) \/ RemoveFile(c) \/ RemoveDone(c) \/ UnlockCollection(c)
  \/ Read(c) \/ ReadDir(c) \/ ReadNext(c)
  \/ LockCache(c) \/ TruncateEntry(c) \/ FillEntry(c) \/ Load(c) \/ UnlockCache(c)
  \/ ReadToIncrement(c) \/ Increment(c)
  \/ Return(c)

Fails(c) ==
  \/ WriteFails(c) \/ DeleteFails(c) \/ ReadFails(c)
  \/ MkdirFails(c) \/ StoreFails(c) \/ LoadFails(c)

Next == Crash \/ \E c \in Clients : Calls(c) \/ Step(c) \/ Fails(c)

Spec == Init /\ [][Next]_vars

\* as long as a client can go on, one does
FairSpec == Spec /\ WF_vars(\E c \in Clients : Step(c))

-----------------------------------------------------------------------------
(* Properties.                                                             *)

\* The records and the entries, and the calls on them, as RecordStore has them.
AbstractCall(c) ==
  LET none == [op |-> "none", keys |-> {}, value |-> None] IN
  CASE op[c] \in {"write", "store"} -> [op |-> "write", keys |-> {key[c]}, value |-> value[c]]
    [] op[c] = "delete" -> [op |-> "delete", keys |-> IF key[c] = None THEN Records ELSE {key[c]}, value |-> None]
    [] op[c] \in {"read", "load"} -> [op |-> "read", keys |-> {key[c]}, value |-> None]
    [] OTHER -> none

AbstractOutcome(c) ==
  IF op[c] \notin {"write", "store", "delete", "read", "load"} THEN "none"
  ELSE CASE pc[c] \in {"unlock", "ok", "missing"} -> "ok"
         [] pc[c] \in {"fail", "error"}           -> "error"
         [] op[c] = "store" /\ pc[c] = "fill"     -> "begun"
         [] OTHER                                 -> "pending"

AbstractResult(c) == IF op[c] \in {"read", "load"} THEN value[c] ELSE None

Store == INSTANCE RecordStore WITH
  Atomic  <- Records,
  Values  <- 1 .. MaxCalls,
  record  <- file,
  call    <- [c \in Clients |-> AbstractCall(c)],
  outcome <- [c \in Clients |-> AbstractOutcome(c)],
  result  <- [c \in Clients |-> AbstractResult(c)]

\* scribble and the cache implement RecordStore: whatever the interleaving, a
\* failed step or a crash, a record is never seen half written, a write that
\* returned is what the next read finds, a delete that succeeded has left none of
\* its records, and the entry of a cache is torn only after a Store that was cut
\* short.
ImplementsRecords == Store!Spec

\* What a ReadAll returns during which no record is written or deleted: all the
\* records, each once, and besides them only the contents of .tmp files, of
\* Writes that were cut short or are not done, which the caller cannot tell from
\* records.  It misses a file only if there is no record.
ReadAllStable ==
  \A c \in Clients : op[c] = "readall" /\ changed[c] = {} =>
    LET records   == {<<<<k, FALSE>>, file[k]>> : k \in {r \in Records : file[r] # None}}
        leftovers == {<<k, TRUE>> : k \in {r \in Records : tmp[r] # None}}
    IN /\ pc[c] = "ok" => records \subseteq list[c] /\ {x[1] : x \in list[c] \ records} \subseteq leftovers
       /\ pc[c] = "missing" => records = {}

\* IncrementSeq returns one number more each time, across the crashes of its
\* callers and numbers of more digits, as long as no two calls overlap and until
\* the sequence wraps.
SeqIncreases ==
  ~overlapped => \A i \in 1 .. Len(issued) - 1 : 0 \notin ToSet(issued) => issued[i] < issued[i + 1]

\* Store left its mutex locked when it could not make its directory
leaked ==
  \E c \in Clients : mutex["cache"] = c /\ pc[c] \in {"idle", "called", "error"}

\* Every call returns: no path of Write, Delete, Store or Load keeps its mutex
\* locked, but that of a Store that cannot make its directory.
CallsReturn == \A c \in Clients : (pc[c] # "idle") ~> (pc[c] = "idle" \/ leaked)
=============================================================================
