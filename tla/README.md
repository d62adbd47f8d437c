# Verification of utilz

TLA+ models of `github.com/mxbossard/utilz`, a Go library of small packages, the
TLC configurations that check them, and TLAPS proofs. The models follow the
source under `src/`; the file `PROJECT.json` maps each definition to the lines
it stands for.

To check a model: `tlc -config ZSession_chunks.cfg MCZSession`. To check the
proofs of a module: `tlapm ZSession_proofs.tla`.

## 1. The system

| component | state | operations | what is hard | what makes it correct |
|---|---|---|---|---|
| **zcreen session** (`zcreen/session.go`) | printers by priority, one buffer, tmp file and cursor each; the session tmp file; the current priority; Started, Ended, Timeouted; the `.ser` file | Printer, ClosePrinter, NotifyPrinter, Start, End, Flush, clear, the timer goroutine | printing goroutines, flush loops, End, the timer and Sink.Close run at once; much is read outside of the mutex | outputs consolidated once each, by priority, nothing lost at the end; the end is announced |
| **zcreen sink** (`screen`, `zcreen/screen.go`) | sessions by name, the notifier, lock files | Session, NotifyPrinter, FlushBlocking, FlushAllBlocking, Close, Resync | crash and restart; sessions cleared by another process | sessions taken back by a restart |
| **zcreen tailer** (`screenTailer`, `zcreen/screen.go`) | sessions as last scanned, with the tmp file being read and a cursor; the elected session; the queue of blocking sessions | TailOnlyBlocking, TailBlocking, TailSuppliedBlocking, TailAllBlocking, ClearSession, Clear | polls files another process writes, renames and restarts; timeouts | every session output once, in order, not mixed with another |
| **printers** (`printz`) | buffer, closed, last print | Out, Err, Flush, Close | printed to by several goroutines | nothing lost before a flush |
| **queue** (`collectionz/queue.go`) | ring of slots, front, back, length | PushFront/Back, PopFront/Back, Front, Back, Clear | wrap, growth and shrink at every offset | a double-ended queue |
| **collections** (`collectionz`) | none | helpers on slices and maps | aliasing of the slice of the caller | – |
| **synchronized database** (`zql`, `zqlite`) | file lock handle, session lock, open | Open, Close, Lock, Unlock, Exec, Query, Begin, Commit, Rollback | goroutines and processes share the file; retries; errors on the way | one user at a time; the lock is given back; no update lost |
| **commands** (`cmdz`) | configuration, streams, exit codes, checkpoints | BlockRun, AsyncRun, serial, or and parallel sequences, pipes, feeders, outputters | retries, early returns, timeouts, streams that others have replaced | success means success; a sink gets what its feeder printed |
| **pool** (`poolz`) | available objects, how many are in use | Open, PoolClose, the cleaner goroutine | counters updated outside of the mutex | an object used by one; a bounded number of them |
| **promises and goroutines** (`promiz`, `concurrenz`, `errorz`) | value, error; channels | Then, Catch, Await, All, Race, Best; Run, RunWaiting | a context that ends while promises settle, each awaited twice | what a combinator says is what happened; it settles |
| **document store** (`scribble`) | files, a mutex per collection | Write, Read, ReadAll, Delete | a crash between write and rename; readers without lock | a record is whole, old or new |
| **persistent cache** (`cachz`) | files, a mutex | Load, Store | an entry written in place; an error path that keeps the mutex | what is stored is what is loaded |
| **files** (`filez`) | files | CopyChunk, IncrementSeq, … | read-modify-write without a lock | a number given once |
| **structures** (`ztruct`) | a tree, operations | add, default, remove, replace, move, copy, test, resolve | lists shared between trees; an operation that fails after others | a patch does what it says and nothing else |
| **readers and writers** (`inoutz`) | a part of a line per processer | Process, Write, Read | lines across chunks, short reads, two writers | lines whole, once, in order |
| `utilz`, `ctnrz`, `zlog`, `anzi`, `formatz`, `ztring`, `truzt`, `serializ`, `tezt`, `timez`, `ptrz`, `logz_toDel` | almost none | file lock, formatting, logging, wrappers | – | – |

How they interact: printing goroutines write to **printers**; a **session**
copies what its printers flushed from their tmp files to its own, under the
priorities; the **sink** runs `Flush` in a loop for each session; the **tailer**,
usually another process, learns of sessions from their `.ser` files, which
`Start` and `End` write, and copies their tmp files to its outputs. The tailer
keeps the sessions to elect first in a **queue**. `zqlite` opens the databases of
`zql`; the parallel sequences of `cmdz` collect promises of `promiz` with `All`.
Everywhere else packages call each other directly, without shared state.

The hazards, each at its line, are in `PROJECT.json`. zcreen is the core: it has
most of the state, all kinds of interleavings, and a restart story.

## 2. Modules

| module | models | abstract specification |
|---|---|---|
| `ZSession`, `MCZSession`, `ZSession_proofs` | a session and the goroutines around it | – (invariants) |
| `ZTailer`, `MCZTailer`, `ZTailer_proofs` | a tailer over the files of a sink that may crash, restart and resync | – (invariants) |
| `RingQueue` | the ring of `collectionz.Queue` | `Deque` |
| `SyncDB`, `MCSyncDB`, `SyncDB_proofs` | goroutines and processes on a synchronized database | `FileMutex` |
| `Command`, `MCCommand`, `Command_proofs` | a tree of commands, sequences and pipes | – (invariants) |
| `FileStore`, `MCFileStore`, `FileStore_proofs` | the document store, the cache and the sequence number | `RecordStore` |
| `Pool` | the pool and its users | – (invariants) |
| `Promise` | the combinators of promises, and RunWaiting | – (invariants) |
| `Async_proofs` | the proofs about `Pool` and `Promise` | |
| `Patcher` | the patches of a tree | the same patches on plain values |
| `LineStreams` | line processers between writers and readers | the lines of the input, rewritten |
| `Data_proofs` | the proofs about `RingQueue`, `Patcher` and `LineStreams` | |

`Recursion` has what the proofs need of recursive definitions, and models nothing.
`MCAsync` instantiates `Pool` and `Promise` in one run, and `MCData` extends `Patcher` and
`LineStreams`: a behaviour is of one of the two, chosen in the initial state.

### ZSession

One action is one step of a goroutine between two points where another one can
change what it reads. `FlushLock` begins with the lock and `nextPriority`;
`FlushTarget`, `Copy` and `Mark` are the three parts of `consolidatePrinter`
(flush the printer, `CopyChunk`, move the cursor and close); `Advance` is the
rest of the loop of `consolidateAll`, including the `nextPriority` that follows a
priority whose printers are all closed. `End`, `ClosePrinters`, `ClosedPrinters`,
`Notify`, `SetEnded` and `Serialize` are `End` and `close`; the timer goroutine
calls the same ones. `index` is the position in the loop over the printers of the
priority; 0 stands for the notifier, which `close` consolidates without the lock.

| source | model |
|---|---|
| `printersByPriority`, `currentPriority`, `printed`, `mutex` | the same |
| `printer.open`, `printer.consolidated`, `ClosingPrinter.closed` | `open`, `consolidated`, `closed` |
| what was printed / is in the tmp file / `cursorOut` | `chunks`, `written`, `cursor`, counted in messages |
| the session tmp file | `tmpOut`, a sequence of numbered messages |
| `Ended` in the `.ser` file | `serEnded` |
| – | `promised`, a history variable: what was printed when the printer was closed by name |

A message is a chunk with a printer and a number. `LastPrint().IsZero()` is
`chunks = 0`. Prints take the mutex of the printer only, so they interleave with
everything. `Orderly` says whether the printing goroutines are done when End is
called: `EndLosesNothing` is about such users, the runs `chunks` and `live` do
without it.
`Err` goes through a second copy of the same machinery and is not modelled.

### ZTailer

The sink is the environment: `Build`, `Start`, `Write`, `End`, `Serialize`,
`Crash`, `Resync`, `Notify`. A session has one tmp file per run (`buildSession` makes a new
one); `files` counts the chunks of each and `removed` how many of them a clear has
removed. `Serialize` is apart from `Start` and `End`, so the `.ser` file lags
behind and a crash may come in between. `ResyncScan` and `Resync` are the two
halves of `screen.Resync`: what sessions do in between is overwritten by what was
scanned, and the sessions whose `.ser` file is gone are dropped. `screen.Session`
waits for the mutex that Resync holds.

The tailer is one goroutine; each action is what it does between two reads of the
shared files. `view[s]` is its struct of the session: `file` is `tmpOutName`,
`open` whether `tmpOut` is open. `ret` is the place a scan returns to.
`tailNotifications` copies the notices between two sessions. `clear` is what
`clearSession` does to one session: its files, its `.ser` file, and then the error
of a session that is not known or not ended. A session that is scanned without tmp
files has `file = 0`: to copy it is a nil dereference, and the process of the tailer
is gone (`panicked`). `TailOnlyBlocking` and `TailBlocking` test what they found
before their second scan (`TestEnded`); what only that scan found is tailed first,
unless TailOnlyBlocking found nothing (`TestFound`). `ordered` is a history variable: the
sessions that TailBlocking and TailAllBlocking output, one entry per copy. The
queue of blocking sessions is a sequence, which `RingQueue` is proved to
implement. Sessions of one scan come in any order; in the code it is the order of
their names. A timeout may happen at the head of any loop, as `time.Since` decides.

### RingQueue and Deque

A queue is a record with the fields of the struct, an action is one exported
call, and `result` is what it returns. `Deque` is the promise: a sequence.
`Contents` walks the ring as `String` does and is the refinement mapping.
`PowerOfTwo` says that the size has no odd factor but 1, which needs no powers.

### SyncDB and FileMutex

Goroutines have a handle (`SynchronizedDB`) each, in processes that may die, or
share one. A call is `Call`, then `lock` (`TryLock`, `SetLocked`, or `TimeOut`),
one action for its body, then `unlock` (`TestLocked`, `Release`, `ClearLocked`): the
fields of the handle are read and written between any two steps of others. A flock
object is named by the goroutine that made it. The database is a number that every
write increments; `increments` is a history variable, how many writes were done for
good. `OpenCloseSync` is the option of zqlite to open and close the `sql.DB` around
every call; the other one, to retry a statement, is part of `Fails`, `processError`
with a statement that fails or stays busy for good. What a call answers is not
modelled. `leaked` names who kept the lock on an error path, of which there are four:
`open` fails in `lock` after the file was locked, which returns the error before any
unlock is deferred (`SetLocked`); Begin fails; Close fails in `unlock`, or the unlock of the
file itself does (`Release`), which leaves `fileLock` set for a later call. `MayCall` says what callers do: rows are read before the next call,
a transaction is used alone and ended, a session is unlocked by who locked it.
`FileMutex` is the promise: between a lock that succeeds and the unlock of a call,
a session or a transaction nobody else is inside.

### Command

A node of the tree `prog` is a command with an optional feeder, a sequence, a pipe
or an outputter; `pc` is where its BlockRun is, `res` what it returned. `Feed`,
`CutShort`, `Fed`, `Start`, `Attempt`, `Abort` and `Restored` are the parts of
`cmdz.BlockRun`: run the feeder with its output replaced, return early when that
fails, then the attempts, with `rollback` between them, then the streams put back.
`SerialRun`, `OrRun` and `ParallelRun` call their kids, `SerialNext`, `OrNext` and
`Resolved` or `Rejected` fold their codes; a parallel sequence is `All` of its
kids, with failFast or without. The buffer that a pipe makes is named by its node, and
`content` lists who wrote to it: this is what tells a lost output from one fed
twice. Commands of a parallel sequence write to one `bytes.Buffer`, each from the copy
goroutine of its own `exec.Cmd`, without a lock: `Piped` lets them lose what they write
or what is there (`Races`). A pipe embeds the executer of its sink, whose `AsyncRun` and
`ErrorOnFailure` it has: a parallel sequence or an outputter runs the sink alone, without
feeder, pipefail or streams (`Inner`, `SinkRun`). `pipedInput` and `pipedOutput` are never
reset, and a command that was fed does not let its input be set: a pipe whose sink
reaches one ends the process by `log.Fatal`, before it runs or when it puts the
input back (`Fatal`, `Exit`). A command may have streams of its caller's (`Own`), which a
sequence under a pipe puts back wrong, all of them to those of its last. `Heirs` says which nodes a setter or a reset of a node goes on to, `Reached`
where it ends; `Succeeded` and `ExitCode` fold the exit codes of a tree, the second
as the code does it. `used` and `checkpoint` say whether an `exec.Cmd` was started, which it
can be once.

### FileStore and RecordStore

A write of a file is two steps, truncate and fill, a rename one. `TruncateTmp`,
`FillTmp` and `Rename` are `scribble.write`, `TruncateEntry` and `FillEntry` the
`os.WriteFile` of the cache, `ReadToIncrement`, `Overwrite` the two of `IncrementSeq`.
Any step may fail, a delete after some of its files, and the process may crash and lose
its mutexes. `missing` is the error that says that there is no such file, which the
generic wrappers take for an empty collection. Numbers are
written digit by digit, as `WriteAt` without truncation leaves the rest of a longer
one. `RecordStore` is the promise: a write of a record happens at one moment or not
at all; a delete that succeeds has left none of its records, one that fails may have
deleted some; an entry of the cache may be torn, by a Store that was cut short, until the
next one.

### Pool

One action per read or write of a field, since `onClose` runs without the mutex: the two
tests of Open, of `available` (`Try`) and of `inUse` (`TestInUse`), are two of them. A close
between them puts an object into `available` and counts it back, and Open, which saw
none, makes another one: with three users and maxOpen 1 there are three objects, and no
race. `overshot` is a history variable, TRUE once that has happened.
`raced` is a history variable: TRUE once a field was written between a read and a
write of it by another goroutine; that is when the counters of the code are wrong,
and the properties say what holds until then. Times are left out: an available
object is old, or not, as TLC chooses.

### Promise

Two goroutines per promise, of `Then` and `Catch`, send to two channels, and the
combinator receives from either as select does. `Await` takes any ready branch of
its select: with a context that is done, Then may see its end and Catch a value.
`RunWaiting` is the same with one goroutine per input and a wait for all of them.

### Patcher

Maps are cloned before a change (`CloneMap`), so their values stand for
themselves; lists are Go slices, an array of the heap with a length, and
`AppendTo` is `reflect.Append`, in place when the array has room. The operations are applied to
the tree and, at the same time, to a plain value (`expected`) that shares
nothing.

A tree is a function of the paths of its members, each in a map of the tree
(`IsTree`). A list is a slice of scalars and has the Go kind of its elements; add demands
the same kind of what it appends (`Accepts`). That of a `[]any`, as every list decoded
from YAML or JSON is, is Interface, which `reflect.Value.Kind` never answers: nothing can
be added to it. A test sees nil members (`DeepEqual`), all other operations take them for
absent. Of what is given, the module assumes that the operations are those of
patcher.go (`OperationsAssumption`), that no value has the kind of a `[]any`'s elements
(`KindAssumption`) and that trees and values are trees over the heap
(`BasesAssumption`); not that their lists are full. An `[]int` that was appended to
may have room, and append then writes into an array that others see. Hence the conditions of the properties: `TightValues` and `Tight`, no list of a
value, or of the given tree either, has room; `OwnArrays`, a list of the given tree
that has room shares its array with no other; `shallow`, a copy of a map with lists
in it has shared them (`cloneLeaf`).

### LineStreams

Texts are sequences of bytes; a processer keeps the part of a line in `pend`. In
mode `write` two goroutines are at some processer of the chain each, with the text
they carry; in modes `read` and `readall` one reads with slices of any size from a
source that may return less than asked for, fail, or end with io.EOF after its last
bytes or along with them. `BytesAssumption` gives texts, marks and
sizes their types and asks that no callback puts the end of a line into a line: the
code would take it for one more line. `Split` is a recursive function over the bytes.

`Process` leaves its output in the slice it is given, as far as its capacity goes
(`Overwrite`): the array of the caller. Marks make lines longer, so the bytes behind the
slice are written over, and a caller that writes a text in consecutive pieces of one
array (`WriteOn`) passes on what an earlier Write has left there: "ab\ncd\n" in two pieces,
with mark X, comes out as "Xab", "d", not "Xab", "Xcd". `caller` has the bytes behind
the slice, as they are and as they were meant, and `clobbered` says that a Write was given
others than were meant. Left out: a Read writes into its caller's array in the same way,
and the pieces of one array are of one goroutine.

A stream reader answers io.EOF whenever no line is whole (reader.go:131), which
`io.ReadAll` takes for the end: `eof` records the answer, and the model's caller may read on.
Bytes that come with io.EOF are dropped by both readers (`ReadLast`, `TakesWhole`, `dropped`);
a buffer reader whose source fails returns the error without what it has read, or takes a
failure without bytes for the end (`ReadBroken`, `broken`).

## 3. Runs

| run | question | bounds | result |
|---|---|---|---|
| `chunks` | is each chunk consolidated once, in order, and before its printer is closed for good? | 1 printer of 2 chunks and 1 notification, a flusher, End and Sink.Close, printing at any time | holds |
| `order` | is the output of a priority ever cut by another, does End lose anything? | 3 printers of 2 priorities, one of the two that share a priority silent, 1 chunk for the others; a flusher, End and Sink.Close | holds |
| `live` | is a priority released when its printers are closed, does every End return, against the timer too? | 1 printer of 1 chunk; a flusher, End and the timer | holds, under fairness |
| `tail_order` | is a session tailed once, in order, over a crash, a restart, a resync and a clear; does a call return once the session has ended? | 1 session, 2 runs with 2 chunks over both, 1 resync, 2 calls that tail or clear | holds, the last under fairness; a call on a session whose files are removed panics |
| `tail_elect` | is a session cut by another one or by a notice, is everything tailed when the call says so, does a call return? | 2 sessions of 2 priorities, 1 run of 1 chunk each, any 2 of the calls that tail, or 1 of them and a notice; no crash | holds, the last under fairness |
| `queue` | is the ring a deque? | 2 values, length up to 9 (slices of 1 to 16, and back) | holds |
| `db` | is one goroutine inside at a time, is the lock given back, is an update lost, does a call return? | 2 processes with a handle each, one that closes its `sql.DB` after every call and one that does not; 7 calls, 1 error or crash | holds, the last under fairness |
| `db_shared` | is the lock given back when goroutines share a handle? | 2 goroutines, 1 handle, 7 calls, no error | **violated** |
| `cmd` | is success success, does a sink get all of its feeder, is anything left replaced or running, does BlockRun return? | 19 programs of up to 3 commands, with an empty sequence, a pipe that has to succeed, pipes under a parallel and an outputter, a pipe into a command that is fed, and streams of the caller's, run twice, amended once; any exit codes | holds, the last under fairness; a pipe into a command that is fed may exit the process |
| `store` | is a record whole, is a delete that succeeds done, does ReadAll give every record, is a number given twice, does a call return? | 2 clients, 2 records or 1 entry or a number from 8 modulo 12, 3 calls, 1 failed step or crash | holds, the last under fairness |
| `async` | has an object one user, is the pool bounded, does Open return; is a combinator truthful, does it settle? | 3 users, maxOpen 1, 3 calls of Open; 3 promises and a context | holds, the liveness under fairness |
| `data` | is a patch the same as on values that share nothing, do results stay; are lines whole and in order? | 3 of 19 operations, 2 results, an `[]int` or `[]any` with and without room, scalars of two kinds; 2 writers of 3 pieces, two of which may be of one array, 1 failed callback, slices of 1 to 4 bytes | holds |

Why the bounds are enough.

- `chunks`, `order`, `live`: a session works on one printer at a time and compares
  priorities two by two. Two priorities, one of them shared by two printers, and a
  printer that prints before and after a flush have every case of the loop.
  `chunks` has three goroutines that flush at once, two of which take the notifier
  without the lock. More goroutines add no action.
- `tail_order`, `tail_elect`: one chunk tells tailed from not tailed, two show a cut
  in a file or a file left too early; one restart is the case the code handles (two
  are not, see below). Two calls show what the first leaves in the tailer.
  `tail_elect` has no crash: without a restart, it only stops the sink where it is.
- `queue`: nine values pass each size from 1 to 16 slots, wrap at every offset and
  shrink from 16 to 8.
- `db`: seven calls allow Open, a transaction of two steps on one side and a
  session of two steps on the other, in every interleaving, with Close and Open
  between them. Mutual exclusion for more goroutines is proved.
- `cmd`: three commands are what a fold of exit codes, a pipe of a pipe, and a
  sequence in a sequence need; two runs show what the first one leaves behind.
- `store`: from 8 modulo 12, three increments write one digit over one and two over
  one; a wrap, after which the property says nothing, takes a fourth. Two clients and one crash leave every half-done write to be met by someone.
- `async`: three users, of which two may have an object at once (the code lets the
  pool grow by one) and one waits. Three promises tell the first, the last and one
  in the middle. The third user's close between the two tests of an Open makes one
  object too many.
- `data`: the array of the list has room for one append, so that the third
  operation sees both kinds. One scalar is of another kind than the list's. Pieces hold a line, a part of one, or a part of two;
  slices are shorter and longer than lines. The two bytes that may follow a piece are
  written over by the mark of one line.

CHECK_DEADLOCK is FALSE in runs whose callers stop after a bounded number of calls.
A deadlock of the code shows as a liveness property violated, or in `db` as a
lock that has no owner. In `queue`, the sessions and the tailer the deadlock check is on
where there is always a next step.

### What the violation shows

`db_shared`: `unlock` releases the file and then sets `fileLock` to nil
(zql/syncronized.go:189, 194). A goroutine that shares the `SynchronizedDB` may lock
in between: its flock object is forgotten, its own `unlock` finds nil, and the file
stays locked by nobody. A test of zqlite runs fifty goroutines on one handle and
expects no error of any.

### What the properties leave out, because the code does not do it

Met while modelling; each is a line to read, not a run.

| where | what the code does | where it shows in the model |
|---|---|---|
| zcreen/session.go:401 | `nothingPrintedYet` of a priority becomes false as soon as one of its printers is closed, so a silent open one of the same number no longer holds back the next priority; its later output comes after | `PrioritiesNeverInterleave` is about cuts, not about which comes first |
| zcreen/session.go:252 | `End` writes the `.ser` file only while `Timeouted` is nil, which the timer may set before that End has written: tailers wait for an end that happened | `live` proves that End returns, not that it is announced |
| zcreen/screen.go:296, 351 | TailOnlyBlocking and TailBlocking scan again after tailing, and stop if the session ended meanwhile, without tailing what it wrote last | `EverythingTailed` is about the two other calls |
| zcreen/screen.go:696, 717 | a session that is updated to its next tmp file is not `tailed` any more, and `tailNext` (line 929) outputs notices before it goes on with it; zcreen/spec.go:122 says that notices come between sessions | the second tmp file, in `SessionsNeverInterleave` |
| zcreen/screen.go:133 | `Resync` writes back sessions as it scanned them before, an end of long ago included; and a session can be started again after its end, while tailers already leave it: what it writes then is not waited for | `Reopen` and `MaxResyncs` in `tail_elect`, `Steady` in the proofs |
| zcreen/screen.go:892 | moving to the tmp file of the next run resets `tailed`; a session that is ended has its files closed, does not look finished, and the next call reads a closed file | the error of `CopyChunk`, for which no property looks |
| zcreen/screen.go:572, filez/file.go:437 | a clear removes the tmp files of a session and leaves, or the sink writes again, its `.ser` file: CopyChunk of its nil file panics | `panicked`, in `CallsReturn` of the tailer |
| zcreen/session.go:496 | a tailer that scans between the new tmp file of a restarted session and its Start takes the empty file for the end, and leaves out what follows | `TailedInOrder` is about order and holes: a missing tail is none |
| zcreen/screen.go:889 | `hasNextBefore` is not reset after moving to a next file, so a second restart leaves the end of the middle file behind | MaxRuns is 2 |
| collectionz/queue.go:135 | `Front` and `Back` do not call `lazyInit`, and panic on the zero value | `QueueImplementsDeque` is about NewQueue |
| zql/syncronized.go:157, 341, 180, 190 | an error of `open` in `lock`, of Begin, and of Close or of the unlock of the file in `unlock` is returned with the file locked; others wait until their timeout | `leaked` in `LockHasOwner` |
| zql/syncronized.go:405 | a Commit that failed is retried, answers `ErrTxDone`, and this is not reported; nor is a second Commit | what a call answers is not modelled |
| scribble/scribble.go:195 | ReadAll returns the contents of `.tmp` files too, of a Write that was cut short or is not done, and its caller cannot tell them from records: the generic wrapper (generics.go:20) fails on one that is half written, and lists twice a record whose `.tmp` is whole | `ReadAllStable` says that besides the records these, and only these, may come |
| cachz/file.go:81 | Store returns with its mutex locked when it cannot make the directory | `CallsReturn` of `FileStore` excepts who waits for it |
| filez/seq.go:48 | two IncrementSeq that overlap give the same number, and a wrapped number leaves the digits of the longer one | `overlapped` in `SeqIncreases` |
| poolz/poolz.go:149 | `onClose` writes `available` and `inUse` without the mutex | `raced` in `OneUser` and `Bounded` |
| poolz/poolz.go:135 | Open tests `inUse <= maxOpen` before it counts: there is one object more than the maximum | `MaxOpen + 1` in `Bounded` |
| poolz/poolz.go:127, 135 | a close between the two tests of Open makes yet another object, up to one per user | `overshot` in `Bounded` |
| promiz/promise.go:100 | with a context that ends, Then and Catch of one promise may see different ends: a nil value, or a combinator that does not settle | the context in `Faithful` and `Settles` |
| ztruct/patcher.go:411 | add compares the kind of the elements of the list with that of the value: nothing can be added to a `[]any`, which every list decoded from YAML or JSON is | `Accepts`, in the patches and in the reference |
| ztruct/patcher.go:417 | an append in place is seen by the other trees that share the array | `Tight`, `TightValues`, `OwnArrays` and `shallow` |
| inoutz/process.go:99 | Process takes the whole slice for what was read, when the source returned less | `short` in `ReadInOrder` |
| inoutz/process.go:125, inoutz/writer.go:173 | the output of Process is left in the array of the slice that Write was given, beyond its end too | `clobbered` in `LinesWhole` |
| inoutz/writer.go:177 | two Writes at once may pass each other between two processers | `overlapped` in `LinesWhole` |
| inoutz/reader.go:131 | the stream reader answers io.EOF in the middle of its source when no line is whole: `io.ReadAll` stops there | `eof` counts in `ReadInOrder` for the buffer reader only |
| inoutz/reader.go:115, 161 | bytes that come with io.EOF are dropped; an error of the nested reader loses what a buffer reader had read, or is taken for the end | `dropped` and `broken` in `ReadInOrder` |
| cmdz/command.go:354 | BlockRun that cannot run its feeder returns with its streams replaced | `CutShort`, in `StreamsRestored` |
| cmdz/command.go:188, 348 | commands of a parallel feeder write to one buffer without a lock | `PipeCarriesAll` bounds what they write, and asks for all of it only of other feeders |
| cmdz/pipe.go:8, output.go:19 | a pipe in a parallel sequence, or under an outputter, runs its sink only | `Inner`, in `ZeroMeansSuccess` and `PipeCarriesAll` |
| cmdz/command.go:126 | a pipe into a command that has a feeder ends the process | `FeedsFed` in `RunReturns` |
| cmdz/sequence.go:95 | the streams a pipe puts back on a sequence are those of its last command, for all of them | `StreamsRestored` is about who has a stream left that is no caller's |

### Fairness

- `ZSession.FairSpec`: each goroutine that is inside a call runs on (weak fairness of
  its steps, the Go scheduler is preemptive), and strong fairness for taking the
  mutex, since `sync.Mutex` hands itself to a goroutine that has waited for a
  millisecond (starvation mode). Nobody has to print, close, start or end.
- `ZTailer.FairSpec`: weak fairness of the tailer's own steps. The sink has no
  obligation, and the timeout none either: calls are shown to return without it.
- `SyncDB.FairSpec`: each goroutine that is inside a call runs on; `lock` gives up
  after its timeout, and `TimeOut` is one of its steps. No call is obliged, so that a
  lock kept by an error may be kept for ever.
- `Pool`, in `MCAsync`: weak fairness of each user, and strong fairness of taking the
  mutex, as for the session. A user that waits in Open locks and unlocks in a loop:
  without the latter it could keep the others from closing. Users close what they have
  opened, which is what callers must do.
- `Command`, `FileStore` and `Promise`: as long as some
  goroutine can go on, one does (weak fairness of the union of their steps). That
  is less than the scheduler gives each of them, and enough since what they do is
  bounded: a process ends, a promise settles. A new call is never obliged.

## 4. Proofs

All theorems are about the specification of a module without fairness, for any values of the constants that satisfy the
assumptions of the module they are about: any number of goroutines, sessions,
promises, keys or calls. None needs the bounds of the runs, but where a session of
the tailer is restarted once at most. Where a theorem has a hypothesis it is named
below, with what happens without it.

Each proof has a lemma per action, or per group of actions, and conjunct it can
disturb. TLC checks on the instances of the runs what the theorems state.

### `ZSession_proofs`

For any printers, priorities, goroutines and bounds: `TypeOK`,
`PrioritiesNeverInterleave`, `ExactlyOnce`, `ClosedAfterConsolidation` and
`EndLosesNothing`. None is inductive. The invariant `IInv` adds:

- `LockInv`: whoever is in the loop of `consolidateAll` holds the mutex, and works
  on a printer of the current priority. Hence at most one goroutine is there, and
  `currentPriority` cannot change under it.
- `LoopInv`: the printers the loop has passed are done (closed and consolidated)
  unless one of them was open. This is why the priority is left only when nothing of
  it can be written again, even though printers are created and closed meanwhile.
- `LogInv`: what is in the session tmp file and may still write is of the current
  priority. With `LoopInv` it gives `PrioritiesNeverInterleave`.
- `TakenInv`: the session tmp file holds exactly the first `cursor` chunks of a
  printer, or `cursor + copied` between `Copy` and `Mark`. It gives `ExactlyOnce`.
- `CursorInv` and `CopyInv`: `cursor <= written <= chunks`, and what was promised is
  written before the copy and taken when the printer is marked closed.
- `ListInv`, `NotifierInv`: printers are listed under their priority, and no flush
  closes the notifier.

`EndLosesNothing` needs more, `EndInv`, about those who close the session, be it End,
the timer or Sink.Close (`FinishInv`). The first of them closes every printer; from
then on none is open. Its flush therefore meets only closed printers and never waits
at a priority; it leaves the loop when no priority is left, which is when
everything is taken. Who ends the session has left its own flush (`EndedInv`). That
goroutines which only flush hold the lock while they do (`FlusherInv`), and that
the last consolidation of a printer closes it (`DoneInv`), keep the others from
undoing this. A session has finitely many printers (`PrintersAssumption`), and who
only flushes does not close (`FlushersAssumption`).

### `ZTailer_proofs`

The sink is summed up by one fact of its steps, `FilesGrow`: tmp files are only
added, and chunks only to the last one. A step of the tailer is summed up by
`Moves`: a session stays where it is in its files, is left, is read anew, or moves
on by one file. `TailInv` (types and the existence of what is read: `SinkTypes`,
`TailTypes`, `PlaceInv`, `ViewInv`, `SerInv`) is proved for any sessions, calls and
bounds. On top of it:

- `TailedInOrder`, when a session has at most two runs, that is, over one restart of
  the sink: with two restarts it is false (zcreen/screen.go:889, above). `OrderInv`
  adds that nothing is output from beyond the cursor (`BehindInv`), everything before
  it is (`CopiedInv`), and a file that is about to be left has another one behind it and
  has been copied to its end since (`FrozenInv`). Only the last needs the two runs.
- `FlagInv`, which the next two rest on, says when the file of a session is closed: only
  once nothing is left of it (`flushed`), and in its first tmp file only after it was
  `tailed` (`ClosedInv`). A step is summed up by what it may do to the flags of a session
  (`Flags`).
- `SessionsNeverInterleave`, over all the calls of a tailer that clears nothing
  (`Clearing \cap Calls = {}`), whatever the sink does, restarts and resyncs included.
  `TurnInv` says that the session being tailed is the elected one until it is
  `flushed` (`ElectedInv`), and that every session in the output is `flushed`, or is the
  elected one (`OrderedInv`): so nothing can come back after another. A session that
  is cleared can be printed again under its name, as a new one.
- `EverythingTailed`, a property of steps, for `Steady` sinks and tailers: no session
  opened again after its end, no resync, one restart, no clear. TLC finds it violated
  when a session may be opened again, with one resync, and with two restarts; the
  clears are excluded since the proof goes through `TurnInv`. `EverythingInv` adds that
  a session that is `flushed` is ended in the sink too, and the tailer at the end of its
  last tmp file (`SteadyInv`, `LastInv`); that the file of an ended session is copied to
  its end before it is left (`EndReadInv`); that nothing is left of the names
  TailSuppliedBlocking has passed (`SuppliedInv`); and that TailAllBlocking elects none
  only if nothing is left of those that are started (`AllInv`). With `OrderInv`, to be
  at the end of the last file is to have output everything.

### `Data_proofs`

Of `RingQueue`: `TypeOK`, `PowerOfTwo`, `NotSparse` and, for a queue made by `NewQueue`, the refinement
`ImplementsDeque`: every call maps to the same call on the sequence of its contents.
The invariant is `Ring` (front, back and length agree, and exactly the slots in use are
not nil) and, for the size, `Sized`: it is a power of two, and above 8 at most four
times the length. Twice a number without odd factor has none; half of one, when it is
even, has none either. `inc` and `dec` are modelled by what the masks compute when the
size is a power of two.

Of `Patcher`, for any operations, trees and heaps that its assumptions allow, and any
number of patchers: `PatcherType`, `ResultsStay` and `MatchesReference`.

- `PatcherType`: every tree stays one, `Then` and `Else` included. It rests on what an
  operation does to the members of a tree (`PutInto`: those under the path are replaced by
  those of the value, the others stay) and to the heap (`Kept`: an array keeps its length).
- `ResultsStay` adds `Apart`: no list of the tree so far has room in an array that a
  tree returned has too. An operation changes only arrays of lists with room,
  and a list that has room afterwards had it before, or is a new one of an array of its
  own (`TreeStep`). From a tree without room nothing returned is ever written to again.
- `MatchesReference` needs more, since an append may write into an array of the tree itself:
  `Private`, no list of the tree shares the array of one that has room. An add keeps it if the
  value is `Disjoint` from what stays of the tree; a list that is copied gets an array of
  its own, and so does a list of a move; the tree a map is moved in has lost that map.
  Then each operation on the tree is the same operation on its plain value
  (`TransformMatches`), and it fails exactly where that one cannot be done: an add to a
  list of elements of another kind is such a case, for both. A copy of a map with
  lists breaks `Private`, which is what `shallow` records.

Of `LineStreams`, for any texts, sizes, failures and goroutines and any chain of processers
that `BytesAssumption` allows: `StreamsType`, `LinesWhole` and `ReadInOrder`.

- Texts. `Split` gives whole lines and a rest without an end of line, and it is the only
  way to cut a text so (`SplitUnique`, by the least byte at which two ways differ).
  Hence to split a text with a chunk behind it is to split what was left with the chunk
  (`SplitConcat`), and what is left behind the first lines of a text is itself such a text
  (`BehindBehind`): what a failed callback leaves in the buffer.
- `WriteInv`, which holds until `clobbered`: a Write is given what its caller meant (`Meant`),
  so that what arrives at the first processer is what was meant; and there is a number of lines, `c`, that the first processer has gone through,
  and a map `ids` which says where they are (`WriteState`): with the nested writer, with
  a writer on its way (`Carries`), in the buffer of a later processer after a failure
  (`Keeps`), or lost. None is at two places (`Distinct`), none is lost without a
  failure (`Complete`), and they come in turn as long as no two Writes overlap
  (`InTurn`). Text between processers is always of whole lines, each with as many marks as
  the processers it has passed, so that a text and its numbers determine each
  other. The variables do not say which of two equal lines is where, which is why the
  invariant needs the numbers: `LinesWhole` counts lines.
- `ReadInv` says the same of a reader: what is delivered or waits in `outBuffer` are lines
  of the input; without a failure, all of them, in order.
- `Origin` says where the input of a reader comes from: it and what is left, or was dropped
  with io.EOF, are the source, unless the source failed under a buffer reader; and when
  that one has answered io.EOF nothing is left to take or to deliver.

### `SyncDB_proofs`

`TypeOK` for any goroutines and handles and, when each goroutine has
its own handle (`OwnHandles`, which `db_shared` shows to be needed), `LockHasOwner`, the
refinement `ImplementsMutex` and `NoLostUpdate`. The invariant `LockInv` is the
conjunction of

- `CallInv`: which operation a goroutine is in, by where it is, and when it has a
  transaction;
- `SessionInv`: a session lock is between Lock and Unlock of its goroutine, which
  then holds the file;
- `FileLockInv`: the flock object of a handle is that of its goroutine, and the file
  is held by whom the handle says, except between `Release` and `ClearLocked`;
- `InsideInv`: who is inside, in the sense of `FileMutex`, holds the file. The file is
  held by one at a time, hence mutual exclusion;
- `OwnerInv`: who holds the file is inside, about to be, about to release it, or
  named in `leaked`, as whoever met one of the four errors is until the lock is released. It gives `LockHasOwner`.

`NoLostUpdate` adds `ValueInv`: what a goroutine has read in its session or transaction
is what the database holds, and what its transaction has written is one more. Another
goroutine cannot break it, as it would have to be inside too.

### `FileStore_proofs`

`StoreInv` says who holds which mutex in the middle of a call, and that what is renamed is
whole; a delete succeeds in `RecordStore` at the step that finds none of its files left, and
one that fails has deleted what it has; a crash frees the mutexes and ends the calls. From
it follows the refinement `ImplementsRecords`: a write takes place in `RecordStore`
when the rename does, an entry of the cache is torn by its truncation and whole after
it is filled, and all other steps stutter. A client is followed by `View`: its call, its
outcome and its result.

`ReadAllStable` has an invariant of its own, `ReadInv`: while no record is written or
deleted under a ReadAll, each record is either in what it has returned or in what it
has left to read, what it has returned besides them is of `.tmp` files, and everything
it has left to read is still there: a rename would be a write.

`SeqIncreases`, for any modulus and any number of clients. As long as no two calls
overlap one client at most is between the two steps (`Alone`), and the file holds a
number that is at least every number given, of which that client writes the next one
(`Holds`): a crash loses a number, and never gives one twice. A number overwrites one that
has no more digits (`OverwriteAll`), and its digits read back as the number: an induction
over digits, by the least number for which they do not.

### `Recursion`

TLAPS has no induction rule that can be instantiated here, since those take an operator
as a parameter. This module says the same of sets: a non-empty set of numbers has a least
element, and a definition by recursion over a set in which nothing descends for ever has
one solution (`SolutionsAgree`), which exists (`RecursionExists`). An induction is then a
proof by contradiction, on the least counterexample: the paths of a tree are one case,
by length (`NothingUnder` of `Data_proofs`); `Atoi` of `FileStore`, and `Reached`,
`Config`, `Succeeded` and `ExitCode` of `Command` are such definitions. For those that go
step by step over a sequence, as `Split` and the fold of `FlattenSeq` do, `StepsExist`
gives the values of all steps, and two that start alike and step alike are the same
(`StepsAgree`).

### `Async_proofs`

Of `Pool`: `TypeOK`, races included, `OneUser` and `Bounded`, for any number of users, calls and
objects. `MutexInv` and `ReadInv` hold always: who is between Lock and Unlock has the
mutex, and finds an object to take. `ObjectInv` holds until `raced`: what was read of
`available` is still there (`FreshInv`), the object being taken is its first
(`HeadInv`), available objects differ (`AvailableInv`), and those with a user differ
from each other and from these (`OwnerInv`). `Bounded` counts: `inUse` is the number of
users that are counted (`CountInv`); the available objects and those that are held, or that
there is room for, are not more than the users, and `maxOpen + 1` at most until `overshot`
(`RoomInv`): who has found none available is not among the holders, and each object that
has become available since has lost one holder. And every object is available, held or
outdated (`KeptInv`). `UsersAssumption`: finitely many goroutines use the pool.

Of `Promise`: `Faithful`, for any finite number of promises, at least one (`PromisesAssumption`: All,
Race and Best panic without any). `PromiseInv`: what the channels carry and what was received has
happened (`TruthInv`); no promise is in a channel twice, or still there once received
(`OnceInv`); a combinator that is resolved has received all it expected, and nothing
after an error if it is All or Race (`OutcomeInv`); `RunWaiting` finds each input in one
of its two channels (`WaitingInv`). That as many different promises were received as
there are means that all were: this is a lemma on injections into a finite set.

### `Command_proofs`

For any set of programs that are trees (`ProgramsAssumption`, `TreesAssumption`). That is
an assumption on what is built: an outputter is the root; an executer added to two sequences, or twice to one, has
its exit code, streams and `exec.Cmd` shared between two BlockRuns, and the code does
nothing about it. A tree is what has no cycle and no node with two parents; the recursion
over it follows from there.

- `ErrorsHaveCause` and `NothingLeftRunning`, from `CommandInv`: a node is where its kind
  can be (`PlaceInv`); if every command can start and none has a timeout, none is started
  twice and none returns an error (`CauseInv`); a node runs only when the one above it
  waits for it, or is a parallel sequence that was rejected (`TreeInv`). When the root has
  returned and a node still runs, the highest such node is below one that was rejected. The
  process exits as a whole (`ExitInv`), after which nothing runs and nothing has returned.
- `ZeroMeansSuccess`, from `ResultsInv`: a node that has returned says how its result
  comes from those of the nodes it has called, kind by kind (`SaysInv`: a serial or an or
  ended at some child, having passed those before it; a parallel has waited for all; a
  pipe returns what its sink does unless its feeder, if it is run, cut it short), and these have not been
  called again since. What a sequence has not called has no exit codes (`ResetInv`), which
  is why `ExitCode` cannot be that of a former run. Success then goes down the tree, from
  a node to those its result depends on; the hypotheses of the property (no command
  killed, no pipefail that meets an error) are needed at each node on the way. For
  `ExitCode` no sequence may be empty: one that is returns 0 and has no code to give.
- `StreamsRestored`, from `StreamsInv`: in the first run what a node writes to is a buffer
  of the one owner (a command with a feeder, or a pipe that is run itself) it is a feeder of, from the moment
  the owner calls its feeder until it returns. That feeders of different owners reach
  disjoint nodes (`OneOwner`) is what makes saved streams those of the caller (`Outside`: nil
  or the caller's own), whatever runs in parallel. In a second run it is false, after an error in the first.

### Only model-checked

- `PipeCarriesAll` of `Command`: what a pipe of a pipe contains depends on who reads whose
  buffer and when, over two runs, with inputs that are not used again left in place.
- Liveness, which TLAPS does not handle: `PriorityReleased`, `EndReturns`,
  `CallsReturn` of the tailer, of the database and of the stores, `RunReturns`, `OpenReturns`, `Settles`.

## 5. Not modelled

- **zcreen**: the mutex and the lock files of the screen and what waits for them; the
  timers of the screen and of sessions that were cleared or replaced; the removal of
  printers' files by `clear`; the `Err` stream, a second copy of the same machinery;
  `TailSuppliedBlocking0`, which nothing calls, and `Reclaim`, which panics. Errors of
  the file system, except the use of a closed file. `serializeSession` and the
  decoding of a `.ser` file are one step each.
- **tailer**: who clears sessions does not wait for one by name (`ClearsAssumption`). A
  clear that fails leaves a session known whose `.ser` file is gone, and TailBlocking,
  which elects by name, would read it.
- **printers, files, collections, errors, utilities**: what the modelled components use
  of them is modelled there. The rest are sequential helpers of a few lines.
- **commands**: formatters, mocks, the facade that builds commands, and the text of
  reports. Configuration is fixed at the start of a behaviour, except `AddArgs`.
- **database**: what a call answers, the rows and the errors, is not modelled; a Commit that
  is retried, or called twice, answers nil.
- **pool**: `poolz0.go` is an older pool whose objects cannot be given back and whose
  test is skipped. `maxIdle` is read by nothing.
- **readers and writers**: the buffering writer, which is a writer of its own (it buffers
  what it gets and processes it up to the last delimiter; what follows is lost, since
  the test that would put it back, writer.go:242, comes after `err` was reset at 226),
  and the recording and formatting wrappers.
- **structures**: the explorer only reads; paths are modelled parsed.
- **containers** (`ctnrz`): builds command lines of a container engine and runs them
  with `cmdz`; no state of its own.
- **logging, text, formatting** (`zlog`, `logz_toDel`, `anzi`, `ztring`, `formatz`) and the
  small packages (`truzt`, `serializ`, `tezt`, `timez`, `ptrz`): conversions and
  wrappers without state that a model could say more of than the code.

## 6. Plan

What is left, the most useful first.

1. Proofs: `PipeCarriesAll`, with an invariant on who reads and writes each buffer;
   `SessionsNeverInterleave` and `EverythingTailed` with clears.
2. `ZTailer` with the mutex and the lock files of the screen: what FlushBlocking keeps
   waiting, and two sinks that clear the same session.
3. `ZSession` with the timer of a session that was cleared.
