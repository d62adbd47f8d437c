------------------------------ MODULE ZSession ------------------------------
(***************************************************************************)
(* A session of zcreen (src/zcreen/session.go): printers with a priority,  *)
(* each with its own buffer and tmp file, whose content is consolidated    *)
(* into the tmp file of the session, lowest priority number first.         *)
(*                                                                         *)
(* The goroutines are: the flushers (Sink.FlushBlocking loops on           *)
(* session.Flush), the enders (callers of session.End), the timer that     *)
(* session.Start spawns, the closers (Sink.Close calls session.close), and *)
(* the printing goroutines, whose calls are the actions Printer, Out,      *)
(* FlushPrinter and ClosePrinter.  A printed message is a chunk; chunks of *)
(* one printer are numbered 1, 2, ... in the order they are printed.  Out  *)
(* and Err go through two copies of the same machinery: one is modelled.   *)
(***************************************************************************)
EXTENDS Integers, Sequences, FiniteSets

CONSTANTS
  Printers,     \* names of the printers of the session
  Notifier,     \* the notifier of the session, also a printer
  Priority,     \* Priority[p]: the priorityOrder printer p is asked with
  Flushers,     \* goroutines in FlushBlocking
  Enders,       \* goroutines that call End
  Timers,       \* the goroutine spawned by Start (one or none)
  Closers,      \* goroutines that call Sink.Close
  MaxChunks,    \* bound: MaxChunks[p] chunks are printed by printer p
  Orderly,      \* TRUE: printing goroutines stop before End is called
  None          \* nil

ASSUME PriorityAssumption == Priority \in [Printers -> Int]
ASSUME NoneAssumption     == None \notin Int /\ None \notin Flushers \cup Enders \cup Timers \cup Closers
ASSUME NotifierAssumption == Notifier \notin Printers
ASSUME OrderlyAssumption  == Orderly \in BOOLEAN
ASSUME PrintersAssumption == IsFiniteSet(Printers)
ASSUME FlushersAssumption == Flushers \cap (Enders \cup Timers \cup Closers) = {}

Procs       == Flushers \cup Enders \cup Timers \cup Closers
AllPrinters == Printers \cup {Notifier}
Priorities  == {Priority[p] : p \in Printers}

ASSUME MaxAssumption == MaxChunks \in [AllPrinters -> Nat]

VARIABLES
  started, ended, timeouted,  \* session.Started, Ended, Timeouted # nil
  serEnded,                   \* Ended, in the .ser file the tailers read
  printed,                    \* session.printed: a printer was selected
  currentPriority,            \* session.currentPriority, None for nil
  printersByPriority,         \* per priority, the printers in creation order
  mutex,                      \* the goroutine holding session.mutex, or None
  open, consolidated, closed, \* per printer; closed is ClosingPrinter.closed
  chunks,                     \* per printer: chunks printed; 0 iff LastPrint is zero
  written,                    \* per printer: chunks in its tmp file
  cursor,                     \* per printer: chunks the session has taken
  promised,                   \* history: chunks printed when it was closed by name
  tmpOut,                     \* the session tmp file
  pc, index, opened, copied, toClose  \* per goroutine

sessionVars == <<started, ended, timeouted, serEnded>>
selectVars  == <<printed, currentPriority>>
fileVars    == <<written, cursor, tmpOut>>
flagVars    == <<open, consolidated, closed, promised>>
printing    == <<selectVars, printersByPriority, mutex, flagVars, chunks, fileVars>>
shared      == <<sessionVars, printing>>
locals      == <<index, opened, copied, toClose>>
procVars    == <<pc, locals>>
vars        == <<shared, procVars>>

Goto(s, label) == pc' = [pc EXCEPT ![s] = label]

Chunk == [printer : AllPrinters, number : Nat]

\* session.printers: the printers that were created
Created == {p \in Printers : \E i \in DOMAIN printersByPriority[Priority[p]] :
                               printersByPriority[Priority[p]][i] = p}

-----------------------------------------------------------------------------
\* A session comes out of buildSession: new, or rebuilt from the .ser file of
\* an earlier one, that keeps Ended and sets Started to false.
Init ==
  /\ started = FALSE
  /\ ended \in BOOLEAN
  /\ serEnded = ended
  /\ timeouted = FALSE
  /\ printed = FALSE
  /\ currentPriority = None
  /\ printersByPriority = [k \in Priorities |-> <<>>]
  /\ mutex = None
  /\ open = [p \in AllPrinters |-> TRUE]
  /\ consolidated = [p \in AllPrinters |-> FALSE]
  /\ closed = [p \in AllPrinters |-> FALSE]
  /\ chunks = [p \in AllPrinters |-> 0]
  /\ written = [p \in AllPrinters |-> 0]
  /\ cursor = [p \in AllPrinters |-> 0]
  /\ promised = [p \in AllPrinters |-> 0]
  /\ tmpOut = <<>>
  /\ pc = [s \in Procs |-> "idle"]
  /\ index = [s \in Procs |-> 0]
  /\ opened = [s \in Procs |-> FALSE]
  /\ copied = [s \in Procs |-> 0]
  /\ toClose = [s \in Procs |-> {}]

-----------------------------------------------------------------------------
(* The calls of the printing goroutines.                                   *)

Active == Orderly => \A s \in Enders \cup Closers \cup Timers : pc[s] = "idle"

\* session.Start.  The timer goroutine may run as soon as Started is set.
Start ==
  /\ ~timeouted /\ ~started
  /\ Active
  /\ started' = TRUE
  /\ ended' = FALSE
  /\ printed' = FALSE
  /\ serEnded' = FALSE
  /\ UNCHANGED <<timeouted, currentPriority, printersByPriority, mutex, flagVars, chunks, fileVars, procVars>>

\* session.Printer, for a name not asked yet: it locks, creates and unlocks.
Printer(p) ==
  /\ mutex = None
  /\ ~ended /\ ~timeouted
  /\ Active
  /\ p \notin Created
  /\ printersByPriority' = [printersByPriority EXCEPT ![Priority[p]] = Append(@, p)]
  /\ UNCHANGED <<sessionVars, selectVars, mutex, flagVars, chunks, fileVars, procVars>>

\* Out of the ClosingPrinter: into the buffer of the printer.  It panics once
\* the printer is closed.  It takes the mutex of the printer, never the one
\* of the session.
Out(p) ==
  /\ p \in Created \cup {Notifier}
  /\ ~closed[p]
  /\ Orderly => open[p]
  /\ Active
  /\ chunks[p] < MaxChunks[p]
  /\ chunks' = [chunks EXCEPT ![p] = @ + 1]
  /\ UNCHANGED <<sessionVars, selectVars, printersByPriority, mutex, flagVars, fileVars, procVars>>

\* Flush of the printer by its user; a full bufio.Writer does the same.
FlushPrinter(p) ==
  /\ p \in Created \cup {Notifier}
  /\ ~closed[p]
  /\ Active
  /\ written[p] < chunks[p]
  /\ written' = [written EXCEPT ![p] = chunks[p]]
  /\ UNCHANGED <<sessionVars, selectVars, printersByPriority, mutex, flagVars, chunks, cursor, tmpOut, procVars>>

\* The effect of closePrinter, that both ClosePrinter and close call.
closePrinter(p) ==
  IF open[p]
  THEN /\ open' = [open EXCEPT ![p] = FALSE]
       /\ consolidated' = [consolidated EXCEPT ![p] = FALSE]
       /\ promised' = [promised EXCEPT ![p] = chunks[p]]
  ELSE UNCHANGED <<open, consolidated, promised>>

ClosePrinter(p) ==
  /\ mutex = None
  /\ p \in Created
  /\ Active
  /\ closePrinter(p)
  /\ UNCHANGED <<sessionVars, selectVars, printersByPriority, mutex, closed, chunks, fileVars, procVars>>

-----------------------------------------------------------------------------
(* nextPriority: the loop over the sorted priorities.                      *)

Of(k) == {p \in Created : Priority[p] = k}

PendingAgain(k) == \E p \in Of(k) : chunks[p] > 0  \* mutant of Pending

PendingOpen(k) ==  \* mutant of Pending: closed printers are forgotten
  \E p \in Of(k) : open[p] /\ ~consolidated[p] /\ chunks[p] > 0

\* a printer of priority k has something to consolidate
Pending(k) == \E p \in Of(k) : ~consolidated[p] /\ chunks[p] > 0

\* nothingPrintedYet: the loop stops here and selects nothing
NothingPrintedYet(k) == Of(k) # {} /\ \A p \in Of(k) : open[p] /\ chunks[p] = 0

Selected(k) ==
  /\ Pending(k)
  /\ \A j \in Priorities : j < k => ~Pending(j) /\ ~NothingPrintedYet(j)

NextPriority == IF \E k \in Priorities : Selected(k)
                THEN CHOOSE k \in Priorities : Selected(k)
                ELSE None

-----------------------------------------------------------------------------
(* Flush, consolidateAll and consolidatePrinter.                           *)

\* the printer that consolidatePrinter works on; index 0 is the notifier
Target(s) == IF index[s] = 0 THEN Notifier
             ELSE printersByPriority[currentPriority][index[s]]

\* Where a goroutine goes when its call of Flush returns: FlushBlocking
\* loops, close goes on with the notifier.
AfterFlush(s) == IF s \in Flushers THEN "idle" ELSE "notify"

\* FlushBlocking, and FlushAllBlocking for each session: for !Ended { Flush };
\* it is also the test Flush begins with.
FlushBlocking(s) ==
  /\ s \in Flushers
  /\ pc[s] = "idle"
  /\ ~ended
  /\ Goto(s, "lock")
  /\ UNCHANGED <<shared, locals>>

\* Flush called by close: the test of Ended, without the lock.
FlushTest(s) ==
  /\ pc[s] = "flush"
  /\ Goto(s, IF ended THEN AfterFlush(s) ELSE "lock")
  /\ UNCHANGED <<shared, locals>>

\* With s holding the mutex: start on the printers of priority k.
Begin(s, k) ==
  /\ currentPriority' = k
  /\ mutex' = s
  /\ index' = [index EXCEPT ![s] = 1]
  /\ opened' = [opened EXCEPT ![s] = FALSE]
  /\ Goto(s, "consolidate")

\* consolidateAll and Flush return.
Unlock(s) ==
  /\ mutex' = None
  /\ Goto(s, AfterFlush(s))
  /\ UNCHANGED <<index, opened>>

\* nextPriority, then the loop of consolidateAll starts or is skipped.
Select(s) ==
  IF NextPriority = None
  THEN /\ currentPriority' = None
       /\ UNCHANGED printed
       /\ Unlock(s)
  ELSE /\ printed' = TRUE
       /\ Begin(s, NextPriority)

\* While no printer was selected yet, the notifier is consolidated.
FlushLock(s) ==
  /\ pc[s] = "lock"
  /\ mutex = None
  /\ \/ /\ currentPriority # None
        /\ Begin(s, currentPriority)
        /\ UNCHANGED printed
     \/ /\ currentPriority = None
        /\ NextPriority # None \/ printed
        /\ Select(s)
     \/ /\ currentPriority = None
        /\ NextPriority = None /\ ~printed
        /\ mutex' = s
        /\ index' = [index EXCEPT ![s] = 0]
        /\ Goto(s, "consolidate")
        /\ UNCHANGED <<selectVars, opened>>
  /\ UNCHANGED <<sessionVars, printersByPriority, flagVars, chunks, fileVars, copied, toClose>>

\* consolidatePrinter flushes the printer.  The flush fails when a print came
\* after the last flush and before Close: the tmp file is closed, what is
\* buffered stays so, and consolidateAll gives up.  Flush swallows the error.
FlushTarget(s) ==
  LET p == Target(s) IN
  /\ pc[s] = "consolidate"
  /\ IF closed[p] /\ written[p] < chunks[p]
     THEN Unlock(s) /\ UNCHANGED written
     ELSE /\ written' = [written EXCEPT ![p] = chunks[p]]
          /\ Goto(s, IF ~open[p] /\ consolidated[p] THEN "advance" ELSE "copy")
          /\ UNCHANGED <<mutex, index, opened>>
  /\ UNCHANGED <<sessionVars, selectVars, printersByPriority, flagVars, chunks, cursor, tmpOut, copied, toClose>>

FreshFromStart(p) ==  \* mutant of Fresh: the cursor is not used
  [i \in 1 .. written[p] |-> [printer |-> p, number |-> i]]

\* The chunks of p that its cursor leaves to copy.
Fresh(p) == [i \in 1 .. (written[p] - cursor[p]) |->
               [printer |-> p, number |-> cursor[p] + i]]

CopiedUnbounded(p) == written[p] - cursor[p] - 1  \* mutant of CopiedLength

\* What CopyChunk returns; a cursor beyond the end of the file reads nothing.
CopiedLength(p) == IF cursor[p] < written[p] THEN written[p] - cursor[p] ELSE 0

\* CopyChunk from the tmp file of the printer to the one of the session.
Copy(s) ==
  LET p == Target(s) IN
  /\ pc[s] = "copy"
  /\ tmpOut' = tmpOut \o Fresh(p)
  /\ copied' = [copied EXCEPT ![s] = CopiedLength(p)]
  /\ Goto(s, "mark")
  /\ UNCHANGED <<sessionVars, selectVars, printersByPriority, mutex, flagVars, chunks, written, cursor, index, opened, toClose>>

MarkClosesOpen(s) ==  \* mutant of Mark: an open printer is closed too
  LET p == Target(s) IN
  /\ pc[s] = "mark"
  /\ cursor' = [cursor EXCEPT ![p] = @ + copied[s]]
  /\ consolidated' = [consolidated EXCEPT ![p] = TRUE]
  /\ closed' = [closed EXCEPT ![p] = TRUE]
  /\ Goto(s, "advance")
  /\ UNCHANGED <<sessionVars, selectVars, printersByPriority, mutex, open, promised, chunks, written, tmpOut, locals>>

\* The cursor moves, and a printer closed by name is closed for good, its
\* tmp files removed.
Mark(s) ==
  LET p == Target(s) IN
  /\ pc[s] = "mark"
  /\ cursor' = [cursor EXCEPT ![p] = @ + copied[s]]
  /\ consolidated' = [consolidated EXCEPT ![p] = TRUE]
  /\ closed' = [closed EXCEPT ![p] = ~open[p]]
  /\ Goto(s, "advance")
  /\ UNCHANGED <<sessionVars, selectVars, printersByPriority, mutex, open, promised, chunks, written, tmpOut, locals>>

SomeOpenLast(s) == open[Target(s)]  \* mutant of SomeOpen

\* One of the printers the loop went through is open.
SomeOpen(s) == opened[s] \/ open[Target(s)]

\* The rest of the loop of consolidateAll: the next printer of the priority,
\* or, when all of them are closed, the next priority.
Advance(s) ==
  LET last == index[s] = Len(printersByPriority[currentPriority]) IN
  /\ pc[s] = "advance"
  /\ index[s] > 0
  /\ \/ /\ ~last
        /\ index' = [index EXCEPT ![s] = @ + 1]
        /\ opened' = [opened EXCEPT ![s] = SomeOpen(s)]
        /\ Goto(s, "consolidate")
        /\ UNCHANGED <<selectVars, mutex>>
     \/ /\ last /\ SomeOpen(s)
        /\ Unlock(s)
        /\ UNCHANGED selectVars
     \/ /\ last /\ ~SomeOpen(s)
        /\ Select(s)
  /\ UNCHANGED <<sessionVars, printersByPriority, flagVars, chunks, fileVars, copied, toClose>>

\* The same for the notifier: in Flush there is nothing else to do; close
\* holds no lock and goes on.
AdvanceNotifier(s) ==
  /\ pc[s] = "advance"
  /\ index[s] = 0
  /\ IF mutex = s
     THEN Unlock(s)
     ELSE /\ Goto(s, IF s \in Closers THEN "done" ELSE "end")
          /\ UNCHANGED <<mutex, index, opened>>
  /\ UNCHANGED <<sessionVars, selectVars, printersByPriority, flagVars, chunks, fileVars, copied, toClose>>

-----------------------------------------------------------------------------
(* close, End and the timer.                                               *)

\* End returns at once when the session is ended; close begins by ranging
\* over session.printers, without the lock.
End(s) ==
  /\ \/ s \in Enders /\ pc[s] = "idle" /\ ~ended
     \/ s \in Closers /\ pc[s] = "idle"
     \/ s \in Timers /\ pc[s] = "timer" /\ ~ended
  /\ Goto(s, "close")
  /\ toClose' = [toClose EXCEPT ![s] = Created]
  /\ UNCHANGED <<shared, index, opened, copied>>

\* One printer of the range; a printer created meanwhile may come up too.
ClosePrinters(s) ==
  /\ pc[s] = "close"
  /\ mutex = None
  /\ \E p \in Created :
       /\ p \in toClose[s] \/ open[p]
       /\ closePrinter(p)
       /\ toClose' = [toClose EXCEPT ![s] = @ \ {p}]
  /\ UNCHANGED <<sessionVars, selectVars, printersByPriority, mutex, closed, chunks, fileVars, pc, index, opened, copied>>

ClosedPrinters(s) ==
  /\ pc[s] = "close"
  /\ toClose[s] = {}
  /\ Goto(s, "flush")
  /\ UNCHANGED <<shared, locals>>

\* consolidateNotifier, without the lock.
Notify(s) ==
  /\ pc[s] = "notify"
  /\ index' = [index EXCEPT ![s] = 0]
  /\ Goto(s, "consolidate")
  /\ UNCHANGED <<shared, opened, copied, toClose>>

SetEnded(s) ==
  /\ pc[s] = "end"
  /\ ended' = TRUE
  /\ Goto(s, "serialize")
  /\ UNCHANGED <<started, timeouted, serEnded, locals, printing>>

\* End writes the .ser file, unless the session has timed out.
Serialize(s) ==
  /\ pc[s] = "serialize"
  /\ serEnded' = IF timeouted THEN serEnded ELSE ended
  /\ Goto(s, IF s \in Timers THEN "timeout" ELSE "done")
  /\ UNCHANGED <<started, ended, timeouted, locals, printing>>

\* The timer wakes up, and runs the callbacks if the session is not ended.
TimerWakes(s) ==
  /\ s \in Timers
  /\ pc[s] = "idle"
  /\ started
  /\ Goto(s, IF ended THEN "done" ELSE "timer")
  /\ UNCHANGED <<shared, locals>>

\* Its call of End returns at once when the session was ended meanwhile.
TimerLate(s) ==
  /\ pc[s] = "timer"
  /\ ended
  /\ Goto(s, "timeout")
  /\ UNCHANGED <<shared, locals>>

SetTimeouted(s) ==
  /\ pc[s] = "timeout"
  /\ timeouted' = TRUE
  /\ Goto(s, "done")
  /\ UNCHANGED <<started, ended, serEnded, locals, printing>>

-----------------------------------------------------------------------------
User ==
  \/ Start
  \/ \E p \in Printers : Printer(p) \/ ClosePrinter(p)
  \/ \E p \in AllPrinters : Out(p) \/ FlushPrinter(p)

Flush(s) ==
  \/ FlushBlocking(s) \/ FlushTest(s) \/ FlushLock(s) \/ FlushTarget(s)
  \/ Copy(s) \/ Mark(s) \/ Advance(s) \/ AdvanceNotifier(s)

Close(s) ==
  \/ End(s) \/ ClosePrinters(s) \/ ClosedPrinters(s) \/ Notify(s)
  \/ SetEnded(s) \/ Serialize(s)
  \/ TimerWakes(s) \/ TimerLate(s) \/ SetTimeouted(s)

\* Every goroutine has returned, or waits for a call.
Quiet == (\A s \in Procs : pc[s] \in {"idle", "done"}) /\ UNCHANGED vars

Next == User \/ (\E s \in Procs : Flush(s) \/ Close(s)) \/ Quiet

Spec == Init /\ [][Next]_vars

\* The scheduler runs every goroutine, and sync.Mutex hands itself to a
\* goroutine that has waited for a millisecond, hence the strong fairness.
\* Nobody is obliged to call Start, End, Out, ...
Running(s) ==
  \/ FlushBlocking(s) \/ FlushTest(s) \/ FlushTarget(s)
  \/ Copy(s) \/ Mark(s) \/ Advance(s) \/ AdvanceNotifier(s)
  \/ ClosedPrinters(s) \/ Notify(s) \/ SetEnded(s) \/ Serialize(s)
  \/ TimerWakes(s) \/ TimerLate(s) \/ (pc[s] = "timer" /\ End(s)) \/ SetTimeouted(s)

Fairness == \A s \in Procs :
  /\ WF_vars(Running(s))
  /\ SF_vars(FlushLock(s))
  /\ SF_vars(ClosePrinters(s))

FairSpec == Spec /\ Fairness

-----------------------------------------------------------------------------
(* Properties.                                                             *)

Labels == {"idle", "lock", "consolidate", "copy", "mark", "advance", "close",
           "flush", "notify", "end", "serialize", "timer", "timeout", "done"}

\* Every variable has its type.
TypeOK ==
  /\ started \in BOOLEAN /\ ended \in BOOLEAN /\ timeouted \in BOOLEAN
  /\ serEnded \in BOOLEAN /\ printed \in BOOLEAN
  /\ currentPriority \in Priorities \cup {None}
  /\ printersByPriority \in [Priorities -> Seq(Printers)]
  /\ mutex \in Procs \cup {None}
  /\ open \in [AllPrinters -> BOOLEAN]
  /\ consolidated \in [AllPrinters -> BOOLEAN]
  /\ closed \in [AllPrinters -> BOOLEAN]
  /\ chunks \in [AllPrinters -> Nat] /\ promised \in [AllPrinters -> Nat]
  /\ written \in [AllPrinters -> Nat] /\ cursor \in [AllPrinters -> Nat]
  /\ tmpOut \in Seq(Chunk)
  /\ pc \in [Procs -> Labels]
  /\ index \in [Procs -> Nat]
  /\ opened \in [Procs -> BOOLEAN]
  /\ copied \in [Procs -> Nat]
  /\ toClose \in [Procs -> SUBSET Printers]

\* A printer whose last consolidation is done: nothing of it is copied again.
Done(p) == ~open[p] /\ consolidated[p]

\* "Session printers are concatenated in order": in the session tmp file,
\* what a printer wrote is followed by what a printer of another priority
\* wrote only once the first is done; so the output of one priority is never
\* cut by another, whatever is printed, created and closed during the flush.
PrioritiesNeverInterleave ==
  \A i, j \in DOMAIN tmpOut :
    LET p == tmpOut[i].printer
        q == tmpOut[j].printer
    IN (i < j /\ {p, q} \subseteq Printers /\ Priority[p] # Priority[q]) => Done(p)

\* The chunks of one printer are in the session tmp file once each, in the
\* order they were printed and without a hole, although flushes of several
\* goroutines, of the user and of End overlap.
ExactlyOnce ==
  \A j \in DOMAIN tmpOut : tmpOut[j].printer \in Printers =>
    /\ \A i \in 1 .. j - 1 :
         tmpOut[i].printer = tmpOut[j].printer => tmpOut[i].number < tmpOut[j].number
    /\ \A n \in 1 .. tmpOut[j].number - 1 :
         \E i \in 1 .. j - 1 : tmpOut[i] = [printer |-> tmpOut[j].printer, number |-> n]

\* Removing the tmp files of a closed printer loses nothing that was printed
\* before it was closed by name, by ClosePrinter or by End.
ClosedAfterConsolidation ==
  \A p \in Printers : closed[p] => cursor[p] >= promised[p]

\* When the printing goroutines stop before End is called, the ended session
\* holds all they printed, in closed and open printers of every priority.
EndLosesNothing ==
  (Orderly /\ started /\ ended) => \A p \in Created : cursor[p] = chunks[p]

\* Every call of End returns, whoever else flushes, closes or ends.
EndReturns == \A s \in Enders \cup Timers : pc[s] = "close" ~> pc[s] = "done"

\* While FlushBlocking runs and a priority is current, closing its printers
\* lets it go: no priority stays current without an open printer, unless the
\* flush fails on a printer that was printed to while it was being closed.
PriorityReleased ==
  \A k \in Priorities :
    (currentPriority = k /\ \A p \in Of(k) : ~open[p] /\ (closed[p] => written[p] = chunks[p]))
      ~> \/ currentPriority # k
         \/ ended
         \/ \E p \in Of(k) : open[p] \/ (closed[p] /\ written[p] # chunks[p])

-----------------------------------------------------------------------------
(* The inductive invariant behind the safety properties.                   *)

\* s is in the loop of consolidateAll
InLoop(s) == pc[s] \in {"consolidate", "copy", "mark", "advance"} /\ index[s] > 0

ListInv ==
  /\ \A k \in Priorities : \A i \in DOMAIN printersByPriority[k] :
       Priority[printersByPriority[k][i]] = k
  /\ currentPriority # None => printersByPriority[currentPriority] # <<>>

\* the notifier is never closed by a flush
NotifierInv == open[Notifier] /\ ~closed[Notifier]

\* the loop is run under the lock, on the printers of the current priority
LockInv ==
  \A s \in Procs : InLoop(s) =>
    /\ mutex = s
    /\ currentPriority # None
    /\ index[s] \in DOMAIN printersByPriority[currentPriority]

\* the printers the loop has passed are done, unless one of them is open
LoopInv ==
  \A s \in Procs : InLoop(s) =>
    /\ ~opened[s] => \A i \in 1 .. index[s] - 1 : Done(printersByPriority[currentPriority][i])
    /\ pc[s] = "advance" /\ ~open[Target(s)] => Done(Target(s))

\* whoever is in the session tmp file and may write again is of the current
\* priority
LogInv ==
  \A i \in DOMAIN tmpOut : LET p == tmpOut[i].printer IN p \in Printers =>
    /\ p \in Created
    /\ ~Done(p) => Priority[p] = currentPriority

\* how much of a printer is in the session tmp file
Copying(s, p) == pc[s] = "mark" /\ index[s] > 0 /\ Target(s) = p
InTmpOut(p, n) ==
  /\ \A i \in DOMAIN tmpOut : tmpOut[i].printer = p => tmpOut[i].number <= n
  /\ \A m \in 1 .. n : \E i \in DOMAIN tmpOut : tmpOut[i] = [printer |-> p, number |-> m]
TakenInv ==
  \A p \in Printers :
    /\ (\A s \in Procs : ~Copying(s, p)) => InTmpOut(p, cursor[p])
    /\ \A s \in Procs : Copying(s, p) => InTmpOut(p, cursor[p] + copied[s])

CursorInv ==
  \A p \in Printers :
    /\ cursor[p] <= written[p] /\ written[p] <= chunks[p]
    /\ promised[p] <= chunks[p]
    /\ closed[p] => ~open[p] /\ cursor[p] >= promised[p]
CopyInv ==
  \A s \in Procs : InLoop(s) =>
    /\ pc[s] = "copy" /\ ~open[Target(s)] => promised[Target(s)] <= written[Target(s)]
    /\ pc[s] = "mark" => cursor[Target(s)] + copied[s] <= written[Target(s)]
    /\ pc[s] = "mark" /\ ~open[Target(s)] =>
         promised[Target(s)] <= cursor[Target(s)] + copied[s]

IInv == /\ TypeOK /\ ListInv /\ NotifierInv /\ LockInv /\ LoopInv /\ LogInv
        /\ CursorInv /\ CopyInv /\ TakenInv
        /\ PrioritiesNeverInterleave /\ ExactlyOnce

\* What makes an orderly session end complete.  The goroutines that close:
Finishers == Enders \cup Timers \cup Closers

Holding == {"consolidate", "copy", "mark", "advance"}

\* a flusher does nothing but flush, and holds the lock while it does
FlusherInv ==
  \A s \in Flushers : /\ pc[s] \in {"idle", "lock"} \cup Holding
                      /\ pc[s] \in Holding => mutex = s

\* the last consolidation of a printer closes it for good
DoneInv == \A p \in Printers : Done(p) => closed[p]

\* nothing is printed to a printer that is closed by name
PromiseInv == \A p \in Printers : ~open[p] => promised[p] = chunks[p]

AllClosed == \A p \in Created : ~open[p]
AllTaken  == \A p \in Created : cursor[p] = chunks[p]

\* who closes first closes every printer, then meets no open one, and leaves
\* its flush once all is taken
FinishInv(s) ==
  /\ pc[s] = "close" => \A p \in Created : open[p] => p \in toClose[s]
  /\ pc[s] \in {"flush", "lock", "notify", "end"} \cup Holding => AllClosed
  /\ InLoop(s) => ~opened[s]
  /\ pc[s] \in {"notify", "end"} \/ (pc[s] \in Holding /\ index[s] = 0)
       => (started => AllTaken)

\* the session is ended by a goroutine that has closed it
EndedInv == started /\ ended => AllTaken /\ \E s \in Finishers : pc[s] # "idle"

EndInv ==
  /\ FlusherInv /\ DoneInv
  /\ Orderly => PromiseInv /\ EndedInv /\ \A s \in Finishers : FinishInv(s)
=============================================================================
