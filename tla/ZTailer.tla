------------------------------ MODULE ZTailer -------------------------------
(***************************************************************************)
(* The tailer of zcreen (screenTailer, src/zcreen/screen.go): one process  *)
(* copies to its outputs the tmp files of the sessions that another        *)
(* process, the sink (screen), fills.  They share files only: per session  *)
(* the .ser file, with Started and Ended, and one tmp file per run of the  *)
(* session, a run being one life of it in a sink process.  The tailer may  *)
(* also clear sessions, which the sink sees when it resyncs.  The notices  *)
(* are what the notifier of the sink prints outside of the sessions.       *)
(*                                                                         *)
(* The sink is the environment: what a session does to its files is in     *)
(* ZSession, here a chunk is what one flush adds to the tmp file.  Out and *)
(* Err are tailed alike: one is modelled.  The sink runs between any two   *)
(* steps of the tailer, and may crash and be restarted.                    *)
(***************************************************************************)
EXTENDS Integers, Sequences, FiniteSets, SequencesExt

CONSTANTS
  Sessions,   \* names of the sessions
  Priority,   \* Priority[s]: PriorityOrder of session s
  Calls,      \* the methods of the tailer that are called
  Reopen,     \* TRUE: a session may be opened again after its end
  MaxResyncs, \* bound on the calls of Resync
  MaxNotices, \* bound on the notices
  MaxRuns,    \* bound on the runs of a session
  MaxChunks,  \* bound on the chunks of a session, over its runs
  MaxCalls,   \* bound on the calls of the tailer
  None        \* nil

Methods == {"TailOnlyBlocking", "TailBlocking", "TailSuppliedBlocking", "TailAllBlocking",
            "ClearSession", "Clear"}
Priorities == {Priority[s] : s \in Sessions}

ASSUME SessionsAssumption == Sessions # {} /\ IsFiniteSet(Sessions)
ASSUME PriorityAssumption == Priority \in [Sessions -> Int]
ASSUME CallsAssumption    == Calls \subseteq Methods
\* A clear that fails leaves a session known without its .ser file: who clears
\* does not wait for a session by name, as TailBlocking does.
ASSUME ClearsAssumption   == {"ClearSession", "Clear"} \cap Calls = {} \/ "TailBlocking" \notin Calls
ASSUME SinkAssumption     == Reopen \in BOOLEAN
ASSUME BoundsAssumption   == MaxRuns \in Nat /\ MaxChunks \in Nat /\ MaxCalls \in Nat /\ MaxNotices \in Nat /\ MaxResyncs \in Nat

VARIABLES
  session,  \* per session, the one of the sink process, or None
  ser,      \* per session, the .ser file: Started and Ended, or None
  files,    \* per session, the number of chunks of each of its tmp files
  removed,  \* per session, how many of them, the first ones, are removed
  resyncs,  \* how many calls of Resync
  resync,   \* the .ser files that the current Resync has read, or None
  notices,  \* the number of notices in the file of the notifier
  view,     \* per session, the one of the tailer, or None
  sessionsByPriority, electedSession, blockingSessionsQueue,
  out,      \* what the tailer has output
  noticed,  \* the cursor in the file of the notifier
  ordered,  \* history: the session of each output of tailNext, None for notices
  call, pos, count,        \* the call, its current name, how many calls
  pc, ret, toScan, target, hasNextBefore, notEnded, tailed,
  result    \* what the last call returned

disk    == <<ser, files, removed>>
sink    == <<session, disk, resync, resyncs, notices>>
elected == <<sessionsByPriority, electedSession, blockingSessionsQueue>>
output  == <<out, ordered, noticed>>
locals  == <<ret, toScan, target, hasNextBefore, notEnded, tailed>>
control == <<call, pos, count, result>>
vars    == <<sink, view, elected, output, control, pc, locals>>

Chunk == [session : Sessions, run : Nat, number : Nat]

\* what a .ser file says, the session of the sink, and that of the tailer
Serialized == [started : BOOLEAN, ended : BOOLEAN]
Session    == [started : BOOLEAN, ended : BOOLEAN, changed : BOOLEAN]
View       == [started : BOOLEAN, ended : BOOLEAN, file : Nat, cursor : Nat,
               open : BOOLEAN, tailed : BOOLEAN, flushed : BOOLEAN]

\* what a call returns
Results == {"ok", "timeout", "error"}

ASSUME NoneAssumption == None \notin Sessions \cup Serialized \cup Session \cup View \cup Results

\* the methods that tail sessions in order
Elections == {"TailBlocking", "TailAllBlocking"}

\* the chunks i .. j of a run
Chunks(s, run, i, j) == [n \in 1 .. j - i + 1 |-> [session |-> s, run |-> run, number |-> i + n - 1]]

Init ==
  /\ session = [s \in Sessions |-> None]
  /\ ser = [s \in Sessions |-> None]
  /\ files = [s \in Sessions |-> <<>>]
  /\ removed = [s \in Sessions |-> 0]
  /\ resync = None /\ resyncs = 0
  /\ notices = 0 /\ noticed = 0
  /\ view = [s \in Sessions |-> None]
  /\ sessionsByPriority = [k \in Priorities |-> <<>>]
  /\ electedSession = None
  /\ blockingSessionsQueue = <<>>
  /\ out = <<>>
  /\ ordered = <<>>
  /\ call = None /\ pos = 1 /\ count = 0
  /\ pc = "idle" /\ ret = "idle" /\ toScan = {} /\ target = None
  /\ hasNextBefore = FALSE /\ notEnded = FALSE /\ tailed = FALSE
  /\ result = None

-----------------------------------------------------------------------------
(* The sink.                                                               *)

\* Ended in the .ser file
serEnded(s) == ser[s] # None /\ ser[s].ended

\* screen.Session: a new tmp file.  A session that has a .ser file keeps its
\* Ended and is not started.  Resync holds the mutex of the screen.
Build(s) ==
  /\ session[s] = None /\ resync = None
  /\ Len(files[s]) < MaxRuns
  /\ serEnded(s) => Reopen
  /\ files' = [files EXCEPT ![s] = Append(@, 0)]
  /\ session' = [session EXCEPT ![s] =
       [started |-> FALSE, ended |-> serEnded(s), changed |-> FALSE]]
  /\ UNCHANGED <<ser, removed, resync, resyncs, notices>>

Start(s) ==
  /\ session[s] # None
  /\ ~session[s].started
  /\ session[s].ended => Reopen
  /\ session' = [session EXCEPT ![s] = [started |-> TRUE, ended |-> FALSE, changed |-> TRUE]]
  /\ UNCHANGED <<disk, resync, resyncs, notices>>

\* A flush of the session: it writes nothing once the session is ended.
Write(s) ==
  /\ session[s] # None
  /\ ~session[s].ended
  /\ FoldSeq(LAMBDA n, sum : n + sum, 0, files[s]) < MaxChunks
  /\ files' = [files EXCEPT ![s][Len(files[s])] = @ + 1]
  /\ UNCHANGED <<session, ser, removed, resync, resyncs, notices>>

End(s) ==
  /\ session[s] # None
  /\ ~session[s].ended
  /\ session' = [session EXCEPT ![s].ended = TRUE, ![s].changed = TRUE]
  /\ UNCHANGED <<disk, resync, resyncs, notices>>

\* serializeSession, at the end of Start and of End
Serialize(s) ==
  /\ session[s] # None
  /\ session[s].changed
  /\ ser' = [ser EXCEPT ![s] = [started |-> session[s].started, ended |-> session[s].ended]]
  /\ session' = [session EXCEPT ![s].changed = FALSE]
  /\ UNCHANGED <<files, removed, resync, resyncs, notices>>

\* Resync, under the lock that the scans of the tailer take too: it reads the
\* .ser files, then gives its sessions the Started and Ended it has read.
ResyncScan ==
  /\ resyncs < MaxResyncs
  /\ resyncs' = resyncs + 1
  /\ resync = None /\ pc \notin {"scan", "clear", "cleared"}
  /\ \E s \in Sessions : session[s] # None
  /\ resync' = ser
  /\ UNCHANGED <<session, disk, notices>>

\* A session that has no .ser file leaves the screen with its files, if it is ended.
Resynced(s) ==
  CASE session[s] = None -> None
    [] session[s] # None /\ resync[s] # None ->
         [session[s] EXCEPT !.started = resync[s].started, !.ended = resync[s].ended]
    [] OTHER -> IF session[s].ended THEN None ELSE session[s]

Resync ==
  /\ resync # None
  /\ session' = [s \in Sessions |-> Resynced(s)]
  /\ removed' = [s \in Sessions |->
       IF session[s] # None /\ Resynced(s) = None THEN Len(files[s]) ELSE removed[s]]
  /\ resync' = None
  /\ UNCHANGED <<ser, files, resyncs, notices>>

Notify ==
  /\ notices < MaxNotices
  /\ notices' = notices + 1
  /\ UNCHANGED <<session, disk, resync, resyncs>>

\* a new sink has no session yet, and truncates the file of the notifier
NewAsyncScreen ==
  /\ session' = [s \in Sessions |-> None]
  /\ resync' = None
  /\ notices' = 0

\* The sink process exits, whether it closed its screen or not, and is restarted.
Crash ==
  /\ \E s \in Sessions : session[s] # None
  /\ NewAsyncScreen
  /\ UNCHANGED <<disk, resyncs>>

Sink ==
  /\ \/ Crash \/ ResyncScan \/ Resync \/ Notify
     \/ \E s \in Sessions : Build(s) \/ Start(s) \/ Write(s) \/ End(s) \/ Serialize(s)
  /\ UNCHANGED <<view, elected, output, control, pc, locals>>

-----------------------------------------------------------------------------
(* Calls and returns of the tailer.                                        *)

Goto(label) == pc' = label

Return(outcome) ==
  /\ pc' = "idle"
  /\ result' = outcome
  /\ UNCHANGED <<call, pos, count>>

\* the session the call waits for
Name == call.names[pos]

\* tailNotifications; recorded in ordered if tailNext calls it
tailNotifications(recorded) ==
  /\ noticed' = IF notices > noticed THEN notices ELSE noticed
  /\ ordered' = IF recorded /\ notices > noticed THEN Append(ordered, None) ELSE ordered
  /\ UNCHANGED out

Known(s) == view[s] # None
KnownEnded(s) == Known(s) /\ view[s].ended

\* TailAllBlocking begins with tailAll; TailBlocking puts its session on top
\* of the queue of those to elect, and returns at once if it knows it ended;
\* ClearSession and Clear take the lock of the scans.
Call(op, names) ==
  LET knownEnded == op = "TailBlocking" /\ KnownEnded(names[1])
      clears     == op \in {"ClearSession", "Clear"}
  IN
  /\ pc = "idle"
  /\ count < MaxCalls
  /\ clears => resync = None
  /\ call' = [op |-> op, names |-> names]
  /\ pos' = 1
  /\ count' = count + 1
  /\ blockingSessionsQueue' = IF op = "TailBlocking" THEN names \o blockingSessionsQueue ELSE blockingSessionsQueue
  /\ IF knownEnded \/ op = "TailSuppliedBlocking" THEN tailNotifications(FALSE) ELSE UNCHANGED output
  /\ result' = IF knownEnded THEN "ok" ELSE None
  /\ notEnded' = TRUE /\ tailed' = FALSE
  /\ toScan' = CASE op = "ClearSession" -> {names[1]}
                 [] op = "Clear"        -> {s \in Sessions : Known(s)}
                 [] OTHER               -> toScan
  /\ Goto(CASE op = "TailAllBlocking" -> "tailNext"
            [] knownEnded -> "idle"
            [] clears     -> "clear"
            [] OTHER      -> "loop")
  /\ UNCHANGED <<sink, view, sessionsByPriority, electedSession, ret, target, hasNextBefore>>

\* The test of the timeout at the head of each loop.
Timeout ==
  /\ pc = "loop"
  /\ Return("timeout")
  /\ UNCHANGED <<sink, view, elected, output, locals>>

\* scanSessions, that returns to the label back; not while Resync has the lock
Scan(back) ==
  /\ resync = None
  /\ toScan' = {s \in Sessions : ser[s] # None}
  /\ ret' = back
  /\ Goto("scan")

\* the body of the loop of the call
Loop ==
  /\ pc = "loop"
  /\ IF call.op = "TailSuppliedBlocking" /\ ~tailed THEN tailNotifications(FALSE) ELSE UNCHANGED output
  /\ CASE call.op \in {"TailOnlyBlocking", "TailSuppliedBlocking"} ->
            Scan("tailOnce") /\ UNCHANGED notEnded
       [] call.op = "TailBlocking" ->
            Goto("tailNext") /\ UNCHANGED <<toScan, ret, notEnded>>
       [] call.op = "TailAllBlocking" ->
            /\ notEnded' = \E s \in Sessions : Known(s) /\ ~view[s].ended
            /\ IF notEnded' THEN Scan("tailNext") ELSE Goto("tailNext") /\ UNCHANGED <<toScan, ret>>
  /\ UNCHANGED <<sink, view, elected, control, target, hasNextBefore, tailed>>

-----------------------------------------------------------------------------
(* scanSessions: one .ser file after the other.                            *)

lastSessionTmp(s) == Len(files[s])  \* mutant of firstSessionTmp

\* the first tmp file that is still there, or 0
firstSessionTmp(s) == IF removed[s] < Len(files[s]) THEN removed[s] + 1 ELSE 0

ScannedUnopened(s) ==  \* mutant of Scanned: no tmp file is opened
  IF Known(s)
  THEN [view[s] EXCEPT !.started = ser[s].started, !.ended = ser[s].ended]
  ELSE [started |-> ser[s].started, ended |-> ser[s].ended, file |-> 0, cursor |-> 0,
        open |-> FALSE, tailed |-> FALSE, flushed |-> FALSE]

\* A session that was not known is tailed from its first tmp file, if any.
Scanned(s) ==
  IF Known(s)
  THEN [view[s] EXCEPT !.started = ser[s].started, !.ended = ser[s].ended]
  ELSE [started |-> ser[s].started, ended |-> ser[s].ended, file |-> firstSessionTmp(s), cursor |-> 0,
        open |-> firstSessionTmp(s) # 0, tailed |-> FALSE, flushed |-> FALSE]

scanSessions ==
  /\ pc = "scan"
  /\ \/ \E s \in toScan :
          /\ toScan' = toScan \ {s}
          /\ view' = [view EXCEPT ![s] = Scanned(s)]
          /\ sessionsByPriority' =
               IF Known(s) THEN sessionsByPriority
               ELSE [sessionsByPriority EXCEPT ![Priority[s]] = Append(@, s)]
          /\ UNCHANGED pc
     \/ /\ toScan = {}
        /\ Goto(ret)
        /\ UNCHANGED <<view, sessionsByPriority, toScan>>
  /\ UNCHANGED <<sink, electedSession, blockingSessionsQueue, output, control, ret, target, hasNextBefore, notEnded, tailed>>

-----------------------------------------------------------------------------
(* tailSession.                                                            *)

\* whether a tmp file follows the current one in the directory of the session
hasNextSessionTmp(s) == removed[s] < view[s].file /\ view[s].file < Len(files[s])

\* tailOnce: a session that does not exist is not tailed.
tailOnce ==
  /\ pc = "tailOnce"
  /\ target' = Name
  /\ Goto(IF Known(Name) THEN "tailSession" ELSE "tailed")
  /\ UNCHANGED <<sink, view, elected, output, control, ret, toScan, hasNextBefore, notEnded, tailed>>

\* nothing is left to tail
Finished(v) == v.ended /\ v.flushed /\ v.tailed

tailSession ==
  /\ pc = "tailSession"
  /\ IF Finished(view[target])
     THEN Goto("tailed") /\ UNCHANGED <<view, hasNextBefore>>
     ELSE /\ view' = [view EXCEPT ![target].tailed = TRUE]
          /\ hasNextBefore' = hasNextSessionTmp(target)
          /\ Goto("copy")
  /\ UNCHANGED <<sink, elected, output, control, ret, toScan, target, notEnded, tailed>>

\* CopyChunk, up to the end of the file; it fails on a closed file, and panics
\* if there is none: the tailer process is gone.
CopyChunk ==
  LET v == view[target]
      size == files[target][v.file]
  IN
  /\ pc = "copy"
  /\ IF v.open
     THEN /\ out' = out \o Chunks(target, v.file, v.cursor + 1, size)
          /\ ordered' = IF v.cursor < size /\ call.op \in Elections THEN Append(ordered, target) ELSE ordered
          /\ UNCHANGED noticed
          /\ view' = [view EXCEPT ![target].cursor = size]
          /\ Goto("next")
          /\ UNCHANGED control
     ELSE /\ IF v.file = 0 THEN Goto("panicked") /\ UNCHANGED control ELSE Return("error")
          /\ UNCHANGED <<output, view>>
  /\ UNCHANGED <<sink, elected, locals>>

\* updateNextSessionTmp: on to the next tmp file
NextTmp(v) ==
  [v EXCEPT !.file = @ + 1, !.cursor = 0, !.open = TRUE, !.tailed = FALSE, !.flushed = FALSE]

\* The end of the loop of tailSession: the current file may have got chunks
\* until the next one appeared, so it is copied once more before it is left.
updateNextSessionTmp ==
  /\ pc = "next"
  /\ \/ /\ hasNextSessionTmp(target) /\ ~hasNextBefore
        /\ hasNextBefore' = TRUE
        /\ Goto("copy")
        /\ UNCHANGED view
     \/ /\ hasNextSessionTmp(target) /\ hasNextBefore
        /\ view' = [view EXCEPT ![target] = NextTmp(@)]
        /\ Goto("copy")
        /\ UNCHANGED hasNextBefore
     \/ /\ ~hasNextSessionTmp(target)
        /\ IF view[target].ended
           THEN view' = [view EXCEPT ![target].flushed = TRUE, ![target].open = FALSE]
           ELSE UNCHANGED view
        /\ Goto("tailed")
        /\ UNCHANGED hasNextBefore
  /\ UNCHANGED <<sink, elected, output, control, ret, toScan, target, notEnded, tailed>>

-----------------------------------------------------------------------------
(* tailNext: electSession, then tailSession, with the notices before a     *)
(* session that is not tailed yet and after one that is ended; tailAll:    *)
(* tailNext again as long as it ends a session.                            *)

NotTailed == electedSession' # None => ~view[electedSession'].tailed

electSession ==
  /\ pc = "tailNext"
  /\ UNCHANGED elected
  /\ IF electedSession = None
     THEN Scan("pick") /\ UNCHANGED <<view, target, output>>
     ELSE /\ IF NotTailed THEN tailNotifications(TRUE) ELSE UNCHANGED output
          /\ view' = [view EXCEPT ![electedSession] = Scanned(electedSession)]
          /\ target' = electedSession
          /\ Goto("tailSession")
          /\ UNCHANGED <<ret, toScan>>
  /\ UNCHANGED <<sink, control, hasNextBefore, notEnded, tailed>>

Listed(s) == s \in Range(sessionsByPriority[Priority[s]])

EligibleAgain(s) == Listed(s) /\ view[s].started  \* mutant of Eligible

EligibleOpened(s) ==  \* mutant of Eligible: an ended session is skipped
  Listed(s) /\ view[s].started /\ ~view[s].ended

\* the sessions the second loop of electSession does not skip
Eligible(s) == Listed(s) /\ view[s].started /\ ~(view[s].ended /\ view[s].flushed)

\* the first of them, lowest priority number first
Foremost(s) ==
  /\ Eligible(s)
  /\ \A r \in Sessions \ {s} : Eligible(r) =>
       \/ Priority[s] < Priority[r]
       \/ /\ Priority[s] = Priority[r]
          /\ LET list == sessionsByPriority[Priority[s]]
             IN  \E i, j \in DOMAIN list : list[i] = s /\ list[j] = r /\ i < j

\* The names at the front of the queue that are not known are dropped.
Elect(s) ==
  /\ electedSession' = s
  /\ target' = s
  /\ Goto("tailSession")

electNext ==
  LET known == {i \in DOMAIN blockingSessionsQueue : Known(blockingSessionsQueue[i])} IN
  /\ pc = "pick"
  /\ \/ \E first \in known :
          /\ \A i \in known : first <= i
          /\ blockingSessionsQueue' = SubSeq(blockingSessionsQueue, first + 1, Len(blockingSessionsQueue))
          /\ Elect(blockingSessionsQueue[first])
     \/ /\ known = {}
        /\ blockingSessionsQueue' = <<>>
        /\ \/ \E s \in Sessions : Foremost(s) /\ Elect(s)
           \/ /\ \A s \in Sessions : ~Eligible(s)
              /\ Goto("tailed")
              /\ UNCHANGED <<electedSession, target>>
  /\ IF NotTailed THEN tailNotifications(TRUE) ELSE UNCHANGED output
  /\ UNCHANGED <<sink, view, sessionsByPriority, control, ret, toScan, hasNextBefore, notEnded, tailed>>

-----------------------------------------------------------------------------
(* After tailOnce or tailNext, in each of the calls.                       *)

ElectedAny == electedSession # None  \* mutant of ElectedEnded

ElectedEnded == electedSession # None /\ view[electedSession].ended

\* tailAll goes on
tailedNext ==
  /\ pc = "tailed"
  /\ call.op \in {"TailBlocking", "TailAllBlocking"}
  /\ ElectedEnded
  /\ electedSession' = None
  /\ tailNotifications(TRUE)
  /\ Goto("tailNext")
  /\ UNCHANGED <<sink, view, sessionsByPriority, blockingSessionsQueue, control, locals>>

\* tailAll returns
tailedAll ==
  /\ pc = "tailed"
  /\ call.op = "TailAllBlocking"
  /\ ~ElectedEnded
  /\ IF notEnded THEN Goto("loop") /\ UNCHANGED control ELSE Return("ok")
  /\ UNCHANGED <<sink, view, elected, output, locals>>

\* TailBlocking and TailOnlyBlocking: a session that is not ended is scanned
\* before the test of the loop, which is of the session as it was found before
\* the scan: one that only the scan found is still to be tailed.
tailedOne ==
  /\ pc = "tailed"
  /\ \/ call.op = "TailOnlyBlocking"
     \/ call.op = "TailBlocking" /\ ~ElectedEnded
  /\ IF KnownEnded(Name) THEN Goto("test") /\ UNCHANGED <<ret, toScan>>
     ELSE Scan(IF Known(Name) THEN "test" ELSE "found")
  /\ UNCHANGED <<sink, view, elected, output, control, target, hasNextBefore, notEnded, tailed>>

\* TailOnlyBlocking reads the .ser file once more when the session ended.
TestEnded ==
  /\ pc = "test"
  /\ IF KnownEnded(Name) THEN Return("ok") ELSE Goto("loop") /\ UNCHANGED control
  /\ view' = IF call.op = "TailOnlyBlocking" /\ KnownEnded(Name)
             THEN [view EXCEPT ![Name] = Scanned(Name)]
             ELSE view
  /\ IF call.op = "TailBlocking" /\ KnownEnded(Name) THEN tailNotifications(FALSE) ELSE UNCHANGED output
  /\ UNCHANGED <<sink, elected, locals>>

\* TailOnlyBlocking returns if the session does not exist.
TestFound ==
  /\ pc = "found"
  /\ IF call.op = "TailOnlyBlocking" /\ ~Known(Name)
     THEN Return("ok")
     ELSE Goto("loop") /\ UNCHANGED control
  /\ UNCHANGED <<sink, view, elected, output, locals>>

\* TailSuppliedBlocking: the next name once this one is ended
tailedSupplied ==
  /\ pc = "tailed"
  /\ call.op = "TailSuppliedBlocking"
  /\ IF KnownEnded(Name)
     THEN /\ view' = [view EXCEPT ![Name] = Scanned(Name)]
          /\ tailed' = FALSE
          /\ IF pos < Len(call.names)
             THEN pos' = pos + 1 /\ Goto("loop") /\ UNCHANGED <<call, count, result, output>>
             ELSE Return("ok") /\ tailNotifications(FALSE)
     ELSE /\ tailed' = (Known(Name) /\ view[Name].tailed)
          /\ Goto("loop")
          /\ UNCHANGED <<control, view, output>>
  /\ UNCHANGED <<sink, elected, ret, toScan, target, hasNextBefore, notEnded>>

-----------------------------------------------------------------------------
(* ClearSession and Clear, of the sessions in toScan.                      *)

\* the directory of the session is removed, with all its tmp files
Emptied(s) == removed' = [removed EXCEPT ![s] = Len(files[s])]

\* without s, in the same order
Delete(list, s) ==
  IF s \in Range(list) THEN RemoveAt(list, CHOOSE i \in DOMAIN list : list[i] = s) ELSE list

clearSession ==
  /\ pc = "clear"
  /\ \E s \in toScan :
       /\ sessionsByPriority' = [sessionsByPriority EXCEPT ![Priority[s]] = Delete(@, s)]
       /\ electedSession' = IF electedSession = s THEN None ELSE electedSession
       /\ Emptied(s)
       /\ target' = s
  /\ Goto("cleared")
  /\ UNCHANGED <<session, ser, files, resync, resyncs, notices, view, blockingSessionsQueue, output, control,
                 ret, toScan, hasNextBefore, notEnded, tailed>>

\* session.clear, of a session of the tailer
clear(s) ==
  /\ view' = [view EXCEPT ![s] = None]
  /\ IF Known(s) THEN Emptied(s) ELSE UNCHANGED removed

\* Then the .ser file, and the session of the tailer: if it is not ended the
\* tailer keeps it and the call fails, with the files already gone.
clearSessionsMap ==
  /\ pc = "cleared"
  /\ ser' = [ser EXCEPT ![target] = None]
  /\ IF Known(target) /\ ~view[target].ended
     THEN Return("error") /\ UNCHANGED <<view, removed, toScan>>
     ELSE /\ clear(target)
          /\ toScan' = toScan \ {target}
          /\ Goto("clear")
          /\ UNCHANGED control
  /\ UNCHANGED <<session, files, resync, resyncs, notices, elected, output,
                 ret, target, hasNextBefore, notEnded, tailed>>

ClearReturns ==
  /\ pc = "clear" /\ toScan = {}
  /\ Return("ok")
  /\ UNCHANGED <<sink, view, elected, output, locals>>

-----------------------------------------------------------------------------
Names(op) == CASE op \in {"TailAllBlocking", "Clear"} -> {<<>>}
               [] op = "TailSuppliedBlocking" -> SetToSeqs(Sessions)
               [] OTHER -> {<<s>> : s \in Sessions}

Work ==
  \/ Loop \/ scanSessions \/ tailOnce \/ tailSession \/ CopyChunk
  \/ updateNextSessionTmp \/ electSession \/ electNext
  \/ tailedNext \/ tailedAll \/ tailedOne \/ TestEnded \/ TestFound \/ tailedSupplied
  \/ clearSession \/ clearSessionsMap \/ ClearReturns

\* Everything the tailer and the sink may do is done.
Quiet == pc \in {"idle", "panicked"} /\ UNCHANGED vars

Next == Sink \/ (\E op \in Calls : \E n \in Names(op) : Call(op, n)) \/ Timeout \/ Work \/ Quiet

Spec == Init /\ [][Next]_vars

\* The tailer runs; nothing obliges the sink to do anything but to end a Resync.
FairSpec == Spec /\ WF_vars(Work) /\ WF_vars(Sink /\ resync # None /\ resync' = None)

-----------------------------------------------------------------------------
(* Properties.                                                             *)

Labels == {"idle", "loop", "scan", "tailOnce", "tailSession", "copy", "next",
           "tailNext", "pick", "tailed", "test", "found", "clear", "cleared", "panicked"}

\* Every variable has its type.
TypeOK ==
  /\ session \in [Sessions -> Session \cup {None}]
  /\ ser \in [Sessions -> Serialized \cup {None}]
  /\ files \in [Sessions -> Seq(Nat)]
  /\ \A s \in Sessions : removed[s] \in 0 .. Len(files[s])
  /\ resync = None \/ resync \in [Sessions -> Serialized \cup {None}]
  /\ notices \in Nat /\ noticed \in Nat /\ resyncs \in Nat
  /\ view \in [Sessions -> View \cup {None}]
  /\ \A s \in Sessions : Known(s) =>
       /\ view[s].file \in 0 .. Len(files[s])
       /\ view[s].file = 0 => ~view[s].open /\ removed[s] > 0
  /\ sessionsByPriority \in [Priorities -> Seq(Sessions)]
  /\ electedSession \in Sessions \cup {None}
  /\ blockingSessionsQueue \in Seq(Sessions)
  /\ out \in Seq(Chunk) /\ ordered \in Seq(Sessions \cup {None})
  /\ call = None \/ call \in [op : Methods, names : Seq(Sessions)]
  /\ pos \in Nat /\ count \in Nat
  /\ pc \in Labels /\ ret \in Labels
  /\ toScan \subseteq Sessions
  /\ target \in Sessions \cup {None}
  /\ hasNextBefore \in BOOLEAN /\ notEnded \in BOOLEAN /\ tailed \in BOOLEAN
  /\ result \in Results \cup {None}

\* everything session s has in its tmp files is output
Tailed(s) == \A run \in DOMAIN files[s] : \A n \in 1 .. files[s][run] :
               [session |-> s, run |-> run, number |-> n] \in Range(out)

\* The chunks of one session are output once each and in the order they were
\* written, run after run, none of them skipped: the tailer leaves a tmp file
\* only when nothing can be added to it.
TailedInOrder ==
  \A j \in DOMAIN out :
    LET c == out[j]
        Before(run, number) == \E i \in 1 .. j - 1 : out[i] = [session |-> c.session, run |-> run, number |-> number]
    IN  /\ \A n \in 1 .. c.number - 1 : Before(c.run, n)
        /\ \A run \in removed[c.session] + 1 .. c.run - 1 : \A n \in 1 .. files[c.session][run] : Before(run, n)
        /\ ~Before(c.run, c.number)

\* "Tail all opened sessions in order": what TailBlocking and TailAllBlocking
\* output of one session is not cut by another one, over all their calls:
\* once another session follows, the first is flushed for good.  "Tail
\* notifications between sessions": nor is it cut by a notice, unless it went
\* through a restart of the sink (a session is not tailed when it goes on to
\* its next tmp file, and the notices go before a session that is not tailed).
SessionsNeverInterleave ==
  \A i, j \in DOMAIN ordered :
    (/\ i < j
     /\ ordered[i] \notin {ordered[j], None}
     /\ ordered[j] # None \/ Len(files[ordered[i]]) <= 1) => view[ordered[i]].flushed

\* When TailSuppliedBlocking returns, everything of its sessions is output;
\* when TailAllBlocking finds that no session is left to wait for, everything
\* of the sessions it knows is output, if they were started.  (Of a session
\* that its last scan discovers it may output nothing.)
EverythingTailed ==
  [][/\ (pc # "idle" /\ pc' = "idle" /\ result' = "ok" /\ call.op = "TailSuppliedBlocking")
          => \A i \in DOMAIN call.names : Tailed(call.names[i])'
     /\ (notEnded /\ ~notEnded' /\ call.op = "TailAllBlocking")
          => \A s \in Sessions : (Known(s) /\ view[s].started) => Tailed(s)]_vars

\* When the sessions have ended, whatever the order, every call returns, but one
\* that panics on a session whose tmp files are removed.
CallsReturn ==
  <>[](\A s \in Sessions : serEnded(s)) =>
    (pc # "idle" ~> (pc = "idle" \/ (pc = "panicked" /\ removed[target] > 0)))
=============================================================================
