--------------------------- MODULE ZSession_proofs ---------------------------
(* Theorems about ZSession, for every set of printers, priorities and       *)
(* goroutines.                                                               *)
EXTENDS ZSession, SequenceTheorems, FiniteSetTheorems, TLAPS

USE PriorityAssumption, NoneAssumption

\* Priorities are numbers, and nil is not one of them.
LEMMA PrioritiesType == /\ Priorities \subseteq Int
                        /\ None \notin Priorities
                        /\ \A p \in Printers : Priority[p] \in Priorities
  BY DEF Priorities

\* nil is not a goroutine: an unlocked mutex is held by nobody.
LEMMA NoneNotProc == None \notin Procs
  BY DEF Procs

\* nextPriority returns nil or a priority it may select.
LEMMA NextPriorityType ==
  /\ NextPriority \in Priorities \cup {None}
  /\ NextPriority # None => Selected(NextPriority)
<1>1. CASE \E k \in Priorities : Selected(k)
  BY <1>1, PrioritiesType DEF NextPriority
<1>2. CASE ~ \E k \in Priorities : Selected(k)
  BY <1>2 DEF NextPriority
<1>3. QED BY <1>1, <1>2

\* What CopyChunk reads is a sequence of chunks.
LEMMA FreshType ==
  ASSUME TypeOK, NEW p \in AllPrinters
  PROVE  Fresh(p) \in Seq(Chunk)
<1>1. written[p] - cursor[p] \in Int /\ cursor[p] \in Nat
  BY DEF TypeOK
<1>2. CASE written[p] - cursor[p] < 0
  <2>1. 1 .. (written[p] - cursor[p]) = {}
    BY <1>1, <1>2
  <2>2. Fresh(p) = << >>
    BY <2>1 DEF Fresh
  <2>3. QED BY <2>2
<1>3. CASE written[p] - cursor[p] >= 0
  <2>1. \A i \in 1 .. (written[p] - cursor[p]) :
          [printer |-> p, number |-> cursor[p] + i] \in Chunk
    BY <1>1 DEF Chunk
  <2>2. QED BY <1>1, <1>3, <2>1 DEF Fresh
<1>4. QED BY <1>1, <1>2, <1>3

(***************************************************************************)
(* Type correctness.                                                       *)
(***************************************************************************)
\* consolidatePrinter works on a printer of the session or on the notifier.
LEMMA TargetType ==
  ASSUME TypeOK, LockInv, NEW s \in Procs, InLoop(s) \/ index[s] = 0
  PROVE  Target(s) \in AllPrinters
<1>1. CASE index[s] = 0
  BY <1>1 DEF Target, AllPrinters
<1>2. CASE InLoop(s) /\ index[s] # 0
  <2>1. currentPriority \in Priorities /\ index[s] \in DOMAIN printersByPriority[currentPriority]
    BY <1>2 DEF LockInv, TypeOK
  <2>2. printersByPriority[currentPriority] \in Seq(Printers)
    BY <2>1 DEF TypeOK
  <2>3. printersByPriority[currentPriority][index[s]] \in Printers
    BY <2>1, <2>2, ElementOfSeq
  <2>4. QED BY <1>2, <2>3 DEF Target, AllPrinters
<1>3. QED BY <1>1, <1>2 DEF InLoop, TypeOK

\* buildSession gives every variable its type.
LEMMA InitType == Init => TypeOK
<1> SUFFICES ASSUME Init PROVE TypeOK
  OBVIOUS
<1>1. printersByPriority \in [Priorities -> Seq(Printers)] /\ tmpOut \in Seq(Chunk)
  BY DEF Init
<1>2. started \in BOOLEAN /\ ended \in BOOLEAN /\ serEnded \in BOOLEAN
  BY DEF Init
<1>3. QED BY <1>1, <1>2 DEF Init, TypeOK, Labels

\* closePrinter keeps the types.
LEMMA closePrinterType ==
  ASSUME TypeOK, NEW p \in Printers, closePrinter(p)
  PROVE  /\ open' \in [AllPrinters -> BOOLEAN]
         /\ consolidated' \in [AllPrinters -> BOOLEAN]
         /\ promised' \in [AllPrinters -> Nat]
<1>1. p \in AllPrinters
  BY DEF AllPrinters
<1>2. CASE open[p]
  BY <1>1, <1>2 DEF closePrinter, TypeOK
<1>3. CASE ~open[p]
  BY <1>3 DEF closePrinter, TypeOK
<1>4. QED BY <1>2, <1>3

\* The end of consolidateAll keeps the types.
LEMMA SelectType ==
  ASSUME TypeOK, NEW s \in Procs, Select(s)
  PROVE  /\ currentPriority' \in Priorities \cup {None}
         /\ printed' \in BOOLEAN
         /\ mutex' \in Procs \cup {None}
         /\ pc' \in [Procs -> Labels]
         /\ index' \in [Procs -> Nat]
         /\ opened' \in [Procs -> BOOLEAN]
<1>1. CASE NextPriority = None
  BY <1>1 DEF Select, Unlock, AfterFlush, Goto, TypeOK, Labels
<1>2. CASE NextPriority # None
  <2>1. NextPriority \in Priorities
    BY <1>2, NextPriorityType
  <2>2. printed' = TRUE /\ Begin(s, NextPriority)
    BY <1>2 DEF Select
  <2>3. QED BY <2>1, <2>2 DEF Begin, Goto, TypeOK, Labels
<1>3. QED BY <1>1, <1>2

\* Every step keeps the types.
LEMMA TypeStep == TypeOK /\ LockInv /\ [Next]_vars => TypeOK'
<1> SUFFICES ASSUME TypeOK, LockInv, [Next]_vars PROVE TypeOK'
  OBVIOUS
<1> USE DEF TypeOK, Labels
<1>1. CASE Start
  BY <1>1 DEF Start, flagVars, fileVars, procVars, locals
<1>2. ASSUME NEW p \in Printers, Printer(p) PROVE TypeOK'
  BY <1>2, PrioritiesType DEF Printer, sessionVars, selectVars, flagVars, fileVars, procVars, locals
<1>3. ASSUME NEW p \in Printers, ClosePrinter(p) PROVE TypeOK'
  BY <1>3, closePrinterType DEF ClosePrinter, sessionVars, selectVars, fileVars, procVars, locals
<1>4. ASSUME NEW p \in AllPrinters, Out(p) PROVE TypeOK'
  <2>1. chunks' \in [AllPrinters -> Nat]
    BY <1>4 DEF Out
  <2>2. QED BY <1>4, <2>1 DEF Out, sessionVars, selectVars, flagVars, fileVars, procVars, locals
<1>5. ASSUME NEW p \in AllPrinters, FlushPrinter(p) PROVE TypeOK'
  BY <1>5 DEF FlushPrinter, sessionVars, selectVars, flagVars, procVars, locals
<1>6. ASSUME NEW s \in Procs, FlushBlocking(s) PROVE TypeOK'
  BY <1>6 DEF FlushBlocking, Goto, shared, sessionVars, printing, selectVars, flagVars, fileVars, locals
<1>7. ASSUME NEW s \in Procs, FlushTest(s) PROVE TypeOK'
  BY <1>7 DEF FlushTest, AfterFlush, Goto, shared, sessionVars, printing, selectVars, flagVars, fileVars, locals
<1>8. ASSUME NEW s \in Procs, FlushLock(s) PROVE TypeOK'
  <2> USE <1>8 DEF FlushLock, Goto, AfterFlush, sessionVars, selectVars, flagVars, fileVars
  <2>1. CASE currentPriority # None /\ Begin(s, currentPriority) /\ UNCHANGED printed
    BY <2>1 DEF Begin
  <2>2. CASE Select(s)
    BY <2>2, SelectType
  <2>3. CASE /\ mutex' = s
             /\ index' = [index EXCEPT ![s] = 0]
             /\ Goto(s, "consolidate")
             /\ UNCHANGED <<selectVars, opened>>
    BY <2>3
  <2>4. QED BY <2>1, <2>2, <2>3
<1>9. ASSUME NEW s \in Procs, FlushTarget(s) PROVE TypeOK'
  <2>1. Target(s) \in AllPrinters
    BY <1>9, TargetType DEF FlushTarget, InLoop
  <2> USE <1>9 DEF FlushTarget, Goto, sessionVars, selectVars, flagVars
  <2>2. CASE Unlock(s) /\ UNCHANGED written
    BY <2>2 DEF Unlock, AfterFlush
  <2>3. CASE ~(closed[Target(s)] /\ written[Target(s)] < chunks[Target(s)])
    <3>1. /\ written' = [written EXCEPT ![Target(s)] = chunks[Target(s)]]
          /\ UNCHANGED <<mutex, index, opened>>
          /\ pc' = [pc EXCEPT ![s] = "advance"] \/ pc' = [pc EXCEPT ![s] = "copy"]
      BY <2>3
    <3>2. QED BY <2>1, <3>1
  <2>4. QED BY <2>2, <2>3
<1>10. ASSUME NEW s \in Procs, Copy(s) PROVE TypeOK'
  <2>1. Target(s) \in AllPrinters
    BY <1>10, TargetType DEF Copy, InLoop
  <2>2. Fresh(Target(s)) \in Seq(Chunk)
    BY <2>1, FreshType
  <2>3. (tmpOut \o Fresh(Target(s))) \in Seq(Chunk)
    BY <2>2
  <2>4. copied' \in [Procs -> Nat]
    BY <1>10, <2>1 DEF Copy, CopiedLength
  <2>5. QED
    BY <1>10, <2>3, <2>4 DEF Copy, Goto, sessionVars, selectVars, flagVars
<1>11. ASSUME NEW s \in Procs, Mark(s) PROVE TypeOK'
  <2>1. Target(s) \in AllPrinters
    BY <1>11, TargetType DEF Mark, InLoop
  <2>2. cursor' \in [AllPrinters -> Nat]
    <3>1. cursor' = [cursor EXCEPT ![Target(s)] = @ + copied[s]]
      BY <1>11 DEF Mark
    <3>2. cursor[Target(s)] + copied[s] \in Nat
      BY <2>1
    <3>3. QED BY <2>1, <3>1, <3>2
  <2>3. consolidated' \in [AllPrinters -> BOOLEAN] /\ closed' \in [AllPrinters -> BOOLEAN]
    BY <1>11, <2>1 DEF Mark
  <2>4. QED
    BY <1>11, <2>2, <2>3 DEF Mark, Goto, sessionVars, selectVars, locals
<1>12. ASSUME NEW s \in Procs, Advance(s) PROVE TypeOK'
  <2> USE <1>12 DEF Advance, SomeOpen, Goto, AfterFlush, sessionVars, selectVars, flagVars, fileVars
  <2>1. Target(s) \in AllPrinters
    BY TargetType DEF InLoop
  <2>2. CASE /\ index' = [index EXCEPT ![s] = @ + 1]
             /\ opened' = [opened EXCEPT ![s] = SomeOpen(s)]
             /\ Goto(s, "consolidate")
             /\ UNCHANGED <<selectVars, mutex>>
    <3>1. index' \in [Procs -> Nat]
      BY <2>2
    <3>2. opened' \in [Procs -> BOOLEAN]
      <4>1. SomeOpen(s) \in BOOLEAN
        BY <2>1
      <4> HIDE DEF SomeOpen
      <4> QED
        BY <2>2, <4>1
    <3>3. pc' \in [Procs -> Labels]
      BY <2>2
    <3> QED BY <2>2, <3>1, <3>2, <3>3
  <2>3. CASE Unlock(s) /\ UNCHANGED selectVars
    BY <2>3 DEF Unlock
  <2>4. CASE Select(s)
    BY <2>4, SelectType
  <2>5. QED BY <2>2, <2>3, <2>4
<1>13. ASSUME NEW s \in Procs, AdvanceNotifier(s) PROVE TypeOK'
  BY <1>13 DEF AdvanceNotifier, Unlock, Goto, AfterFlush, sessionVars, selectVars, flagVars, fileVars
<1>14. ASSUME NEW s \in Procs, End(s) PROVE TypeOK'
  BY <1>14 DEF End, Goto, Created, shared, sessionVars, printing, selectVars, flagVars, fileVars
<1>15. ASSUME NEW s \in Procs, ClosePrinters(s) PROVE TypeOK'
  <2>1. PICK p \in Printers : closePrinter(p) /\ toClose' = [toClose EXCEPT ![s] = @ \ {p}]
    BY <1>15 DEF ClosePrinters, Created
  <2>2. QED
    BY <1>15, <2>1, closePrinterType DEF ClosePrinters, sessionVars, selectVars, fileVars
<1>16. ASSUME NEW s \in Procs, ClosedPrinters(s) PROVE TypeOK'
  BY <1>16 DEF ClosedPrinters, Goto, shared, sessionVars, printing, selectVars, flagVars, fileVars, locals
<1>17. ASSUME NEW s \in Procs, Notify(s) PROVE TypeOK'
  BY <1>17 DEF Notify, Goto, shared, sessionVars, printing, selectVars, flagVars, fileVars
<1>18. ASSUME NEW s \in Procs, SetEnded(s) PROVE TypeOK'
  BY <1>18 DEF SetEnded, Goto, printing, selectVars, flagVars, fileVars, locals
<1>19. ASSUME NEW s \in Procs, Serialize(s) PROVE TypeOK'
  BY <1>19 DEF Serialize, Goto, printing, selectVars, flagVars, fileVars, locals
<1>20. ASSUME NEW s \in Procs, TimerWakes(s) PROVE TypeOK'
  BY <1>20 DEF TimerWakes, Goto, shared, sessionVars, printing, selectVars, flagVars, fileVars, locals
<1>21. ASSUME NEW s \in Procs, TimerLate(s) PROVE TypeOK'
  BY <1>21 DEF TimerLate, Goto, shared, sessionVars, printing, selectVars, flagVars, fileVars, locals
<1>22. ASSUME NEW s \in Procs, SetTimeouted(s) PROVE TypeOK'
  BY <1>22 DEF SetTimeouted, Goto, printing, selectVars, flagVars, fileVars, locals
<1>23. CASE UNCHANGED vars
  BY <1>23 DEF vars, shared, sessionVars, printing, selectVars, flagVars, fileVars, procVars, locals
<1>24. QED
  BY <1>1, <1>2, <1>3, <1>4, <1>5, <1>6, <1>7, <1>8, <1>9, <1>10, <1>11, <1>12,
     <1>13, <1>14, <1>15, <1>16, <1>17, <1>18, <1>19, <1>20, <1>21, <1>22, <1>23
     DEF Next, User, Flush, Close, Quiet

(***************************************************************************)
(* The inductive invariant.                                                *)
(***************************************************************************)
\* What holds of the goroutine that is in the loop of consolidateAll.
LEMMA InLoopFacts ==
  ASSUME IInv, NEW s \in Procs, InLoop(s)
  PROVE  /\ mutex = s
         /\ currentPriority \in Priorities
         /\ printersByPriority[currentPriority] \in Seq(Printers)
         /\ index[s] \in 1 .. Len(printersByPriority[currentPriority])
         /\ Target(s) = printersByPriority[currentPriority][index[s]]
         /\ Target(s) \in Printers
         /\ Target(s) \in Created
         /\ Priority[Target(s)] = currentPriority
         /\ \A t \in Procs : InLoop(t) => t = s
<1>1. mutex = s /\ currentPriority # None /\ index[s] \in DOMAIN printersByPriority[currentPriority]
  BY DEF IInv, LockInv
<1>2. currentPriority \in Priorities
  BY <1>1 DEF IInv, TypeOK
<1>3. printersByPriority[currentPriority] \in Seq(Printers)
  BY <1>2 DEF IInv, TypeOK
<1>4. Target(s) = printersByPriority[currentPriority][index[s]]
  BY DEF Target, InLoop, IInv, TypeOK
<1>5. Target(s) \in Printers
  BY <1>1, <1>3, <1>4, ElementOfSeq
<1>6. Priority[Target(s)] = currentPriority
  BY <1>1, <1>2, <1>4 DEF IInv, ListInv
<1>7. Target(s) \in Created
  BY <1>1, <1>4, <1>5, <1>6 DEF Created
<1>8. \A t \in Procs : InLoop(t) => t = s
  BY <1>1 DEF IInv, LockInv
<1>9. QED
  BY <1>1, <1>2, <1>3, <1>4, <1>5, <1>6, <1>7, <1>8

\* Steps that leave the loop and the printers alone.
LEMMA Frame ==
  ASSUME IInv, NotifierInv',
         UNCHANGED <<currentPriority, printersByPriority, tmpOut>>,
         \A p \in Printers :
           /\ open'[p] = open[p] /\ consolidated'[p] = consolidated[p]
           /\ closed'[p] = closed[p] /\ promised'[p] = promised[p]
           /\ chunks'[p] = chunks[p] /\ written'[p] = written[p]
           /\ cursor'[p] = cursor[p],
         \A t \in Procs : InLoop(t)' =>
           /\ InLoop(t) /\ mutex' = mutex
           /\ pc'[t] = pc[t] /\ index'[t] = index[t]
           /\ opened'[t] = opened[t] /\ copied'[t] = copied[t],
         \A t \in Procs : InLoop(t) /\ pc[t] = "mark" => InLoop(t)'
  PROVE  /\ ListInv' /\ LockInv' /\ LoopInv' /\ LogInv' /\ CursorInv'
         /\ CopyInv' /\ TakenInv' /\ PrioritiesNeverInterleave' /\ ExactlyOnce'
<1> USE DEF IInv
<1>1. ListInv' /\ LockInv'
  BY DEF ListInv, LockInv
<1>2. ASSUME NEW t \in Procs, InLoop(t)'
      PROVE  Target(t)' = Target(t) /\ Target(t) \in Printers
  BY <1>2, InLoopFacts DEF Target
<1>3. \A p \in Printers : Done(p)' = Done(p)
  BY DEF Done
<1>4. Created' = Created
  BY DEF Created
<1>5. LoopInv'
  <2> SUFFICES ASSUME NEW t \in Procs, InLoop(t)'
               PROVE  /\ ~opened'[t] => \A i \in 1 .. index'[t] - 1 :
                           Done(printersByPriority[currentPriority][i])'
                      /\ pc'[t] = "advance" /\ ~open'[Target(t)'] => Done(Target(t))'
    BY DEF LoopInv
  <2>1. \A i \in 1 .. index[t] - 1 : printersByPriority[currentPriority][i] \in Printers
    BY InLoopFacts, ElementOfSeq
  <2>2. QED BY <1>2, <1>3, <2>1 DEF LoopInv, Done
<1>6. LogInv' /\ PrioritiesNeverInterleave'
  <2>1. LogInv'
    BY <1>3, <1>4 DEF LogInv, Created
  <2>2. PrioritiesNeverInterleave'
    BY <1>3 DEF PrioritiesNeverInterleave
  <2>3. QED BY <2>1, <2>2
<1>7. CursorInv'
  BY DEF CursorInv
<1>8. CopyInv'
  BY <1>2 DEF CopyInv
<1>9. \A t \in Procs, p \in Printers : Copying(t, p)' <=> Copying(t, p)
  BY <1>2 DEF Copying, InLoop, TypeOK, Target
<1>10. TakenInv'
  BY <1>9 DEF TakenInv, InTmpOut, Copying, InLoop
<1>11. ExactlyOnce'
  BY DEF ExactlyOnce
<1>12. QED
  BY <1>1, <1>5, <1>6, <1>7, <1>8, <1>10, <1>11

\* TypeStep gives the type; SafeInv is the rest of the invariant.
SafeInv == /\ ListInv /\ NotifierInv /\ LockInv /\ LoopInv /\ LogInv
           /\ CursorInv /\ CopyInv /\ TakenInv
           /\ PrioritiesNeverInterleave /\ ExactlyOnce

InLoopLabels == {"consolidate", "copy", "mark", "advance"}

\* The steps that move a goroutine outside the loop, and Start.
LEMMA OutsideLoop ==
  ASSUME IInv, NEW s \in Procs, pc[s] \notin InLoopLabels,
         UNCHANGED <<currentPriority, printersByPriority, mutex, flagVars, chunks, fileVars,
                     opened, copied>>,
         \A t \in Procs \ {s} : pc'[t] = pc[t] /\ index'[t] = index[t],
         pc'[s] \notin InLoopLabels \/ index'[s] = 0
  PROVE  SafeInv'
<1>1. NotifierInv'
  BY DEF IInv, NotifierInv, flagVars
<1>2. \A t \in Procs : InLoop(t)' => InLoop(t) /\ pc'[t] = pc[t] /\ index'[t] = index[t]
  BY DEF InLoop, InLoopLabels
<1>3. \A t \in Procs : InLoop(t) /\ pc[t] = "mark" => InLoop(t)'
  BY DEF InLoop, InLoopLabels
<1>4. QED
  BY <1>1, <1>2, <1>3, Frame DEF SafeInv, flagVars, fileVars

\* A step that changes nothing.
LEMMA StutterStep == IInv /\ UNCHANGED vars => SafeInv'
<1> SUFFICES ASSUME IInv, UNCHANGED vars PROVE SafeInv'
  OBVIOUS
<1> USE DEF vars, shared, printing, selectVars, flagVars, fileVars, procVars, locals
<1>1. NotifierInv'
  BY DEF IInv, NotifierInv
<1>2. \A t \in Procs : (InLoop(t)' <=> InLoop(t))
  BY DEF InLoop
<1>3. QED
  BY <1>1, <1>2, Frame DEF SafeInv

\* session.Start changes nothing the loop reads.
LEMMA StartStep == IInv /\ Start => SafeInv'
<1> SUFFICES ASSUME IInv, Start PROVE SafeInv'
  OBVIOUS
<1> USE DEF Start, flagVars, fileVars, procVars, locals
<1>1. NotifierInv'
  BY DEF IInv, NotifierInv
<1>2. \A t \in Procs : (InLoop(t)' <=> InLoop(t))
  BY DEF InLoop
<1>3. QED
  BY <1>1, <1>2, Frame DEF SafeInv

\* End, close, the timer and FlushBlocking, outside the loop.
LEMMA OutsideSteps ==
  ASSUME IInv, NEW s \in Procs,
         \/ FlushBlocking(s) \/ FlushTest(s) \/ End(s) \/ ClosedPrinters(s)
         \/ Notify(s) \/ SetEnded(s) \/ Serialize(s)
         \/ TimerWakes(s) \/ TimerLate(s) \/ SetTimeouted(s)
  PROVE  SafeInv'
<1> USE DEF Goto, shared, printing, selectVars, locals
<1>0. pc \in [Procs -> Labels] /\ index \in [Procs -> Nat]
  BY DEF IInv, TypeOK
<1>1. CASE FlushBlocking(s)
  BY <1>0, <1>1, OutsideLoop DEF FlushBlocking, InLoopLabels
<1>2. CASE FlushTest(s)
  BY <1>0, <1>2, OutsideLoop DEF FlushTest, AfterFlush, InLoopLabels
<1>3. CASE End(s)
  BY <1>0, <1>3, OutsideLoop DEF End, InLoopLabels
<1>4. CASE ClosedPrinters(s)
  BY <1>0, <1>4, OutsideLoop DEF ClosedPrinters, InLoopLabels
<1>5. CASE Notify(s)
  BY <1>0, <1>5, OutsideLoop DEF Notify, InLoopLabels
<1>6. CASE SetEnded(s)
  BY <1>0, <1>6, OutsideLoop DEF SetEnded, InLoopLabels
<1>7. CASE Serialize(s)
  BY <1>0, <1>7, OutsideLoop DEF Serialize, InLoopLabels
<1>8. CASE TimerWakes(s)
  BY <1>0, <1>8, OutsideLoop DEF TimerWakes, InLoopLabels
<1>9. CASE TimerLate(s)
  BY <1>0, <1>9, OutsideLoop DEF TimerLate, InLoopLabels
<1>10. CASE SetTimeouted(s)
  BY <1>0, <1>10, OutsideLoop DEF SetTimeouted, InLoopLabels
<1>11. QED
  BY <1>1, <1>2, <1>3, <1>4, <1>5, <1>6, <1>7, <1>8, <1>9, <1>10

\* A new printer goes to the end of the list of its priority; nobody is in
\* the loop.
LEMMA PrinterStep ==
  ASSUME IInv, NEW p \in Printers, Printer(p)
  PROVE  SafeInv'
<1> USE DEF Printer, selectVars, flagVars, fileVars, procVars, locals, IInv
<1>1. /\ Priority[p] \in Priorities
      /\ printersByPriority \in [Priorities -> Seq(Printers)]
  BY PrioritiesType DEF TypeOK
<1>2. printersByPriority' = [printersByPriority EXCEPT ![Priority[p]] = Append(@, p)]
  OBVIOUS
<1>3. \A t \in Procs : ~InLoop(t) /\ ~InLoop(t)'
  BY NoneNotProc DEF LockInv, InLoop
<1>4. ListInv'
  <2>1. \A k \in Priorities : \A i \in DOMAIN printersByPriority'[k] :
          printersByPriority'[k][i] \in Printers /\ Priority[printersByPriority'[k][i]] = k
    <3> SUFFICES ASSUME NEW k \in Priorities, NEW i \in DOMAIN printersByPriority'[k]
                 PROVE  /\ printersByPriority'[k][i] \in Printers
                        /\ Priority[printersByPriority'[k][i]] = k
      OBVIOUS
    <3>1. CASE k # Priority[p]
      BY <1>1, <1>2, <3>1, ElementOfSeq DEF ListInv
    <3>2. CASE k = Priority[p]
      BY <1>1, <1>2, <3>2, AppendProperties, ElementOfSeq DEF ListInv
    <3>3. QED BY <3>1, <3>2
  <2>2. currentPriority # None => printersByPriority'[currentPriority] # <<>>
    BY <1>1, <1>2, AppendProperties DEF ListInv, TypeOK
  <2>3. QED BY <2>1, <2>2 DEF ListInv
<1>5. Created \subseteq Created'
  <2> SUFFICES ASSUME NEW q \in Printers, NEW i \in DOMAIN printersByPriority[Priority[q]],
                      printersByPriority[Priority[q]][i] = q
               PROVE  /\ i \in DOMAIN printersByPriority'[Priority[q]]
                      /\ printersByPriority'[Priority[q]][i] = q
    BY DEF Created
  <2>1. CASE Priority[q] # Priority[p]
    BY <1>1, <1>2, <2>1, PrioritiesType
  <2>2. CASE Priority[q] = Priority[p]
    BY <1>1, <1>2, <2>2, AppendProperties
  <2>3. QED BY <2>1, <2>2
<1>6. NotifierInv'
  BY DEF NotifierInv
<1>7. LockInv' /\ LoopInv' /\ CopyInv'
  BY <1>3 DEF LockInv, LoopInv, CopyInv
<1>8. LogInv' /\ PrioritiesNeverInterleave'
  BY <1>5 DEF LogInv, PrioritiesNeverInterleave, Done
<1>9. CursorInv' /\ ExactlyOnce'
  BY DEF CursorInv, ExactlyOnce
<1>10. TakenInv'
  <2>1. \A t \in Procs : \A q \in Printers : ~Copying(t, q) /\ ~Copying(t, q)'
    BY <1>3 DEF Copying, InLoop
  <2>2. QED BY <2>1 DEF TakenInv, InTmpOut
<1>11. QED
  BY <1>4, <1>6, <1>7, <1>8, <1>9, <1>10 DEF SafeInv

\* A printer is closed by name only when nobody is in the loop.
LEMMA closePrinterStep ==
  ASSUME IInv, mutex = None, NEW p \in Printers, closePrinter(p),
         UNCHANGED <<currentPriority, printersByPriority, mutex, closed, chunks, fileVars,
                     pc, index, opened, copied>>
  PROVE  SafeInv'
<1> USE DEF IInv, fileVars
<1>1. \A t \in Procs : ~InLoop(t) /\ ~InLoop(t)'
  BY NoneNotProc DEF LockInv, InLoop
<1>2. p \in AllPrinters /\ p # Notifier
  BY NotifierAssumption DEF AllPrinters
<1>3. /\ \A q \in AllPrinters \ {p} : /\ open'[q] = open[q] /\ consolidated'[q] = consolidated[q]
                                     /\ promised'[q] = promised[q]
      /\ IF open[p] THEN ~open'[p] /\ ~consolidated'[p] /\ promised'[p] = chunks[p]
                    ELSE open'[p] = open[p] /\ consolidated'[p] = consolidated[p]
                         /\ promised'[p] = promised[p]
  BY <1>2 DEF closePrinter, TypeOK
<1>4. \A q \in Printers : Done(q)' <=> Done(q)
  BY <1>2, <1>3 DEF Done, AllPrinters
<1>5. ListInv' /\ NotifierInv'
  BY <1>2, <1>3 DEF ListInv, NotifierInv, AllPrinters
<1>6. LockInv' /\ LoopInv' /\ CopyInv'
  BY <1>1 DEF LockInv, LoopInv, CopyInv
<1>7. LogInv' /\ PrioritiesNeverInterleave'
  BY <1>4 DEF LogInv, PrioritiesNeverInterleave, Created
<1>8. CursorInv'
  <2>1. ASSUME NEW q \in Printers
        PROVE  /\ promised'[q] <= chunks[q]
               /\ closed[q] => ~open'[q] /\ cursor[q] >= promised'[q]
    <3>1. /\ chunks[q] \in Nat /\ promised[q] <= chunks[q]
          /\ closed[q] => ~open[q] /\ cursor[q] >= promised[q]
      BY DEF CursorInv, TypeOK, AllPrinters
    <3>2. CASE q = p
      BY <1>3, <3>1, <3>2
    <3>3. CASE q # p
      BY <1>3, <3>1, <3>3 DEF AllPrinters
    <3>4. QED BY <3>2, <3>3
  <2>2. QED BY <2>1 DEF CursorInv
<1>9. TakenInv' /\ ExactlyOnce'
  <2>1. \A t \in Procs : \A q \in Printers : ~Copying(t, q) /\ ~Copying(t, q)'
    BY <1>1 DEF Copying, InLoop
  <2>2. QED BY <2>1 DEF TakenInv, InTmpOut, ExactlyOnce
<1>10. QED
  BY <1>5, <1>6, <1>7, <1>8, <1>9 DEF SafeInv

\* ClosePrinter, and close for each printer of the session.
LEMMA ClosePrinterSteps ==
  ASSUME IInv,
         \/ \E p \in Printers : ClosePrinter(p)
         \/ \E s \in Procs : ClosePrinters(s)
  PROVE  SafeInv'
<1>1. ASSUME NEW p \in Printers, ClosePrinter(p) PROVE SafeInv'
  BY <1>1, closePrinterStep DEF ClosePrinter, selectVars, procVars, locals
<1>2. ASSUME NEW s \in Procs, ClosePrinters(s) PROVE SafeInv'
  <2>1. PICK p \in Printers : closePrinter(p)
    BY <1>2 DEF ClosePrinters, Created
  <2>2. QED BY <1>2, <2>1, closePrinterStep DEF ClosePrinters, selectVars
<1>3. QED BY <1>1, <1>2

\* A print or a flush of a printer by its user may fall between any two steps
\* of the loop: it moves chunks and written forward.
LEMMA PrintSteps ==
  ASSUME IInv, NEW p \in AllPrinters, Out(p) \/ FlushPrinter(p)
  PROVE  SafeInv'
<1> USE DEF IInv
<1>0. TypeOK
  OBVIOUS
<1>1. /\ UNCHANGED <<currentPriority, printersByPriority, mutex, flagVars, cursor, tmpOut, procVars>>
      /\ chunks' \in [AllPrinters -> Nat] /\ written' \in [AllPrinters -> Nat]
      /\ \A q \in AllPrinters : chunks[q] <= chunks'[q] /\ written[q] <= written'[q]
      /\ \A q \in AllPrinters : written[q] <= chunks[q] => written'[q] <= chunks'[q]
  <2> HIDE DEF IInv
  <2>1. CASE Out(p)
    <3>1. chunks' = [chunks EXCEPT ![p] = @ + 1] /\ written' = written
      BY <2>1 DEF Out, fileVars
    <3>2. chunks \in [AllPrinters -> Nat] /\ written \in [AllPrinters -> Nat]
      BY <1>0 DEF TypeOK
    <3>3. \A q \in AllPrinters : chunks'[q] = IF q = p THEN chunks[q] + 1 ELSE chunks[q]
      BY <3>1, <3>2
    <3>4. UNCHANGED <<currentPriority, printersByPriority, mutex, flagVars, cursor, tmpOut, procVars>>
      BY <2>1 DEF Out, selectVars, fileVars
    <3>5. QED BY <3>1, <3>2, <3>3, <3>4
  <2>2. CASE FlushPrinter(p)
    <3>1. chunks' = chunks /\ written' = [written EXCEPT ![p] = chunks[p]]
      BY <2>2 DEF FlushPrinter
    <3>2. chunks \in [AllPrinters -> Nat] /\ written \in [AllPrinters -> Nat]
      BY <1>0 DEF TypeOK
    <3>3. written[p] <= chunks[p]
      BY <2>2, <3>2 DEF FlushPrinter
    <3>4. \A q \in AllPrinters : written'[q] = IF q = p THEN chunks[q] ELSE written[q]
      BY <3>1, <3>2
    <3>5. UNCHANGED <<currentPriority, printersByPriority, mutex, flagVars, cursor, tmpOut, procVars>>
      BY <2>2 DEF FlushPrinter, selectVars
    <3>6. QED BY <3>1, <3>2, <3>3, <3>4, <3>5
  <2>3. QED BY <2>1, <2>2
<1> USE DEF flagVars, procVars, locals
<1>2. ListInv' /\ NotifierInv' /\ LockInv'
  BY <1>1 DEF ListInv, NotifierInv, LockInv, InLoop
<1>3. LoopInv' /\ LogInv' /\ PrioritiesNeverInterleave' /\ ExactlyOnce'
  BY <1>1 DEF LoopInv, LogInv, PrioritiesNeverInterleave, ExactlyOnce, InLoop, Done, Target, Created
<1>4. CursorInv'
  <2> SUFFICES ASSUME NEW q \in Printers
               PROVE  /\ cursor[q] <= written'[q] /\ written'[q] <= chunks'[q]
                      /\ promised[q] <= chunks'[q]
                      /\ closed[q] => ~open[q] /\ cursor[q] >= promised[q]
    BY <1>1 DEF CursorInv
  <2>1. /\ cursor[q] <= written[q] /\ written[q] <= chunks[q] /\ promised[q] <= chunks[q]
        /\ closed[q] => ~open[q] /\ cursor[q] >= promised[q]
    BY DEF CursorInv
  <2>2. q \in AllPrinters
    BY DEF AllPrinters
  <2> HIDE DEF IInv
  <2>3. /\ cursor[q] \in Nat /\ promised[q] \in Nat
        /\ written[q] \in Nat /\ chunks[q] \in Nat /\ written'[q] \in Nat /\ chunks'[q] \in Nat
    BY <1>0, <1>1, <2>2 DEF TypeOK
  <2>4. chunks[q] <= chunks'[q] /\ written[q] <= written'[q] /\ written'[q] <= chunks'[q]
    BY <1>1, <2>1, <2>2
  <2>5. QED BY <2>1, <2>3, <2>4
<1>5. CopyInv'
  <2> SUFFICES ASSUME NEW t \in Procs, InLoop(t)
               PROVE  /\ pc[t] = "copy" /\ ~open[Target(t)] => promised[Target(t)] <= written'[Target(t)]
                      /\ pc[t] = "mark" => cursor[Target(t)] + copied[t] <= written'[Target(t)]
                      /\ pc[t] = "mark" /\ ~open[Target(t)] =>
                           promised[Target(t)] <= cursor[Target(t)] + copied[t]
    BY <1>1 DEF CopyInv, InLoop, Target
  <2>1. Target(t) \in AllPrinters
    BY InLoopFacts DEF AllPrinters
  <2>2. /\ pc[t] = "copy" /\ ~open[Target(t)] => promised[Target(t)] <= written[Target(t)]
        /\ pc[t] = "mark" => cursor[Target(t)] + copied[t] <= written[Target(t)]
        /\ pc[t] = "mark" /\ ~open[Target(t)] =>
             promised[Target(t)] <= cursor[Target(t)] + copied[t]
    BY DEF CopyInv
  <2> HIDE DEF IInv
  <2>3. /\ cursor[Target(t)] \in Nat /\ promised[Target(t)] \in Nat /\ copied[t] \in Nat
        /\ written[Target(t)] \in Nat /\ written'[Target(t)] \in Nat
    BY <1>0, <1>1, <2>1 DEF TypeOK
  <2>4. written[Target(t)] <= written'[Target(t)]
    BY <1>1, <2>1
  <2>5. QED BY <2>2, <2>3, <2>4
<1>6. TakenInv'
  BY <1>1 DEF TakenInv, InTmpOut, Copying, Target
<1>7. QED
  BY <1>2, <1>3, <1>4, <1>5, <1>6 DEF SafeInv

\* s, alone under the lock, leaves consolidateAll.
LEMMA UnlockStep ==
  ASSUME IInv, NEW s \in Procs, Unlock(s), pc[s] # "mark",
         \A t \in Procs : InLoop(t) => t = s,
         UNCHANGED <<printersByPriority, flagVars, chunks, fileVars, copied>>,
         currentPriority' \in {currentPriority, None},
         \A i \in DOMAIN tmpOut : LET q == tmpOut[i].printer IN
           q \in Printers /\ ~Done(q) => Priority[q] = currentPriority'
  PROVE  SafeInv'
<1> USE DEF IInv, flagVars, fileVars
<1>1. \A t \in Procs : ~InLoop(t)'
  BY DEF Unlock, AfterFlush, Goto, InLoop, TypeOK
<1>2. \A t \in Procs : \A q \in Printers : ~Copying(t, q) /\ ~Copying(t, q)'
  BY <1>1 DEF Copying, InLoop
<1>3. ListInv' /\ NotifierInv' /\ LockInv' /\ LoopInv' /\ CopyInv'
  BY <1>1 DEF ListInv, NotifierInv, LockInv, LoopInv, CopyInv
<1>4. LogInv' /\ PrioritiesNeverInterleave' /\ ExactlyOnce'
  BY DEF LogInv, PrioritiesNeverInterleave, ExactlyOnce, Created, Done
<1>5. CursorInv' /\ TakenInv'
  BY <1>2 DEF CursorInv, TakenInv, InTmpOut
<1>6. QED
  BY <1>3, <1>4, <1>5 DEF SafeInv

\* s, alone under the lock, starts on the printers of priority k.
LEMMA BeginStep ==
  ASSUME IInv, NEW s \in Procs, NEW k \in Priorities, Begin(s, k), pc[s] # "mark",
         \A t \in Procs : InLoop(t) => t = s,
         printersByPriority[k] # <<>>,
         UNCHANGED <<printersByPriority, flagVars, chunks, fileVars, copied>>,
         \A i \in DOMAIN tmpOut : LET q == tmpOut[i].printer IN
           q \in Printers /\ ~Done(q) => Priority[q] = k
  PROVE  SafeInv'
<1> USE DEF IInv, flagVars, fileVars
<1>1. /\ \A t \in Procs : InLoop(t)' => t = s
      /\ pc'[s] = "consolidate" /\ index'[s] = 1
      /\ mutex' = s /\ currentPriority' = k
  BY DEF Begin, Goto, InLoop, TypeOK
<1>2. \A t \in Procs : \A q \in Printers : ~Copying(t, q) /\ ~Copying(t, q)'
  BY <1>1 DEF Copying, InLoop
<1>3. ListInv' /\ NotifierInv'
  BY <1>1 DEF ListInv, NotifierInv
<1>4. LockInv'
  <2>1. 1 \in DOMAIN printersByPriority[k]
    BY EmptySeq DEF TypeOK
  <2>2. k # None
    BY PrioritiesType
  <2>3. QED BY <1>1, <2>1, <2>2 DEF LockInv
<1>5. LoopInv' /\ CopyInv'
  BY <1>1 DEF LoopInv, CopyInv
<1>6. LogInv' /\ PrioritiesNeverInterleave' /\ ExactlyOnce'
  BY <1>1 DEF LogInv, PrioritiesNeverInterleave, ExactlyOnce, Created, Done
<1>7. CursorInv' /\ TakenInv'
  BY <1>2 DEF CursorInv, TakenInv, InTmpOut
<1>8. QED
  BY <1>3, <1>4, <1>5, <1>6, <1>7 DEF SafeInv

\* s, alone under the lock, asks nextPriority once all in the log is done.
LEMMA SelectStep ==
  ASSUME IInv, NEW s \in Procs, Select(s), pc[s] # "mark",
         \A t \in Procs : InLoop(t) => t = s,
         UNCHANGED <<printersByPriority, flagVars, chunks, fileVars, copied>>,
         \A i \in DOMAIN tmpOut : tmpOut[i].printer \in Printers => Done(tmpOut[i].printer)
  PROVE  SafeInv'
<1>1. CASE NextPriority = None
  BY <1>1, UnlockStep DEF Select
<1>2. CASE NextPriority # None
  <2>1. NextPriority \in Priorities /\ Of(NextPriority) # {}
    BY <1>2, NextPriorityType DEF Selected, Pending
  <2>2. printersByPriority[NextPriority] # <<>>
    BY <2>1 DEF Of, Created
  <2>3. Begin(s, NextPriority)
    BY <1>2 DEF Select
  <2>4. QED BY <2>1, <2>2, <2>3, BeginStep
<1>3. QED BY <1>1, <1>2

\* Flush takes the lock: nobody is in the loop.
LEMMA FlushLockStep ==
  ASSUME IInv, NEW s \in Procs, FlushLock(s)
  PROVE  SafeInv'
<1>1. \A t \in Procs : ~InLoop(t)
  BY NoneNotProc DEF FlushLock, IInv, LockInv
<1> USE <1>1 DEF FlushLock
<1>2. CASE currentPriority # None /\ Begin(s, currentPriority)
  <2>1. currentPriority \in Priorities /\ printersByPriority[currentPriority] # <<>>
    BY <1>2 DEF IInv, TypeOK, ListInv
  <2>2. QED BY <1>2, <2>1, BeginStep DEF IInv, LogInv
<1>3. CASE currentPriority = None /\ Select(s)
  <2>1. \A i \in DOMAIN tmpOut : tmpOut[i].printer \in Printers => Done(tmpOut[i].printer)
    BY <1>3, PrioritiesType DEF IInv, LogInv
  <2>2. QED BY <1>3, <2>1, SelectStep
<1>4. CASE /\ mutex' = s
           /\ index' = [index EXCEPT ![s] = 0]
           /\ Goto(s, "consolidate")
           /\ UNCHANGED <<selectVars, opened>>
  <2>1. NotifierInv'
    BY DEF IInv, NotifierInv, flagVars
  <2>2. \A t \in Procs : ~InLoop(t)'
    BY <1>4 DEF InLoop, Goto, IInv, TypeOK
  <2>3. QED BY <1>4, <2>1, <2>2, Frame DEF SafeInv, flagVars, fileVars, selectVars
<1>5. QED BY <1>2, <1>3, <1>4

\* consolidatePrinter flushes the printer, or fails and unlocks.
LEMMA FlushTargetStep ==
  ASSUME IInv, NEW s \in Procs, FlushTarget(s)
  PROVE  SafeInv'
<1> USE DEF FlushTarget, Goto, flagVars
<1>0. pc \in [Procs -> Labels] /\ index \in [Procs -> Nat] /\ written \in [AllPrinters -> Nat]
  BY DEF IInv, TypeOK
<1>1. CASE index[s] = 0
  <2>1. Target(s) = Notifier /\ ~closed[Notifier] /\ Notifier \in AllPrinters
    BY <1>1 DEF Target, IInv, NotifierInv, AllPrinters
  <2>2. NotifierInv'
    BY DEF IInv, NotifierInv
  <2>3. /\ written' = [written EXCEPT ![Notifier] = chunks[Notifier]]
        /\ pc' = [pc EXCEPT ![s] = "advance"] \/ pc' = [pc EXCEPT ![s] = "copy"]
        /\ UNCHANGED <<mutex, index, opened>>
    BY <2>1
  <2>4. \A p \in Printers : written'[p] = written[p]
    BY <1>0, <2>3, NotifierAssumption DEF AllPrinters
  <2>5. \A t \in Procs : InLoop(t) => t # s /\ pc'[t] = pc[t]
    BY <1>0, <1>1, <2>3 DEF InLoop
  <2>6. \A t \in Procs : InLoop(t)' <=> InLoop(t)
    BY <1>0, <1>1, <2>3, <2>5 DEF InLoop
  <2>7. QED BY <2>2, <2>3, <2>4, <2>5, <2>6, Frame DEF SafeInv, selectVars
<1>2. CASE index[s] # 0
  <2>1. InLoop(s)
    BY <1>0, <1>2 DEF InLoop
  <2>2. CASE Unlock(s) /\ UNCHANGED written
    BY <2>1, <2>2, UnlockStep, InLoopFacts DEF IInv, LogInv, fileVars, selectVars
  <2>3. CASE ~(closed[Target(s)] /\ written[Target(s)] < chunks[Target(s)])
    <3> DEFINE p == Target(s)
    <3>1. /\ p \in Printers /\ p \in AllPrinters
          /\ \A t \in Procs : InLoop(t) => t = s
      BY <2>1, InLoopFacts DEF AllPrinters
    <3>2. /\ written' = [written EXCEPT ![p] = chunks[p]]
          /\ UNCHANGED <<selectVars, printersByPriority, mutex, index, opened, copied, chunks,
                         cursor, tmpOut, open, consolidated, closed, promised>>
          /\ \/ pc' = [pc EXCEPT ![s] = "advance"] /\ Done(p)
             \/ pc' = [pc EXCEPT ![s] = "copy"]
      BY <2>3 DEF Done
    <3> HIDE DEF p
    <3>3. /\ \A q \in Printers : Done(q)' = Done(q)
          /\ Created' = Created
          /\ \A t \in Procs : InLoop(t)' <=> InLoop(t)
          /\ \A t \in Procs : Target(t)' = Target(t)
      BY <1>0, <2>1, <3>2 DEF Done, Created, InLoop, Target, selectVars
    <3>4. ListInv' /\ NotifierInv' /\ LockInv'
      BY <3>2, <3>3 DEF IInv, ListInv, NotifierInv, LockInv, selectVars
    <3>5. LoopInv'
      <4> SUFFICES ASSUME NEW t \in Procs, InLoop(t)
                   PROVE  /\ ~opened[t] => \A i \in 1 .. index[t] - 1 :
                               Done(printersByPriority[currentPriority][i])'
                          /\ pc'[t] = "advance" /\ ~open[Target(t)] => Done(Target(t))'
        BY <3>2, <3>3 DEF LoopInv
      <4>1. t = s /\ Target(t) = p /\ pc[t] = "consolidate"
        BY <3>1 DEF p
      <4>2. ~opened[t] => \A i \in 1 .. index[t] - 1 : Done(printersByPriority[currentPriority][i])
        BY DEF IInv, LoopInv
      <4>3. pc'[t] = "advance" => Done(p)
        BY <1>0, <3>2, <4>1
      <4>4. QED BY <3>2, <3>3, <4>1, <4>2, <4>3 DEF Done, selectVars
    <3>6. LogInv' /\ PrioritiesNeverInterleave' /\ ExactlyOnce'
      BY <3>2, <3>3 DEF IInv, LogInv, PrioritiesNeverInterleave, ExactlyOnce, selectVars, Done
    <3>7. CursorInv'
      BY <1>0, <3>1, <3>2 DEF IInv, CursorInv, TypeOK, AllPrinters
    <3>8. CopyInv'
      <4>1. promised[p] <= chunks[p] /\ written'[p] = chunks[p] /\ pc'[s] # "mark"
        BY <1>0, <3>1, <3>2 DEF IInv, CursorInv
      <4>2. QED BY <3>1, <3>2, <3>3, <4>1 DEF CopyInv, p
    <3>9. TakenInv'
      <4>1. \A t \in Procs : \A q \in Printers : ~Copying(t, q) /\ ~Copying(t, q)'
        BY <1>0, <2>1, <3>1, <3>2 DEF Copying, InLoop
      <4>2. QED BY <3>2, <4>1 DEF IInv, TakenInv, InTmpOut
    <3>10. QED
      BY <3>4, <3>5, <3>6, <3>7, <3>8, <3>9 DEF SafeInv
  <2>4. QED BY <2>2, <2>3
<1>3. QED BY <1>1, <1>2

\* What CopyChunk appends.
LEMMA CopyFacts ==
  ASSUME IInv, NEW s \in Procs, Copy(s), Target(s) \in AllPrinters
  PROVE  \E k \in Nat :
           /\ copied' = [copied EXCEPT ![s] = k]
           /\ Target(s) \in Printers => k = written[Target(s)] - cursor[Target(s)]
           /\ Len(tmpOut') = Len(tmpOut) + k
           /\ \A i \in 1 .. Len(tmpOut) : tmpOut'[i] = tmpOut[i]
           /\ \A i \in 1 .. k : tmpOut'[Len(tmpOut) + i] =
                [printer |-> Target(s), number |-> cursor[Target(s)] + i]
<1> DEFINE p == Target(s)
           k == IF cursor[p] < written[p] THEN written[p] - cursor[p] ELSE 0
<1>1. cursor[p] \in Nat /\ written[p] \in Nat /\ k \in Nat
  BY DEF IInv, TypeOK
<1>2. p \in Printers => k = written[p] - cursor[p]
  BY <1>1 DEF IInv, CursorInv
<1>3. Fresh(p) \in Seq(Chunk) /\ tmpOut \in Seq(Chunk)
  BY FreshType DEF IInv, TypeOK
<1>4. /\ Len(Fresh(p)) = k
      /\ \A i \in 1 .. k : Fresh(p)[i] = [printer |-> p, number |-> cursor[p] + i]
  <2>1. 1 .. (written[p] - cursor[p]) = 1 .. k
    BY <1>1
  <2>2. Fresh(p) = [i \in 1 .. k |-> [printer |-> p, number |-> cursor[p] + i]]
    BY <2>1 DEF Fresh
  <2>3. Len(Fresh(p)) \in Nat /\ 1 .. Len(Fresh(p)) = 1 .. k
    BY <1>3, <2>2, LenProperties
  <2>4. Len(Fresh(p)) = k
    <3>1. Len(Fresh(p)) <= k
      BY <1>1, <2>3
    <3>2. k <= Len(Fresh(p))
      <4>1. k \in 1 .. k \/ k = 0
        BY <1>1
      <4>2. QED BY <1>1, <2>3, <4>1
    <3>3. QED BY <1>1, <2>3, <3>1, <3>2
  <2>5. QED BY <2>2, <2>4
<1>5. tmpOut' = tmpOut \o Fresh(p) /\ copied' = [copied EXCEPT ![s] = k]
  BY DEF Copy, CopiedLength
<1>6. /\ Len(tmpOut') = Len(tmpOut) + k
      /\ \A i \in 1 .. Len(tmpOut) : tmpOut'[i] = tmpOut[i]
      /\ \A i \in 1 .. k : tmpOut'[Len(tmpOut) + i] = Fresh(p)[i]
  BY <1>1, <1>3, <1>4, <1>5, ConcatProperties
<1>7. \A i \in 1 .. k : tmpOut'[Len(tmpOut) + i] = [printer |-> p, number |-> cursor[p] + i]
  BY <1>4, <1>6
<1> HIDE DEF k
<1>8. QED
  BY <1>1, <1>2, <1>5, <1>6, <1>7

\* CopyChunk: the chunks up to written are appended, and only those.
LEMMA CopyStep ==
  ASSUME IInv, NEW s \in Procs, Copy(s)
  PROVE  SafeInv'
<1> USE DEF flagVars, selectVars, Goto
<1>0. pc \in [Procs -> Labels] /\ index \in [Procs -> Nat] /\ copied \in [Procs -> Nat]
  BY DEF IInv, TypeOK
<1>1. /\ UNCHANGED <<currentPriority, printersByPriority, mutex, open, consolidated, closed,
                     promised, chunks, written, cursor, index, opened>>
      /\ pc[s] = "copy" /\ pc' = [pc EXCEPT ![s] = "mark"]
  BY DEF Copy
<1>2. PICK p \in AllPrinters : p = Target(s)
  <2>1. InLoop(s) \/ index[s] = 0
    BY <1>0, <1>1 DEF InLoop
  <2>2. QED BY <2>1, TargetType DEF IInv
<1>3. PICK k \in Nat :
        /\ copied' = [copied EXCEPT ![s] = k]
        /\ p \in Printers => k = written[p] - cursor[p]
        /\ Len(tmpOut') = Len(tmpOut) + k
        /\ \A i \in 1 .. Len(tmpOut) : tmpOut'[i] = tmpOut[i]
        /\ \A i \in 1 .. k : tmpOut'[Len(tmpOut) + i] = [printer |-> p, number |-> cursor[p] + i]
  BY <1>2, CopyFacts
<1>4. Len(tmpOut) \in Nat /\ tmpOut \in Seq(Chunk) /\ tmpOut' \in Seq(Chunk)
  <2>1. tmpOut \in Seq(Chunk) /\ Fresh(p) \in Seq(Chunk)
    BY <1>2, FreshType DEF IInv, TypeOK
  <2>2. tmpOut' = tmpOut \o Fresh(p)
    BY <1>2 DEF Copy
  <2>3. (tmpOut \o Fresh(p)) \in Seq(Chunk)
    BY <2>1
  <2>4. QED BY <2>1, <2>2, <2>3, LenProperties
<1>5. /\ DOMAIN tmpOut = 1 .. Len(tmpOut)
      /\ DOMAIN tmpOut' = 1 .. (Len(tmpOut) + k)
  BY <1>3, <1>4, LenProperties
\* an element of the new file is an old one or a fresh chunk of p
<1>6. \A i \in DOMAIN tmpOut' :
        \/ i \in DOMAIN tmpOut /\ tmpOut'[i] = tmpOut[i]
        \/ /\ i - Len(tmpOut) \in 1 .. k
           /\ tmpOut'[i] = [printer |-> p, number |-> cursor[p] + (i - Len(tmpOut))]
  <2> SUFFICES ASSUME NEW i \in DOMAIN tmpOut', i \notin DOMAIN tmpOut
               PROVE  /\ i - Len(tmpOut) \in 1 .. k
                      /\ tmpOut'[i] = [printer |-> p, number |-> cursor[p] + (i - Len(tmpOut))]
    BY <1>3, <1>5
  <2>1. i - Len(tmpOut) \in 1 .. k /\ Len(tmpOut) + (i - Len(tmpOut)) = i
    BY <1>4, <1>5
  <2>2. QED BY <1>3, <2>1
<1>7. /\ \A t \in Procs : InLoop(t)' <=> InLoop(t)
      /\ \A t \in Procs : Target(t)' = Target(t)
      /\ \A q \in Printers : Done(q)' = Done(q)
      /\ Created' = Created
  BY <1>0, <1>1 DEF InLoop, Target, Done, Created
<1>8. p \in Printers => /\ InLoop(s) /\ Priority[p] = currentPriority /\ p \in Created
                        /\ \A t \in Procs : InLoop(t) => t = s
  <2>1. p \in Printers => index[s] # 0
    BY <1>2, NotifierAssumption DEF Target
  <2>2. p \in Printers => InLoop(s)
    BY <1>0, <1>1, <2>1 DEF InLoop
  <2>3. QED BY <1>2, <2>2, InLoopFacts
<1>20. \A i \in DOMAIN tmpOut : tmpOut[i] \in Chunk /\ tmpOut[i].number \in Nat
  <2>1. \A i \in DOMAIN tmpOut : tmpOut[i] \in Chunk
    BY <1>4, <1>5, ElementOfSeq
  <2>2. \A c \in Chunk : c.number \in Nat
    BY DEF Chunk
  <2>3. QED BY <2>1, <2>2
<1>9. ListInv' /\ NotifierInv' /\ LockInv'
  BY <1>1, <1>7 DEF IInv, ListInv, NotifierInv, LockInv
<1>10. LoopInv'
  <2> SUFFICES ASSUME NEW t \in Procs, InLoop(t)
               PROVE  /\ ~opened[t] => \A i \in 1 .. index[t] - 1 :
                           Done(printersByPriority[currentPriority][i])'
                      /\ pc'[t] = "advance" /\ ~open[Target(t)] => Done(Target(t))'
    BY <1>1, <1>7 DEF LoopInv
  <2>1. /\ ~opened[t] => \A i \in 1 .. index[t] - 1 : Done(printersByPriority[currentPriority][i])
        /\ pc[t] = "advance" /\ ~open[Target(t)] => Done(Target(t))
    BY DEF IInv, LoopInv
  <2>2. pc'[t] = "advance" => pc[t] = "advance"
    BY <1>0, <1>1
  <2>3. QED BY <1>1, <1>7, <2>1, <2>2 DEF Done
<1>11. LogInv'
  <2> SUFFICES ASSUME NEW i \in DOMAIN tmpOut', tmpOut'[i].printer \in Printers
               PROVE  /\ tmpOut'[i].printer \in Created
                      /\ ~Done(tmpOut'[i].printer) => Priority[tmpOut'[i].printer] = currentPriority
    BY <1>1, <1>7 DEF LogInv
  <2>1. CASE i \in DOMAIN tmpOut /\ tmpOut'[i] = tmpOut[i]
    BY <2>1 DEF IInv, LogInv
  <2>2. CASE tmpOut'[i].printer = p
    BY <1>8, <2>2
  <2>3. QED BY <1>6, <2>1, <2>2
<1>12. PrioritiesNeverInterleave'
  <2> SUFFICES ASSUME NEW i \in DOMAIN tmpOut', NEW j \in DOMAIN tmpOut', i < j,
                      tmpOut'[i].printer \in Printers, tmpOut'[j].printer \in Printers,
                      Priority[tmpOut'[i].printer] # Priority[tmpOut'[j].printer]
               PROVE  Done(tmpOut'[i].printer)
    BY <1>7 DEF PrioritiesNeverInterleave
  <2>1. CASE j \in DOMAIN tmpOut /\ tmpOut'[j] = tmpOut[j]
    <3>1. i \in DOMAIN tmpOut /\ tmpOut'[i] = tmpOut[i]
      BY <1>3, <1>4, <1>5, <2>1
    <3>2. QED BY <2>1, <3>1 DEF IInv, PrioritiesNeverInterleave
  <2>2. CASE tmpOut'[j].printer = p
    <3>1. tmpOut'[i].printer # p
      BY <2>2
    <3>2. i \in DOMAIN tmpOut /\ tmpOut'[i] = tmpOut[i]
      BY <1>6, <3>1
    <3>3. Priority[tmpOut[i].printer] # currentPriority
      BY <1>8, <2>2, <3>2
    <3>4. QED BY <3>2, <3>3 DEF IInv, LogInv
  <2>3. QED BY <1>6, <2>1, <2>2
<1>13. CursorInv'
  BY <1>1 DEF IInv, CursorInv
<1>14. CopyInv'
  <2> SUFFICES ASSUME NEW t \in Procs, InLoop(t)
               PROVE  /\ pc'[t] = "copy" /\ ~open[Target(t)] => promised[Target(t)] <= written[Target(t)]
                      /\ pc'[t] = "mark" => cursor[Target(t)] + copied'[t] <= written[Target(t)]
                      /\ pc'[t] = "mark" /\ ~open[Target(t)] =>
                           promised[Target(t)] <= cursor[Target(t)] + copied'[t]
    BY <1>1, <1>7 DEF CopyInv
  <2>1. CASE t # s
    BY <1>0, <1>1, <1>3, <2>1 DEF IInv, CopyInv
  <2>2. CASE t = s
    <3>1. p \in Printers /\ Target(t) = p
      BY <1>2, <2>2, InLoopFacts
    <3>2. ~open[p] => promised[p] <= written[p]
      BY <1>1, <2>2, <3>1 DEF IInv, CopyInv
    <3>3. cursor[p] \in Nat /\ written[p] \in Nat /\ copied'[s] = written[p] - cursor[p]
      BY <1>0, <1>2, <1>3, <3>1 DEF IInv, TypeOK
    <3>4. pc'[t] = "mark"
      BY <1>0, <1>1, <2>2
    <3>5. QED BY <2>2, <3>1, <3>2, <3>3, <3>4
  <2>3. QED BY <2>1, <2>2
\* what is in the file: the old chunks of every printer, and those of p
<1>15. \A q \in Printers, n \in Nat : q # p /\ InTmpOut(q, n) => InTmpOut(q, n)'
  BY <1>3, <1>5, <1>6 DEF InTmpOut
<1>16. p \in Printers => InTmpOut(p, cursor[p]) /\ InTmpOut(p, cursor[p] + k)'
  <2> SUFFICES ASSUME p \in Printers
               PROVE  InTmpOut(p, cursor[p]) /\ InTmpOut(p, cursor[p] + k)'
    OBVIOUS
  <2>1. \A t \in Procs : ~Copying(t, p)
    BY <1>1, <1>8 DEF Copying, InLoop
  <2>2. InTmpOut(p, cursor[p])
    BY <2>1 DEF IInv, TakenInv
  <2>3. cursor[p] \in Nat
    BY <1>2 DEF IInv, TypeOK
  <2>4. \A i \in DOMAIN tmpOut' : tmpOut'[i].printer = p => tmpOut'[i].number <= cursor[p] + k
    <3> SUFFICES ASSUME NEW i \in DOMAIN tmpOut', tmpOut'[i].printer = p
                 PROVE  tmpOut'[i].number <= cursor[p] + k
      OBVIOUS
    <3>1. CASE i \in DOMAIN tmpOut /\ tmpOut'[i] = tmpOut[i]
      <4>1. tmpOut[i].number <= cursor[p] /\ tmpOut[i].number \in Nat
        BY <1>20, <2>2, <3>1 DEF InTmpOut
      <4>2. QED BY <2>3, <3>1, <4>1
    <3>2. CASE /\ i - Len(tmpOut) \in 1 .. k
               /\ tmpOut'[i] = [printer |-> p, number |-> cursor[p] + (i - Len(tmpOut))]
      BY <2>3, <3>2
    <3>3. QED BY <1>6, <3>1, <3>2
  <2>5. ASSUME NEW m \in 1 .. cursor[p] + k
        PROVE  \E i \in DOMAIN tmpOut' : tmpOut'[i] = [printer |-> p, number |-> m]
    <3>1. CASE m <= cursor[p]
      <4>1. m \in 1 .. cursor[p]
        BY <2>3, <3>1
      <4>2. PICK i \in DOMAIN tmpOut : tmpOut[i] = [printer |-> p, number |-> m]
        BY <2>2, <4>1 DEF InTmpOut
      <4>3. i \in DOMAIN tmpOut' /\ tmpOut'[i] = tmpOut[i]
        BY <1>3, <1>4, <1>5
      <4>4. QED BY <4>2, <4>3
    <3>2. CASE m > cursor[p]
      <4>1. m - cursor[p] \in 1 .. k
        BY <2>3, <3>2
      <4>2. Len(tmpOut) + (m - cursor[p]) \in DOMAIN tmpOut'
        BY <1>4, <1>5, <4>1
      <4>3. tmpOut'[Len(tmpOut) + (m - cursor[p])] = [printer |-> p, number |-> m]
        <5>1. tmpOut'[Len(tmpOut) + (m - cursor[p])] =
                [printer |-> p, number |-> cursor[p] + (m - cursor[p])]
          BY <1>3, <4>1
        <5>2. cursor[p] + (m - cursor[p]) = m
          BY <2>3
        <5>3. QED BY <5>1, <5>2
      <4>4. QED BY <4>2, <4>3
    <3>3. QED BY <2>3, <3>1, <3>2
  <2>6. QED BY <2>2, <2>4, <2>5, <1>1 DEF InTmpOut
<1>17. TakenInv'
  <2>1. \A t \in Procs, q \in Printers : Copying(t, q)' =>
          \/ t = s /\ q = p /\ copied'[t] = k
          \/ t # s /\ q # p /\ Copying(t, q) /\ copied'[t] = copied[t]
    <3> SUFFICES ASSUME NEW t \in Procs, NEW q \in Printers, Copying(t, q)'
                 PROVE  \/ t = s /\ q = p /\ copied'[t] = k
                        \/ t # s /\ q # p /\ Copying(t, q) /\ copied'[t] = copied[t]
      OBVIOUS
    <3>1. InLoop(t) /\ Target(t) = q /\ index[t] > 0
      BY <1>1, <1>7 DEF Copying, InLoop
    <3>2. CASE t = s
      BY <1>0, <1>2, <1>3, <3>1, <3>2
    <3>3. CASE t # s
      BY <1>0, <1>1, <1>3, <1>8, <3>1, <3>3 DEF Copying
    <3>4. QED BY <3>2, <3>3
  <2>2. \A q \in Printers : q # p => ((\A t \in Procs : ~Copying(t, q)') => \A t \in Procs : ~Copying(t, q))
    BY <1>0, <1>1, <1>7 DEF Copying
  <2>3. p \in Printers => Copying(s, p)'
    BY <1>0, <1>1, <1>2, <1>7, <1>8 DEF Copying, InLoop
  <2>5. ASSUME NEW q \in Printers, \A t \in Procs : ~Copying(t, q)'
        PROVE  InTmpOut(q, cursor[q])'
    <3>1. q # p /\ InTmpOut(q, cursor[q])
      BY <2>2, <2>3, <2>5 DEF IInv, TakenInv
    <3>2. QED BY <1>1, <1>3, <1>5, <1>6, <3>1 DEF InTmpOut
  <2>6. ASSUME NEW q \in Printers, NEW t \in Procs, Copying(t, q)'
        PROVE  InTmpOut(q, cursor[q] + copied[t])'
    <3>1. CASE t = s /\ q = p /\ copied'[t] = k
      BY <1>1, <1>16, <3>1 DEF InTmpOut
    <3>2. CASE t # s /\ q # p /\ Copying(t, q) /\ copied'[t] = copied[t]
      <4>1. InTmpOut(q, cursor[q] + copied[t])
        BY <3>2 DEF IInv, TakenInv
      <4>2. QED BY <1>1, <1>3, <1>5, <1>6, <3>2, <4>1 DEF InTmpOut
    <3>3. QED BY <2>1, <2>6, <3>1, <3>2
  <2>7. QED BY <2>5, <2>6 DEF TakenInv
<1>18. ExactlyOnce'
  <2> SUFFICES ASSUME NEW j \in DOMAIN tmpOut', tmpOut'[j].printer \in Printers
               PROVE  /\ \A i \in 1 .. j - 1 :
                           tmpOut'[i].printer = tmpOut'[j].printer =>
                             tmpOut'[i].number < tmpOut'[j].number
                      /\ \A n \in 1 .. tmpOut'[j].number - 1 :
                           \E i \in 1 .. j - 1 :
                             tmpOut'[i] = [printer |-> tmpOut'[j].printer, number |-> n]
    BY DEF ExactlyOnce
  <2>1. j \in Nat /\ \A i \in 1 .. j - 1 : i \in DOMAIN tmpOut'
    BY <1>4, <1>5
  <2>2. CASE j \in DOMAIN tmpOut /\ tmpOut'[j] = tmpOut[j]
    <3>1. \A i \in 1 .. j - 1 : i \in DOMAIN tmpOut /\ tmpOut'[i] = tmpOut[i]
      BY <1>3, <1>4, <1>5, <2>2
    <3>2. QED BY <2>2, <3>1 DEF IInv, ExactlyOnce
  <2>3. CASE /\ j - Len(tmpOut) \in 1 .. k
             /\ tmpOut'[j] = [printer |-> p, number |-> cursor[p] + (j - Len(tmpOut))]
    <3>1. p \in Printers /\ cursor[p] \in Nat
      BY <1>2, <2>3 DEF IInv, TypeOK
    <3>2. ASSUME NEW i \in 1 .. j - 1, tmpOut'[i].printer = p
          PROVE  tmpOut'[i].number < tmpOut'[j].number
      <4>1. CASE i \in DOMAIN tmpOut /\ tmpOut'[i] = tmpOut[i]
        <5>1. tmpOut[i].number <= cursor[p] /\ tmpOut[i].number \in Nat
          BY <1>16, <1>20, <3>1, <3>2, <4>1 DEF InTmpOut
        <5>2. tmpOut'[j].number = cursor[p] + (j - Len(tmpOut)) /\ j - Len(tmpOut) >= 1
          BY <1>4, <2>1, <2>3
        <5>3. tmpOut[i].number < cursor[p] + (j - Len(tmpOut))
          <6>1. cursor[p] < cursor[p] + (j - Len(tmpOut))
            BY <1>4, <2>1, <3>1, <5>2
          <6>2. cursor[p] + (j - Len(tmpOut)) \in Int
            BY <1>4, <2>1, <3>1
          <6>3. QED BY <3>1, <5>1, <6>1, <6>2
        <5>4. QED BY <4>1, <5>2, <5>3
      <4>2. CASE /\ i - Len(tmpOut) \in 1 .. k
                 /\ tmpOut'[i] = [printer |-> p, number |-> cursor[p] + (i - Len(tmpOut))]
        <5>1. /\ tmpOut'[i].number = cursor[p] + (i - Len(tmpOut))
              /\ tmpOut'[j].number = cursor[p] + (j - Len(tmpOut))
          BY <2>3, <4>2
        <5>2. i \in Int /\ i < j
          BY <2>1
        <5>3. cursor[p] + (i - Len(tmpOut)) < cursor[p] + (j - Len(tmpOut))
          BY <1>4, <2>1, <3>1, <5>2
        <5>4. QED BY <5>1, <5>3
      <4>3. QED BY <1>6, <2>1, <4>1, <4>2
    <3>3. ASSUME NEW n \in 1 .. tmpOut'[j].number - 1
          PROVE  \E i \in 1 .. j - 1 : tmpOut'[i] = [printer |-> p, number |-> n]
      <4>1. n \in 1 .. cursor[p] + k /\ n < cursor[p] + (j - Len(tmpOut))
        BY <1>4, <2>1, <2>3, <3>1
      <4>2. CASE n <= cursor[p]
        <5>1. n \in 1 .. cursor[p]
          BY <3>1, <4>1, <4>2
        <5>2. PICK i \in DOMAIN tmpOut : tmpOut[i] = [printer |-> p, number |-> n]
          BY <1>16, <3>1, <5>1 DEF InTmpOut
        <5>3. i \in 1 .. j - 1 /\ tmpOut'[i] = tmpOut[i]
          BY <1>3, <1>4, <1>5, <2>1, <2>3
        <5>4. QED BY <5>2, <5>3
      <4>3. CASE n > cursor[p]
        <5>1. n - cursor[p] \in 1 .. k /\ Len(tmpOut) + (n - cursor[p]) \in 1 .. j - 1
          <6> DEFINE m == n - cursor[p]
          <6>1. n \in Int /\ cursor[p] \in Int /\ m \in Int /\ j \in Int /\ Len(tmpOut) \in Int
            BY <1>4, <2>1, <3>1, <4>1
          <6>2. m >= 1 /\ m <= k
            BY <3>1, <4>1, <4>3, <6>1
          <6>3. m < j - Len(tmpOut)
            BY <3>1, <4>1, <6>1
          <6> HIDE DEF m
          <6>4. m \in 1 .. k /\ Len(tmpOut) + m \in 1 .. j - 1
            BY <1>4, <6>1, <6>2, <6>3
          <6>5. QED BY <6>4 DEF m
        <5>2. tmpOut'[Len(tmpOut) + (n - cursor[p])] = [printer |-> p, number |-> n]
          <6>1. tmpOut'[Len(tmpOut) + (n - cursor[p])] =
                  [printer |-> p, number |-> cursor[p] + (n - cursor[p])]
            BY <1>3, <5>1
          <6>2. cursor[p] + (n - cursor[p]) = n
            BY <3>1, <4>1
          <6>3. QED BY <6>1, <6>2
        <5>3. QED BY <5>1, <5>2
      <4>4. QED BY <3>1, <4>1, <4>2, <4>3
    <3>4. QED BY <2>3, <3>2, <3>3
  <2>4. QED BY <1>6, <2>2, <2>3
<1>19. QED
  BY <1>9, <1>10, <1>11, <1>12, <1>13, <1>14, <1>17, <1>18 DEF SafeInv

\* The cursor moves to what was copied, and a printer closed by name is closed.
LEMMA MarkStep ==
  ASSUME IInv, NEW s \in Procs, Mark(s)
  PROVE  SafeInv'
<1> USE DEF flagVars, selectVars, locals, Goto
<1>0. /\ pc \in [Procs -> Labels] /\ index \in [Procs -> Nat] /\ copied \in [Procs -> Nat]
      /\ cursor \in [AllPrinters -> Nat]
      /\ consolidated \in [AllPrinters -> BOOLEAN] /\ closed \in [AllPrinters -> BOOLEAN]
  BY DEF IInv, TypeOK
<1>1. /\ UNCHANGED <<currentPriority, printersByPriority, mutex, open, promised, chunks,
                     written, tmpOut, index, opened, copied>>
      /\ pc[s] = "mark" /\ pc' = [pc EXCEPT ![s] = "advance"]
  BY DEF Mark
<1>2. PICK p \in AllPrinters : p = Target(s)
  <2>1. InLoop(s) \/ index[s] = 0
    BY <1>0, <1>1 DEF InLoop
  <2>2. QED BY <2>1, TargetType DEF IInv
<1>3. /\ cursor' = [cursor EXCEPT ![p] = cursor[p] + copied[s]]
      /\ consolidated' = [consolidated EXCEPT ![p] = TRUE]
      /\ closed' = [closed EXCEPT ![p] = ~open[p]]
  BY <1>2 DEF Mark
<1>4. CASE index[s] = 0
  <2>1. p = Notifier
    BY <1>2, <1>4 DEF Target
  <2>2. NotifierInv'
    BY <1>0, <1>1, <1>3, <2>1 DEF IInv, NotifierInv
  <2>3. \A q \in Printers : cursor'[q] = cursor[q] /\ consolidated'[q] = consolidated[q]
                            /\ closed'[q] = closed[q]
    BY <1>0, <1>3, <2>1, NotifierAssumption DEF AllPrinters
  <2>4. \A t \in Procs : (InLoop(t)' <=> InLoop(t)) /\ (InLoop(t) => pc'[t] = pc[t])
    BY <1>0, <1>1, <1>4 DEF InLoop
  <2>5. QED BY <1>1, <2>2, <2>3, <2>4, Frame DEF SafeInv
<1>5. CASE index[s] # 0
  <2>1. InLoop(s)
    BY <1>0, <1>1, <1>5 DEF InLoop
  <2>2. /\ p \in Printers /\ p # Notifier
        /\ \A t \in Procs : InLoop(t) => t = s
    BY <1>2, <2>1, InLoopFacts, NotifierAssumption
  <2>3. /\ \A t \in Procs : InLoop(t)' <=> InLoop(t)
        /\ \A t \in Procs : Target(t)' = Target(t)
        /\ Created' = Created
    BY <1>0, <1>1 DEF InLoop, Target, Created
  <2>4. \A q \in Printers : /\ q # p => (Done(q)' <=> Done(q)) /\ closed'[q] = closed[q]
                                        /\ cursor'[q] = cursor[q]
                            /\ Done(q) => Done(q)'
                            /\ q = p /\ ~open[q] => Done(q)'
    BY <1>0, <1>1, <1>3 DEF Done, AllPrinters
  <2>5. ListInv' /\ LockInv'
    BY <1>1, <2>3 DEF IInv, ListInv, LockInv
  <2>6. NotifierInv'
    BY <1>0, <1>1, <1>3, <2>2 DEF IInv, NotifierInv, AllPrinters
  <2>7. LoopInv'
    <3> SUFFICES ASSUME NEW t \in Procs, InLoop(t)
                 PROVE  /\ ~opened[t] => \A i \in 1 .. index[t] - 1 :
                             Done(printersByPriority[currentPriority][i])'
                        /\ pc'[t] = "advance" /\ ~open[Target(t)] => Done(Target(t))'
      BY <1>1, <2>3 DEF LoopInv
    <3>1. t = s /\ Target(t) = p
      BY <1>2, <2>2
    <3>2. \A i \in 1 .. index[t] - 1 : printersByPriority[currentPriority][i] \in Printers
      BY InLoopFacts, ElementOfSeq
    <3>3. ~opened[t] => \A i \in 1 .. index[t] - 1 : Done(printersByPriority[currentPriority][i])
      BY DEF IInv, LoopInv
    <3>4. ~opened[t] => \A i \in 1 .. index[t] - 1 :
            Done(printersByPriority[currentPriority][i])'
      BY <1>1, <2>4, <3>2, <3>3 DEF Done
    <3>5. ~open[p] => Done(p)'
      BY <2>2, <2>4
    <3>6. QED BY <2>3, <3>1, <3>4, <3>5 DEF Done
  <2>8. LogInv' /\ PrioritiesNeverInterleave'
    <3>1. LogInv'
      BY <1>1, <2>3, <2>4 DEF IInv, LogInv
    <3>2. PrioritiesNeverInterleave'
      BY <1>1, <2>4 DEF IInv, PrioritiesNeverInterleave
    <3>3. QED BY <3>1, <3>2
  <2>9. /\ cursor[p] + copied[s] <= written[p]
        /\ ~open[p] => promised[p] <= cursor[p] + copied[s]
    BY <1>1, <1>2, <2>1 DEF IInv, CopyInv
  <2>10. CursorInv'
    <3> SUFFICES ASSUME NEW q \in Printers
                 PROVE  /\ cursor'[q] <= written[q] /\ written[q] <= chunks[q]
                        /\ promised[q] <= chunks[q]
                        /\ closed'[q] => ~open[q] /\ cursor'[q] >= promised[q]
      BY <1>1 DEF CursorInv
    <3>1. /\ cursor[q] <= written[q] /\ written[q] <= chunks[q]
          /\ promised[q] <= chunks[q]
          /\ closed[q] => ~open[q] /\ cursor[q] >= promised[q]
          /\ promised[q] \in Nat /\ cursor[q] \in Nat /\ copied[s] \in Nat
      BY <1>0 DEF IInv, CursorInv, TypeOK, AllPrinters
    <3>2. CASE q = p
      <4>1. cursor'[q] = cursor[p] + copied[s] /\ closed'[q] = ~open[p]
        BY <1>0, <1>3, <3>2
      <4>2. QED BY <2>9, <3>1, <3>2, <4>1
    <3>3. CASE q # p
      BY <2>4, <3>1, <3>3
    <3>4. QED BY <3>2, <3>3
  <2>11. CopyInv'
    <3>1. pc'[s] = "advance"
      BY <1>0, <1>1
    <3>2. QED BY <2>2, <2>3, <3>1 DEF CopyInv
  <2>12. TakenInv'
    <3>1. \A t \in Procs : \A q \in Printers : ~Copying(t, q)'
      BY <1>0, <1>1, <2>2, <2>3 DEF Copying, InLoop
    <3>2. ASSUME NEW q \in Printers PROVE InTmpOut(q, cursor[q])'
      <4>1. CASE q = p
        <5>1. Copying(s, p)
          BY <1>1, <1>2, <2>1 DEF Copying, InLoop
        <5>2. InTmpOut(p, cursor[p] + copied[s])
          BY <2>2, <5>1 DEF IInv, TakenInv
        <5>3. cursor'[p] = cursor[p] + copied[s]
          BY <1>0, <1>3
        <5>4. QED BY <1>1, <4>1, <5>2, <5>3 DEF InTmpOut
      <4>2. CASE q # p
        <5>1. \A t \in Procs : ~Copying(t, q)
          BY <1>2, <2>2, <4>2 DEF Copying, InLoop
        <5>2. InTmpOut(q, cursor[q])
          BY <5>1 DEF IInv, TakenInv
        <5>3. QED BY <1>1, <2>4, <4>2, <5>2 DEF InTmpOut
      <4>3. QED BY <4>1, <4>2
    <3>3. QED BY <3>1, <3>2 DEF TakenInv
  <2>13. ExactlyOnce'
    BY <1>1 DEF IInv, ExactlyOnce
  <2>14. QED
    BY <2>5, <2>6, <2>7, <2>8, <2>10, <2>11, <2>12, <2>13 DEF SafeInv
<1>6. QED BY <1>4, <1>5

\* The next printer, the end of the loop, or the next priority.
LEMMA AdvanceStep ==
  ASSUME IInv, NEW s \in Procs, Advance(s)
  PROVE  SafeInv'
<1> DEFINE last == index[s] = Len(printersByPriority[currentPriority])
<1> USE DEF flagVars, fileVars, selectVars, SomeOpen
<1>0. /\ pc \in [Procs -> Labels] /\ index \in [Procs -> Nat] /\ opened \in [Procs -> BOOLEAN]
      /\ pc[s] = "advance" /\ InLoop(s)
      /\ UNCHANGED <<printersByPriority, flagVars, chunks, fileVars, copied>>
  BY DEF Advance, InLoop, IInv, TypeOK
<1>1. /\ \A t \in Procs : InLoop(t) => t = s
      /\ index[s] \in 1 .. Len(printersByPriority[currentPriority])
      /\ currentPriority \in Priorities
      /\ printersByPriority[currentPriority] \in Seq(Printers)
      /\ Target(s) = printersByPriority[currentPriority][index[s]]
  BY <1>0, InLoopFacts
\* the printers passed are done, unless one of them was open
<1>2. ~SomeOpen(s) => \A i \in 1 .. index[s] : Done(printersByPriority[currentPriority][i])
  <2> SUFFICES ASSUME ~SomeOpen(s), NEW i \in 1 .. index[s]
               PROVE  Done(printersByPriority[currentPriority][i])
    OBVIOUS
  <2>1. CASE i = index[s]
    BY <1>0, <1>1, <2>1 DEF IInv, LoopInv
  <2>2. CASE i # index[s]
    <3>1. i \in 1 .. index[s] - 1
      BY <1>0, <2>2
    <3>2. QED BY <1>0, <3>1 DEF IInv, LoopInv
  <2>3. QED BY <2>1, <2>2
<1>3. CASE /\ ~last
           /\ index' = [index EXCEPT ![s] = @ + 1]
           /\ opened' = [opened EXCEPT ![s] = SomeOpen(s)]
           /\ Goto(s, "consolidate")
           /\ UNCHANGED <<selectVars, mutex>>
  <2>1. /\ \A t \in Procs : InLoop(t)' => t = s
        /\ pc'[s] = "consolidate" /\ index'[s] = index[s] + 1 /\ opened'[s] = SomeOpen(s)
    BY <1>0, <1>1, <1>3 DEF InLoop, Goto
  <2>2. \A t \in Procs : \A q \in Printers : ~Copying(t, q) /\ ~Copying(t, q)'
    BY <1>0, <1>1, <2>1 DEF Copying, InLoop
  <2>3. \A q \in Printers : Done(q)' <=> Done(q)
    BY <1>0 DEF Done
  <2>4. ListInv' /\ NotifierInv'
    BY <1>0, <1>3 DEF IInv, ListInv, NotifierInv
  <2>5. LockInv'
    <3>1. index[s] + 1 \in DOMAIN printersByPriority[currentPriority]
      BY <1>0, <1>1, <1>3, LenProperties
    <3>2. QED BY <1>0, <1>3, <2>1, <3>1 DEF IInv, LockInv
  <2>6. LoopInv'
    <3> SUFFICES ASSUME NEW t \in Procs, InLoop(t)'
                 PROVE  /\ ~opened'[t] => \A i \in 1 .. index'[t] - 1 :
                             Done(printersByPriority[currentPriority][i])'
                        /\ pc'[t] # "advance"
      BY <1>0, <1>3 DEF LoopInv
    <3>1. t = s /\ index'[t] - 1 = index[s]
      BY <1>0, <2>1
    <3>2. QED BY <1>0, <1>2, <1>3, <2>1, <3>1 DEF Done
  <2>7. LogInv' /\ PrioritiesNeverInterleave' /\ ExactlyOnce'
    <3>1. LogInv'
      BY <1>0, <1>3, <2>3 DEF IInv, LogInv, Created
    <3>2. PrioritiesNeverInterleave'
      BY <1>0, <2>3 DEF IInv, PrioritiesNeverInterleave
    <3>3. ExactlyOnce'
      BY <1>0 DEF IInv, ExactlyOnce
    <3>4. QED BY <3>1, <3>2, <3>3
  <2>8. CursorInv' /\ CopyInv'
    BY <1>0, <2>1 DEF IInv, CursorInv, CopyInv
  <2>9. TakenInv'
    BY <1>0, <2>2 DEF IInv, TakenInv, InTmpOut
  <2>10. QED
    BY <2>4, <2>5, <2>6, <2>7, <2>8, <2>9 DEF SafeInv
<1>4. CASE Unlock(s) /\ UNCHANGED selectVars
  BY <1>0, <1>1, <1>4, UnlockStep DEF IInv, LogInv
<1>5. CASE last /\ ~SomeOpen(s) /\ Select(s)
  <2>1. \A p \in Created : Priority[p] = currentPriority => Done(p)
    <3> SUFFICES ASSUME NEW p \in Created, Priority[p] = currentPriority PROVE Done(p)
      OBVIOUS
    <3>1. PICK i \in DOMAIN printersByPriority[currentPriority] :
            printersByPriority[currentPriority][i] = p
      BY DEF Created
    <3>2. i \in 1 .. index[s]
      BY <1>1, <1>5, LenProperties
    <3>3. QED BY <1>2, <1>5, <3>1, <3>2
  <2>2. \A i \in DOMAIN tmpOut : tmpOut[i].printer \in Printers => Done(tmpOut[i].printer)
    BY <2>1 DEF IInv, LogInv
  <2>3. QED BY <1>0, <1>1, <1>5, <2>2, SelectStep
<1>6. QED BY <1>3, <1>4, <1>5 DEF Advance

\* The notifier is never in the loop.
LEMMA AdvanceNotifierStep ==
  ASSUME IInv, NEW s \in Procs, AdvanceNotifier(s)
  PROVE  SafeInv'
<1> USE DEF AdvanceNotifier, flagVars, fileVars, selectVars
<1>0. pc \in [Procs -> Labels] /\ index \in [Procs -> Nat]
  BY DEF IInv, TypeOK
<1>1. NotifierInv' /\ ~InLoop(s)
  BY DEF IInv, NotifierInv, InLoop
<1>2. CASE mutex = s /\ Unlock(s)
  <2>1. \A t \in Procs : ~InLoop(t)
    BY <1>1, <1>2 DEF IInv, LockInv
  <2>2. \A t \in Procs : ~InLoop(t)'
    BY <1>0, <1>2, <2>1 DEF Unlock, AfterFlush, Goto, InLoop
  <2>3. QED BY <1>1, <2>1, <2>2, Frame DEF SafeInv
<1>3. CASE /\ pc' = [pc EXCEPT ![s] = IF s \in Closers THEN "done" ELSE "end"]
           /\ UNCHANGED <<mutex, index, opened>>
  <2>1. \A t \in Procs : (InLoop(t)' <=> InLoop(t)) /\ (InLoop(t) => pc'[t] = pc[t])
    BY <1>0, <1>1, <1>3 DEF InLoop
  <2>2. QED BY <1>1, <1>3, <2>1, Frame DEF SafeInv
<1>4. QED BY <1>2, <1>3 DEF Goto

\* Nothing is printed yet.
LEMMA InitInv == Init => IInv
<1> SUFFICES ASSUME Init PROVE IInv
  OBVIOUS
<1>1. TypeOK
  BY InitType
<1>2. \A t \in Procs : ~InLoop(t)
  BY DEF Init, InLoop
<1>3. tmpOut = <<>> /\ DOMAIN tmpOut = {}
  BY DEF Init
<1>4. \A k \in Priorities : printersByPriority[k] = <<>>
  BY DEF Init
<1>5. ListInv
  BY <1>4 DEF Init, ListInv
<1>6. NotifierInv
  BY DEF Init, NotifierInv, AllPrinters
<1>7. LockInv /\ LoopInv /\ CopyInv
  BY <1>2 DEF LockInv, LoopInv, CopyInv
<1>8. LogInv /\ PrioritiesNeverInterleave /\ ExactlyOnce
  BY <1>3 DEF LogInv, PrioritiesNeverInterleave, ExactlyOnce
<1>9. CursorInv
  BY DEF Init, CursorInv, AllPrinters
<1>10. TakenInv
  <2>1. \A t \in Procs, p \in Printers : ~Copying(t, p)
    BY <1>2 DEF Copying, InLoop
  <2>2. \A p \in Printers : InTmpOut(p, 0) /\ cursor[p] = 0
    BY <1>3 DEF Init, InTmpOut, AllPrinters
  <2>3. QED BY <2>1, <2>2 DEF TakenInv
<1>11. QED
  BY <1>1, <1>5, <1>6, <1>7, <1>8, <1>9, <1>10 DEF IInv

\* Every step keeps the invariant.
LEMMA IInvStep == IInv /\ [Next]_vars => IInv'
<1> SUFFICES ASSUME IInv, [Next]_vars PROVE IInv'
  OBVIOUS
<1>1. TypeOK'
  BY TypeStep DEF IInv
<1>2. SafeInv'
  <2>1. CASE Start
    BY <2>1, StartStep
  <2>2. ASSUME NEW p \in Printers, Printer(p) PROVE SafeInv'
    BY <2>2, PrinterStep
  <2>3. ASSUME NEW p \in Printers, ClosePrinter(p) PROVE SafeInv'
    BY <2>3, ClosePrinterSteps
  <2>4. ASSUME NEW p \in AllPrinters, Out(p) \/ FlushPrinter(p) PROVE SafeInv'
    BY <2>4, PrintSteps
  <2>5. ASSUME NEW s \in Procs, FlushLock(s) PROVE SafeInv'
    BY <2>5, FlushLockStep
  <2>6. ASSUME NEW s \in Procs, FlushTarget(s) PROVE SafeInv'
    BY <2>6, FlushTargetStep
  <2>7. ASSUME NEW s \in Procs, Copy(s) PROVE SafeInv'
    BY <2>7, CopyStep
  <2>8. ASSUME NEW s \in Procs, Mark(s) PROVE SafeInv'
    BY <2>8, MarkStep
  <2>9. ASSUME NEW s \in Procs, Advance(s) PROVE SafeInv'
    BY <2>9, AdvanceStep
  <2>10. ASSUME NEW s \in Procs, AdvanceNotifier(s) PROVE SafeInv'
    BY <2>10, AdvanceNotifierStep
  <2>11. ASSUME NEW s \in Procs, ClosePrinters(s) PROVE SafeInv'
    BY <2>11, ClosePrinterSteps
  <2>12. ASSUME NEW s \in Procs,
                \/ FlushBlocking(s) \/ FlushTest(s) \/ End(s) \/ ClosedPrinters(s)
                \/ Notify(s) \/ SetEnded(s) \/ Serialize(s)
                \/ TimerWakes(s) \/ TimerLate(s) \/ SetTimeouted(s)
         PROVE  SafeInv'
    BY <2>12, OutsideSteps
  <2>13. CASE UNCHANGED vars
    BY <2>13, StutterStep
  <2>14. QED
    BY <2>1, <2>2, <2>3, <2>4, <2>5, <2>6, <2>7, <2>8, <2>9, <2>10, <2>11, <2>12, <2>13
       DEF Next, User, Flush, Close, Quiet
<1>3. QED
  BY <1>1, <1>2 DEF IInv, SafeInv

(***************************************************************************)
(* The theorems.                                                           *)
(***************************************************************************)
\* The conjunction behind the safety properties holds in every reachable
\* state, whatever the number of printers, priorities and goroutines.
THEOREM Invariant == Spec => []IInv
<1>1. QED
  BY InitInv, IInvStep, PTL DEF Spec

\* Every variable keeps its type, and the mutex is held by a goroutine.
THEOREM TypeCorrect == Spec => []TypeOK
<1>1. IInv => TypeOK
  BY DEF IInv
<1>2. QED
  BY <1>1, Invariant, PTL

\* "Session printers are concatenated in order": the output of a priority is
\* never cut by the output of another one in the session tmp file.
THEOREM PrioritiesAreContiguous == Spec => []PrioritiesNeverInterleave
<1>1. IInv => PrioritiesNeverInterleave
  BY DEF IInv
<1>2. QED
  BY <1>1, Invariant, PTL

\* The chunks of a printer are in the session tmp file once each, in order.
THEOREM ChunksExactlyOnce == Spec => []ExactlyOnce
<1>1. IInv => ExactlyOnce
  BY DEF IInv
<1>2. QED
  BY <1>1, Invariant, PTL

\* A printer is closed, and its tmp files removed, only after all it printed
\* before it was closed by name is in the session tmp file.
THEOREM ClosedPrintersAreConsolidated == Spec => []ClosedAfterConsolidation
<1>1. IInv => ClosedAfterConsolidation
  BY DEF IInv, CursorInv, ClosedAfterConsolidation
<1>2. QED
  BY <1>1, Invariant, PTL

(***************************************************************************)
(* The end of an orderly session.                                          *)
(***************************************************************************)
\* A goroutine moves nobody else.
LEMMA OthersStay ==
  ASSUME IInv, NEW s \in Procs, Flush(s) \/ Close(s), NEW t \in Procs, t # s
  PROVE  /\ pc'[t] = pc[t] /\ index'[t] = index[t] /\ opened'[t] = opened[t]
         /\ copied'[t] = copied[t] /\ toClose'[t] = toClose[t]
<1>0. /\ pc \in [Procs -> Labels] /\ index \in [Procs -> Nat]
      /\ opened \in [Procs -> BOOLEAN] /\ copied \in [Procs -> Nat]
      /\ toClose \in [Procs -> SUBSET Printers]
  BY DEF IInv, TypeOK
<1> USE <1>0 DEF Goto, locals
<1>a. ASSUME Select(s)
      PROVE  pc'[t] = pc[t] /\ index'[t] = index[t] /\ opened'[t] = opened[t]
  BY <1>a DEF Select, Begin, Unlock
<1>1. CASE FlushBlocking(s) \/ FlushTest(s) \/ Copy(s) \/ Mark(s)
  BY <1>1 DEF FlushBlocking, FlushTest, Copy, Mark
<1>2. CASE FlushLock(s)
  BY <1>2, <1>a DEF FlushLock, Begin
<1>3. CASE FlushTarget(s) \/ AdvanceNotifier(s)
  BY <1>3 DEF FlushTarget, AdvanceNotifier, Unlock
<1>4. CASE Advance(s)
  BY <1>4, <1>a DEF Advance, Unlock
<1>5. CASE Close(s)
  BY <1>5 DEF Close, End, ClosePrinters, ClosedPrinters, Notify, SetEnded, Serialize,
              TimerWakes, TimerLate, SetTimeouted
<1>6. QED BY <1>1, <1>2, <1>3, <1>4, <1>5 DEF Flush

\* The lock is taken when it is free and given back by its holder.
LEMMA MutexStep ==
  ASSUME IInv, [Next]_vars, mutex' # mutex
  PROVE  \E s \in Procs : Flush(s) /\ mutex \in {None, s} /\ pc'[s] # pc[s]
<1>1. ~ UNCHANGED vars
  BY DEF vars, shared, printing
<1>2. ~User
  BY DEF User, Start, Printer, Out, FlushPrinter, ClosePrinter
<1>3. ASSUME NEW s \in Procs PROVE ~Close(s)
  BY DEF Close, End, ClosePrinters, ClosedPrinters, Notify, SetEnded, Serialize,
         TimerWakes, TimerLate, SetTimeouted, shared, printing
<1>4. PICK s \in Procs : Flush(s)
  BY <1>1, <1>2, <1>3 DEF Next, Quiet
<1>0. pc \in [Procs -> Labels]
  BY DEF IInv, TypeOK
<1> USE <1>0 DEF Goto
<1>5. ASSUME Select(s), pc[s] \in {"lock", "advance"} PROVE pc'[s] # pc[s]
  BY <1>5 DEF Select, Begin, Unlock, AfterFlush
<1>6. CASE FlushLock(s)
  <2>1. mutex = None /\ pc[s] = "lock"
    BY <1>6 DEF FlushLock
  <2>2. pc'[s] # pc[s]
    BY <1>5, <1>6, <2>1 DEF FlushLock, Begin
  <2>3. QED BY <1>4, <2>1, <2>2
<1>7. CASE FlushTarget(s)
  <2>1. closed[Target(s)] /\ pc[s] = "consolidate" /\ Unlock(s)
    BY <1>7 DEF FlushTarget
  <2>2. index[s] # 0
    BY <2>1 DEF IInv, NotifierInv, Target
  <2>3. InLoop(s)
    BY <2>1, <2>2 DEF InLoop, IInv, TypeOK
  <2>4. QED BY <1>4, <2>1, <2>3, InLoopFacts DEF Unlock, AfterFlush
<1>8. CASE Advance(s)
  <2>1. InLoop(s) /\ pc[s] = "advance"
    BY <1>8 DEF Advance, InLoop
  <2>2. pc'[s] # pc[s]
    BY <1>5, <1>8, <2>1 DEF Advance, Unlock, AfterFlush
  <2>3. QED BY <1>4, <2>1, <2>2, InLoopFacts
<1>9. CASE AdvanceNotifier(s)
  BY <1>4, <1>9 DEF AdvanceNotifier, Unlock, AfterFlush
<1>10. CASE FlushBlocking(s) \/ FlushTest(s) \/ Copy(s) \/ Mark(s)
  BY <1>10 DEF FlushBlocking, FlushTest, Copy, Mark, shared, printing
<1>11. QED BY <1>4, <1>6, <1>7, <1>8, <1>9, <1>10 DEF Flush

\* A flusher never closes the session.
LEMMA FlusherStep == IInv /\ FlusherInv /\ [Next]_vars => FlusherInv'
<1> SUFFICES ASSUME IInv, FlusherInv, [Next]_vars, NEW s \in Flushers
             PROVE  /\ pc'[s] \in {"idle", "lock"} \cup Holding
                    /\ pc'[s] \in Holding => mutex' = s
  BY DEF FlusherInv
<1>0. /\ s \in Procs /\ pc \in [Procs -> Labels]
      /\ s \notin Enders \cup Timers \cup Closers
      /\ pc[s] \in {"idle", "lock"} \cup Holding
      /\ pc[s] \in Holding => mutex = s
      /\ s # None
  BY FlushersAssumption, NoneNotProc DEF Procs, IInv, TypeOK, FlusherInv
<1> USE <1>0
<1>1. CASE pc'[s] = pc[s]
  <2>1. CASE mutex' = mutex
    BY <1>1, <2>1
  <2>2. CASE mutex' # mutex
    <3>1. PICK t \in Procs : mutex \in {None, t} /\ pc'[t] # pc[t]
      BY <2>2, MutexStep
    <3>2. t # s
      BY <1>1, <3>1
    <3>3. QED BY <1>1, <3>1, <3>2
  <2>3. QED BY <2>1, <2>2
<1>2. CASE pc'[s] # pc[s]
  <2>1. ~ UNCHANGED vars /\ ~User
    BY <1>2 DEF vars, procVars, User, Start, Printer, Out, FlushPrinter, ClosePrinter
  <2>2. Flush(s) \/ Close(s)
    BY <1>2, <2>1, OthersStay DEF Next, Quiet
  <2> USE <1>2 DEF Goto, AfterFlush, Holding
  <2>a. ASSUME Select(s) PROVE pc'[s] = "idle" \/ (pc'[s] = "consolidate" /\ mutex' = s)
    BY <2>a DEF Select, Begin, Unlock
  <2>3. CASE FlushBlocking(s) \/ FlushTest(s)
    BY <2>3 DEF FlushBlocking, FlushTest
  <2>4. CASE FlushLock(s)
    BY <2>4, <2>a DEF FlushLock, Begin
  <2>5. CASE FlushTarget(s)
    BY <2>5 DEF FlushTarget, Unlock
  <2>6. CASE Copy(s) \/ Mark(s)
    BY <2>6 DEF Copy, Mark
  <2>7. CASE Advance(s)
    BY <2>7, <2>a DEF Advance, Unlock, selectVars
  <2>8. CASE AdvanceNotifier(s)
    BY <2>8 DEF AdvanceNotifier, Unlock
  <2>9. CASE Close(s)
    BY <2>9 DEF Close, End, ClosePrinters, ClosedPrinters, Notify, SetEnded, Serialize,
                TimerWakes, TimerLate, SetTimeouted
  <2>10. QED BY <2>2, <2>3, <2>4, <2>5, <2>6, <2>7, <2>8, <2>9 DEF Flush
<1>3. QED BY <1>1, <1>2

\* What a step does to the flags of a printer.
LEMMA FlagSteps ==
  ASSUME IInv, [Next]_vars
  PROVE  \/ UNCHANGED flagVars
         \/ (\E p \in Printers : closePrinter(p)) /\ UNCHANGED <<closed, chunks, cursor>>
         \/ (\E s \in Procs : Mark(s))
<1>1. ASSUME NEW p \in Printers, ClosePrinter(p)
      PROVE  closePrinter(p) /\ UNCHANGED <<closed, chunks, cursor>>
  BY <1>1 DEF ClosePrinter, fileVars
<1>2. ASSUME NEW s \in Procs, ClosePrinters(s)
      PROVE  (\E p \in Printers : closePrinter(p)) /\ UNCHANGED <<closed, chunks, cursor>>
  BY <1>2 DEF ClosePrinters, Created, fileVars
<1>3. CASE User
  BY <1>1, <1>3 DEF User, Start, Printer, Out, FlushPrinter
<1>4. ASSUME NEW s \in Procs, Flush(s) PROVE UNCHANGED flagVars \/ Mark(s)
  BY <1>4 DEF Flush, FlushBlocking, FlushTest, FlushLock, FlushTarget, Copy, Advance,
              AdvanceNotifier, shared, printing
<1>5. ASSUME NEW s \in Procs, Close(s) PROVE UNCHANGED flagVars \/ ClosePrinters(s)
  BY <1>5 DEF Close, End, ClosedPrinters, Notify, SetEnded, Serialize,
              TimerWakes, TimerLate, SetTimeouted, shared, printing
<1>6. CASE UNCHANGED vars
  BY <1>6 DEF vars, shared, printing
<1>7. QED BY <1>1, <1>2, <1>3, <1>4, <1>5, <1>6 DEF Next, Quiet

\* What Mark does, to a printer or to the notifier.
LEMMA MarkFacts ==
  ASSUME IInv, NEW s \in Procs, Mark(s)
  PROVE  \E p \in AllPrinters :
           /\ p = Target(s)
           /\ consolidated' = [consolidated EXCEPT ![p] = TRUE]
           /\ closed' = [closed EXCEPT ![p] = ~open[p]]
           /\ cursor' = [cursor EXCEPT ![p] = cursor[p] + copied[s]]
<1>1. InLoop(s) \/ index[s] = 0
  BY DEF Mark, InLoop, IInv, TypeOK
<1>2. Target(s) \in AllPrinters
  BY <1>1, TargetType DEF IInv
<1>3. QED BY <1>2 DEF Mark

\* Whoever is consolidated after it was closed by name is closed for good.
LEMMA DoneStep == IInv /\ DoneInv /\ [Next]_vars => DoneInv'
<1> SUFFICES ASSUME IInv, DoneInv, [Next]_vars, NEW q \in Printers, Done(q)'
             PROVE  closed'[q]
  BY DEF DoneInv
<1>0. /\ open \in [AllPrinters -> BOOLEAN] /\ consolidated \in [AllPrinters -> BOOLEAN]
      /\ closed \in [AllPrinters -> BOOLEAN] /\ q \in AllPrinters
      /\ Done(q) => closed[q]
  BY DEF IInv, TypeOK, AllPrinters, DoneInv
<1>1. CASE UNCHANGED flagVars
  BY <1>0, <1>1 DEF flagVars, Done
<1>2. ASSUME NEW p \in Printers, closePrinter(p), UNCHANGED closed PROVE closed'[q]
  BY <1>0, <1>2 DEF closePrinter, Done
<1>3. ASSUME NEW s \in Procs, Mark(s) PROVE closed'[q]
  <2>1. PICK p \in AllPrinters : /\ consolidated' = [consolidated EXCEPT ![p] = TRUE]
                                 /\ closed' = [closed EXCEPT ![p] = ~open[p]]
    BY <1>3, MarkFacts
  <2>2. open' = open
    BY <1>3 DEF Mark
  <2>3. CASE q = p
    BY <1>0, <2>1, <2>2, <2>3 DEF Done
  <2>4. CASE q # p
    BY <1>0, <2>1, <2>2, <2>4 DEF Done
  <2>5. QED BY <2>3, <2>4
<1>4. QED BY <1>1, <1>2, <1>3, FlagSteps

\* Only Out adds a chunk.
LEMMA ChunkSteps ==
  ASSUME [Next]_vars
  PROVE  UNCHANGED chunks \/ \E p \in AllPrinters : Out(p)
<1>1. CASE User
  BY <1>1 DEF User, Start, Printer, ClosePrinter, FlushPrinter
<1>2. ASSUME NEW s \in Procs, Flush(s) PROVE UNCHANGED chunks
  BY <1>2 DEF Flush, FlushBlocking, FlushTest, FlushLock, FlushTarget, Copy, Mark, Advance,
              AdvanceNotifier, shared, printing
<1>3. ASSUME NEW s \in Procs, Close(s) PROVE UNCHANGED chunks
  BY <1>3 DEF Close, End, ClosePrinters, ClosedPrinters, Notify, SetEnded, Serialize,
              TimerWakes, TimerLate, SetTimeouted, shared, printing
<1>4. CASE UNCHANGED vars
  BY <1>4 DEF vars, shared, printing
<1>5. QED BY <1>1, <1>2, <1>3, <1>4 DEF Next, Quiet

\* In an orderly session nothing is printed to a printer after it was closed
\* by name.
LEMMA PromiseStep == IInv /\ Orderly /\ PromiseInv /\ [Next]_vars => PromiseInv'
<1> SUFFICES ASSUME IInv, Orderly, PromiseInv, [Next]_vars, NEW q \in Printers, ~open'[q]
             PROVE  promised'[q] = chunks'[q]
  BY DEF PromiseInv
<1>0. /\ open \in [AllPrinters -> BOOLEAN] /\ promised \in [AllPrinters -> Nat]
      /\ chunks \in [AllPrinters -> Nat] /\ q \in AllPrinters
      /\ ~open[q] => promised[q] = chunks[q]
  BY DEF IInv, TypeOK, AllPrinters, PromiseInv
<1>1. ASSUME NEW p \in AllPrinters, Out(p) PROVE promised'[q] = chunks'[q]
  BY <1>0, <1>1 DEF Out, flagVars
<1>2. CASE UNCHANGED chunks
  <2>1. CASE UNCHANGED flagVars
    BY <1>0, <1>2, <2>1 DEF flagVars
  <2>2. ASSUME NEW p \in Printers, closePrinter(p) PROVE promised'[q] = chunks'[q]
    BY <1>0, <1>2, <2>2 DEF closePrinter
  <2>3. ASSUME NEW s \in Procs, Mark(s) PROVE promised'[q] = chunks'[q]
    BY <1>0, <1>2, <2>3 DEF Mark
  <2>4. QED BY <2>1, <2>2, <2>3, FlagSteps
<1>3. QED BY <1>1, <1>2, ChunkSteps

\* A set of numbers has a least one when it is finite: the priorities are
\* sorted.
LEMMA LeastPriority ==
  ASSUME NEW T, T \subseteq Priorities, T # {}
  PROVE  \E k \in T : \A j \in T : ~(j < k)
<1> DEFINE Below(k) == {j \in T : j < k}
           Sets == {Below(k) : k \in T}
<1>1. IsFiniteSet(T)
  <2>1. Priority \in Surjection(Printers, Priorities)
    BY DEF Surjection, Priorities
  <2>2. QED BY <2>1, PrintersAssumption, FS_Surjection, FS_Subset
<1>2. Sets \subseteq FiniteSubsetsOf(T) /\ Sets # {}
  <2>1. \A k \in T : Below(k) \in SUBSET T
    OBVIOUS
  <2>2. \A k \in T : IsFiniteSet(Below(k))
    BY <1>1, <2>1, FS_Subset
  <2>3. \A k \in T : Below(k) \in FiniteSubsetsOf(T)
    BY <2>1, <2>2 DEF FiniteSubsetsOf
  <2> HIDE DEF Below
  <2>4. QED BY <2>3
<1>3. PICK b \in Sets : \A a \in Sets : ~(<<a, b>> \in StrictSubsetOrdering(T))
  <2>1. IsWellFoundedOn(StrictSubsetOrdering(T), FiniteSubsetsOf(T))
    BY <1>1, FS_StrictSubsetOrderingWellFounded
  <2> HIDE DEF Sets
  <2>2. QED BY <1>2, <2>1, WFMin
<1>4. PICK k \in T : b = Below(k)
  BY <1>3
<1>5. ASSUME NEW j \in T, j < k PROVE FALSE
  <2>1. T \subseteq Int
    BY PrioritiesType
  <2>2. \A i \in T : i < j => i < k
    BY <1>5, <2>1
  <2>3. Below(j) \subseteq Below(k) /\ j \in Below(k) /\ j \notin Below(j)
    <3>1. j \in Int /\ ~(j < j)
      BY <2>1
    <3>2. Below(j) \subseteq Below(k)
      BY <2>2
    <3>3. j \in Below(k)
      BY <1>5
    <3>4. j \notin Below(j)
      BY <3>1
    <3>5. QED BY <3>2, <3>3, <3>4
  <2>4. Below(j) \in SUBSET T /\ Below(k) \in SUBSET T /\ Below(j) # Below(k)
    BY <2>3
  <2>5. <<Below(j), Below(k)>> \in StrictSubsetOrdering(T)
    BY <2>3, <2>4 DEF StrictSubsetOrdering
  <2>6. QED BY <1>3, <1>4, <2>5
<1>6. QED BY <1>5

\* When every printer is closed by name and nextPriority finds nothing, all
\* that was printed is taken.
LEMMA NothingLeft ==
  ASSUME IInv, DoneInv, PromiseInv, AllClosed, NextPriority = None
  PROVE  AllTaken
<1>1. \A k \in Priorities : ~NothingPrintedYet(k)
  BY DEF NothingPrintedYet, Of, AllClosed
<1>2. \A k \in Priorities : ~Pending(k)
  <2> DEFINE T == {k \in Priorities : Pending(k)}
  <2> SUFFICES ASSUME T # {} PROVE FALSE
    OBVIOUS
  <2>1. PICK k \in T : \A j \in T : ~(j < k)
    BY LeastPriority
  <2>2. Selected(k)
    BY <1>1, <2>1 DEF Selected
  <2>3. NextPriority \in Priorities
    BY <2>2 DEF NextPriority
  <2>4. QED BY <2>3, PrioritiesType
<1>3. SUFFICES ASSUME NEW p \in Created PROVE cursor[p] = chunks[p]
  BY DEF AllTaken
<1>4. /\ p \in Printers /\ p \in AllPrinters /\ ~open[p] /\ promised[p] = chunks[p]
      /\ consolidated[p] \in BOOLEAN /\ chunks[p] \in Nat /\ cursor[p] \in Nat
      /\ written[p] \in Nat
      /\ cursor[p] <= written[p] /\ written[p] <= chunks[p]
      /\ closed[p] => cursor[p] >= promised[p]
  BY DEF Created, AllPrinters, AllClosed, PromiseInv, IInv, TypeOK, CursorInv
<1>5. p \in Of(Priority[p]) /\ Priority[p] \in Priorities
  BY <1>3, <1>4, PrioritiesType DEF Of
<1>6. consolidated[p] \/ chunks[p] = 0
  BY <1>2, <1>4, <1>5 DEF Pending
<1>7. consolidated[p] => closed[p]
  BY <1>4 DEF DoneInv, Done
<1>8. QED BY <1>4, <1>6, <1>7

\* Only Mark moves a cursor.
LEMMA CursorSteps ==
  ASSUME [Next]_vars
  PROVE  UNCHANGED cursor \/ \E s \in Procs : Mark(s)
<1>1. CASE User
  BY <1>1 DEF User, Start, Printer, Out, ClosePrinter, FlushPrinter, fileVars
<1>2. ASSUME NEW s \in Procs, Flush(s) PROVE UNCHANGED cursor \/ Mark(s)
  BY <1>2 DEF Flush, FlushBlocking, FlushTest, FlushLock, FlushTarget, Copy, Advance,
              AdvanceNotifier, shared, printing, fileVars
<1>3. ASSUME NEW s \in Procs, Close(s) PROVE UNCHANGED cursor
  BY <1>3 DEF Close, End, ClosePrinters, ClosedPrinters, Notify, SetEnded, Serialize,
              TimerWakes, TimerLate, SetTimeouted, shared, printing, fileVars
<1>4. CASE UNCHANGED vars
  BY <1>4 DEF vars, shared, printing, fileVars
<1>5. QED BY <1>1, <1>2, <1>3, <1>4 DEF Next, Quiet

\* Once a goroutine has begun to close an orderly session, nothing is created
\* or printed any more: printers only close, and cursors only advance.
LEMMA Progress ==
  ASSUME IInv, IInv', Orderly, [Next]_vars, NEW f \in Finishers, pc[f] # "idle"
  PROVE  /\ ~User /\ Created' = Created /\ chunks' = chunks /\ started' = started
         /\ \A p \in Printers : open'[p] => open[p]
         /\ AllClosed => AllClosed'
         /\ AllTaken => AllTaken'
<1>1. ~Active
  BY DEF Active, Finishers
<1>2. ~User
  BY <1>1 DEF User, Start, Printer, ClosePrinter, Out, FlushPrinter
<1>3. ASSUME NEW s \in Procs, Flush(s) PROVE UNCHANGED <<printersByPriority, started>>
  BY <1>3 DEF Flush, FlushBlocking, FlushTest, FlushLock, FlushTarget, Copy, Mark, Advance,
              AdvanceNotifier, shared, printing, sessionVars
<1>4. ASSUME NEW s \in Procs, Close(s) PROVE UNCHANGED <<printersByPriority, started>>
  BY <1>4 DEF Close, End, ClosePrinters, ClosedPrinters, Notify, SetEnded, Serialize,
              TimerWakes, TimerLate, SetTimeouted, shared, printing, sessionVars
<1>5. UNCHANGED <<printersByPriority, started>>
  BY <1>2, <1>3, <1>4 DEF Next, Quiet, vars, shared, printing, sessionVars
<1>6. Created' = Created
  BY <1>5 DEF Created
<1>7. chunks' = chunks
  BY <1>2, ChunkSteps DEF User
<1>8. /\ open \in [AllPrinters -> BOOLEAN] /\ cursor \in [AllPrinters -> Nat]
      /\ copied \in [Procs -> Nat] /\ Printers \subseteq AllPrinters
  BY DEF IInv, TypeOK, AllPrinters
<1>9. \A p \in Printers : open'[p] => open[p]
  <2>1. ASSUME NEW q \in Printers, closePrinter(q) PROVE \A p \in Printers : open'[p] => open[p]
    BY <1>8, <2>1 DEF closePrinter
  <2>2. QED BY <2>1, FlagSteps DEF flagVars, Mark
<1>10. AllClosed => AllClosed'
  BY <1>6, <1>9 DEF AllClosed, Created
<1>11. ASSUME AllTaken, NEW p \in Created PROVE cursor'[p] = chunks'[p]
  <2>1. p \in Printers /\ p \in AllPrinters /\ cursor[p] = chunks[p]
    BY <1>8, <1>11 DEF Created, AllTaken
  <2>2. cursor'[p] \in Nat /\ chunks'[p] \in Nat /\ written'[p] \in Nat /\ cursor'[p] <= chunks'[p]
    BY <2>1 DEF IInv, TypeOK, CursorInv
  <2>3. cursor'[p] >= cursor[p]
    <3>1. CASE UNCHANGED cursor
      BY <1>8, <2>1, <3>1
    <3>2. ASSUME NEW s \in Procs, Mark(s) PROVE cursor'[p] >= cursor[p]
      <4>1. PICK q \in AllPrinters : cursor' = [cursor EXCEPT ![q] = cursor[q] + copied[s]]
        BY <3>2, MarkFacts
      <4>2. cursor[p] \in Nat /\ copied[s] \in Nat
        BY <1>8, <2>1
      <4>3. CASE p = q
        BY <1>8, <4>1, <4>2, <4>3
      <4>4. CASE p # q
        BY <1>8, <2>1, <4>1, <4>2, <4>4
      <4>5. QED BY <4>3, <4>4
    <3>3. QED BY <1>2, <3>1, <3>2, CursorSteps
  <2>4. QED BY <1>7, <1>8, <2>1, <2>2, <2>3
<1>12. AllTaken => AllTaken'
  BY <1>6, <1>11 DEF AllTaken
<1>13. QED
  BY <1>2, <1>5, <1>6, <1>7, <1>9, <1>10, <1>12

\* What FinishInv says of s stays true while another goroutine moves.
LEMMA FinishOther ==
  ASSUME IInv, IInv', Orderly, [Next]_vars, NEW s \in Finishers, FinishInv(s),
         pc'[s] = pc[s], index'[s] = index[s], opened'[s] = opened[s], toClose'[s] = toClose[s]
  PROVE  FinishInv(s)'
<1>1. CASE pc[s] = "idle"
  BY <1>1 DEF FinishInv, InLoop, Holding
<1>2. CASE pc[s] # "idle"
  <2>1. /\ Created' = Created /\ started' = started /\ Created \subseteq Printers
        /\ \A p \in Printers : open'[p] => open[p]
        /\ AllClosed => AllClosed'
        /\ AllTaken => AllTaken'
    BY <1>2, Progress DEF Created
  <2>2. InLoop(s)' <=> InLoop(s)
    BY DEF InLoop
  <2>3. pc'[s] = "close" => \A p \in Created' : open'[p] => p \in toClose'[s]
    BY <2>1 DEF FinishInv
  <2>4. /\ pc'[s] \in {"flush", "lock", "notify", "end"} \cup Holding => AllClosed'
        /\ InLoop(s)' => ~opened'[s]
    BY <2>1, <2>2 DEF FinishInv
  <2>5. pc'[s] \in {"notify", "end"} \/ (pc'[s] \in Holding /\ index'[s] = 0)
          => (started' => AllTaken')
    BY <2>1 DEF FinishInv
  <2>6. QED BY <2>3, <2>4, <2>5 DEF FinishInv
<1>3. QED BY <1>1, <1>2

\* s leaves its flush, or starts on a priority, with every printer closed.
LEMMA FinishSelect ==
  ASSUME IInv, Orderly, DoneInv, PromiseInv, NEW s \in Finishers, AllClosed, AllClosed',
         AllTaken => AllTaken', Select(s)
  PROVE  FinishInv(s)'
<1>0. /\ s \in Procs /\ s \notin Flushers
      /\ pc \in [Procs -> Labels] /\ index \in [Procs -> Nat] /\ opened \in [Procs -> BOOLEAN]
  BY FlushersAssumption DEF Finishers, Procs, IInv, TypeOK
<1>1. CASE NextPriority = None
  <2>1. pc'[s] = "notify"
    BY <1>0, <1>1 DEF Select, Unlock, AfterFlush, Goto
  <2>2. AllTaken'
    BY <1>1, NothingLeft
  <2>3. QED BY <2>1, <2>2 DEF FinishInv, InLoop, Holding
<1>2. CASE NextPriority # None
  <2>1. pc'[s] = "consolidate" /\ index'[s] = 1 /\ ~opened'[s]
    BY <1>0, <1>2 DEF Select, Begin, Goto
  <2>2. QED BY <2>1 DEF FinishInv, InLoop, Holding
<1>3. QED BY <1>1, <1>2

\* s flushes the printers that it has closed.
LEMMA FinishFlush ==
  ASSUME IInv, IInv', Orderly, EndInv, [Next]_vars, NEW s \in Finishers, Flush(s)
  PROVE  FinishInv(s)'
<1>0. /\ s \in Procs /\ s \notin Flushers
      /\ pc \in [Procs -> Labels] /\ index \in [Procs -> Nat] /\ opened \in [Procs -> BOOLEAN]
      /\ FinishInv(s) /\ DoneInv /\ PromiseInv /\ EndedInv
  BY FlushersAssumption DEF Finishers, Procs, IInv, TypeOK, EndInv
<1>1. pc[s] \in {"flush", "lock"} \cup Holding
  BY <1>0 DEF Flush, FlushBlocking, FlushTest, FlushLock, FlushTarget, Copy, Mark, Advance,
              AdvanceNotifier, Holding
<1>2. AllClosed /\ (InLoop(s) => ~opened[s])
      /\ (pc[s] \in Holding /\ index[s] = 0 => (started => AllTaken))
  BY <1>0, <1>1 DEF FinishInv
<1>3. /\ Created' = Created /\ started' = started
      /\ AllClosed' /\ (AllTaken => AllTaken')
  <2>1. pc[s] # "idle"
    BY <1>1 DEF Holding
  <2>2. QED BY <1>2, <2>1, Progress
\* the printer it is on is closed by name, and all it printed is in its file
<1>4. ASSUME InLoop(s)
      PROVE  ~open[Target(s)] /\ (closed[Target(s)] => ~(written[Target(s)] < chunks[Target(s)]))
  <2>1. Target(s) \in Created /\ Target(s) \in Printers
    BY <1>0, <1>4, InLoopFacts
  <2>2. ~open[Target(s)] /\ promised[Target(s)] = chunks[Target(s)]
    BY <1>0, <1>2, <2>1 DEF AllClosed, PromiseInv
  <2>3. /\ chunks[Target(s)] \in Nat /\ written[Target(s)] \in Nat /\ cursor[Target(s)] \in Nat
        /\ cursor[Target(s)] <= written[Target(s)]
        /\ closed[Target(s)] => cursor[Target(s)] >= promised[Target(s)]
    BY <2>1 DEF IInv, TypeOK, CursorInv, AllPrinters
  <2>4. QED BY <2>2, <2>3
<1>5. CASE FlushTest(s)
  <2>1. pc'[s] = (IF ended THEN "notify" ELSE "lock")
    BY <1>0, <1>5 DEF FlushTest, Goto, AfterFlush
  <2>2. ended => (started => AllTaken)
    BY <1>0 DEF EndedInv
  <2>3. QED BY <1>3, <2>1, <2>2 DEF FinishInv, InLoop, Holding
<1>6. CASE FlushLock(s)
  <2>1. CASE Begin(s, currentPriority)
    <3>1. pc'[s] = "consolidate" /\ index'[s] = 1 /\ ~opened'[s]
      BY <1>0, <2>1 DEF Begin, Goto
    <3>2. QED BY <1>3, <3>1 DEF FinishInv, InLoop, Holding
  <2>2. CASE Select(s)
    BY <1>0, <1>2, <1>3, <2>2, FinishSelect
  <2>3. CASE NextPriority = None /\ index' = [index EXCEPT ![s] = 0] /\ Goto(s, "consolidate")
    <3>1. pc'[s] = "consolidate" /\ index'[s] = 0
      BY <1>0, <2>3 DEF Goto
    <3>2. AllTaken'
      BY <1>0, <1>2, <1>3, <2>3, NothingLeft
    <3>3. QED BY <1>3, <3>1, <3>2 DEF FinishInv, InLoop, Holding
  <2>4. QED BY <1>6, <2>1, <2>2, <2>3 DEF FlushLock
<1>7. CASE FlushTarget(s)
  <2>1. pc[s] = "consolidate"
    BY <1>7 DEF FlushTarget
  <2>2. ~(closed[Target(s)] /\ written[Target(s)] < chunks[Target(s)])
    <3>1. CASE index[s] = 0
      BY <3>1 DEF Target, IInv, NotifierInv
    <3>2. CASE index[s] # 0
      <4>1. InLoop(s)
        BY <1>0, <2>1, <3>2 DEF InLoop
      <4>2. QED BY <1>4, <4>1
    <3>3. QED BY <3>1, <3>2
  <2>3. /\ pc'[s] \in {"advance", "copy"} /\ index'[s] = index[s] /\ opened'[s] = opened[s]
    BY <1>0, <1>7, <2>2 DEF FlushTarget, Goto
  <2>4. InLoop(s)' => InLoop(s)
    BY <2>1, <2>3 DEF InLoop
  <2>5. QED BY <1>2, <1>3, <2>1, <2>3, <2>4 DEF FinishInv, Holding
<1>8. CASE Copy(s) \/ Mark(s)
  <2>1. /\ pc[s] \in {"copy", "mark"} /\ pc'[s] \in {"mark", "advance"}
        /\ index'[s] = index[s] /\ opened'[s] = opened[s]
    BY <1>0, <1>8 DEF Copy, Mark, Goto, locals
  <2>2. InLoop(s)' => InLoop(s)
    BY <2>1 DEF InLoop
  <2>3. QED BY <1>2, <1>3, <2>1, <2>2 DEF FinishInv, Holding
<1>9. CASE Advance(s)
  <2>1. InLoop(s)
    BY <1>9 DEF Advance, InLoop
  <2>2. ~SomeOpen(s)
    BY <1>2, <1>4, <2>1 DEF SomeOpen
  <2>3. CASE /\ index' = [index EXCEPT ![s] = @ + 1]
             /\ opened' = [opened EXCEPT ![s] = SomeOpen(s)]
             /\ Goto(s, "consolidate")
    <3>1. pc'[s] = "consolidate" /\ index'[s] = index[s] + 1 /\ ~opened'[s]
      BY <1>0, <2>2, <2>3 DEF Goto
    <3>2. index'[s] # 0
      BY <1>0, <3>1
    <3>3. QED BY <1>3, <3>1, <3>2 DEF FinishInv, InLoop, Holding
  <2>4. CASE Select(s)
    BY <1>0, <1>2, <1>3, <2>4, FinishSelect
  <2>5. QED BY <1>9, <2>2, <2>3, <2>4 DEF Advance
<1>10. CASE AdvanceNotifier(s)
  <2>1. pc[s] = "advance" /\ index[s] = 0
    BY <1>10 DEF AdvanceNotifier
  <2>2. started => AllTaken
    BY <1>2, <2>1 DEF Holding
  <2>3. pc'[s] \in {"notify", "end", "done"}
    BY <1>0, <1>10 DEF AdvanceNotifier, Unlock, AfterFlush, Goto
  <2>4. QED BY <1>3, <2>2, <2>3 DEF FinishInv, InLoop, Holding
<1>11. CASE FlushBlocking(s)
  BY <1>0, <1>11 DEF FlushBlocking
<1>12. QED
  BY <1>5, <1>6, <1>7, <1>8, <1>9, <1>10, <1>11 DEF Flush

\* s closes the printers, and ends the session.
LEMMA FinishClose ==
  ASSUME IInv, IInv', Orderly, EndInv, [Next]_vars, NEW s \in Finishers, Close(s)
  PROVE  FinishInv(s)'
<1>0. /\ s \in Procs
      /\ pc \in [Procs -> Labels] /\ index \in [Procs -> Nat] /\ opened \in [Procs -> BOOLEAN]
      /\ toClose \in [Procs -> SUBSET Printers]
      /\ FinishInv(s)
  BY DEF Finishers, Procs, IInv, TypeOK, EndInv
<1>1. pc[s] # "idle" =>
        /\ Created' = Created /\ started' = started
        /\ \A p \in Printers : open'[p] => open[p]
        /\ (AllClosed => AllClosed') /\ (AllTaken => AllTaken')
  BY Progress
<1>2. CASE End(s)
  <2>1. pc'[s] = "close" /\ toClose'[s] = Created /\ Created' = Created
    BY <1>0, <1>2 DEF End, Goto, Created, shared, printing
  <2>2. QED BY <2>1 DEF FinishInv, InLoop, Holding
<1>3. CASE ClosePrinters(s)
  <2>1. pc[s] = "close" /\ pc'[s] = "close"
    BY <1>3 DEF ClosePrinters
  <2>2. PICK p \in Created : closePrinter(p) /\ toClose' = [toClose EXCEPT ![s] = @ \ {p}]
    BY <1>3 DEF ClosePrinters
  <2>3. toClose'[s] = toClose[s] \ {p}
    BY <1>0, <2>2
  <2>4. ~open'[p]
    <3>1. p \in AllPrinters /\ open \in [AllPrinters -> BOOLEAN]
      BY DEF Created, AllPrinters, IInv, TypeOK
    <3>2. QED BY <2>2, <3>1 DEF closePrinter
  <2>5. ASSUME NEW q \in Created', open'[q] PROVE q \in toClose'[s]
    <3>1. q \in Created /\ open[q] /\ q # p
      BY <1>1, <2>1, <2>4, <2>5 DEF Created
    <3>2. QED BY <1>0, <2>1, <2>3, <3>1 DEF FinishInv
  <2>6. QED BY <2>1, <2>5 DEF FinishInv, InLoop, Holding
<1>4. CASE ClosedPrinters(s)
  <2>1. pc[s] = "close" /\ toClose[s] = {} /\ pc'[s] = "flush"
    BY <1>0, <1>4 DEF ClosedPrinters, Goto
  <2>2. AllClosed
    BY <1>0, <2>1 DEF FinishInv, AllClosed
  <2>3. QED BY <1>1, <2>1, <2>2 DEF FinishInv, InLoop, Holding
<1>5. CASE Notify(s)
  <2>1. pc[s] = "notify" /\ pc'[s] = "consolidate" /\ index'[s] = 0
    BY <1>0, <1>5 DEF Notify, Goto
  <2>2. AllClosed /\ (started => AllTaken)
    BY <1>0, <2>1 DEF FinishInv
  <2>3. QED BY <1>1, <2>1, <2>2 DEF FinishInv, InLoop, Holding
<1>6. CASE SetEnded(s) \/ Serialize(s) \/ TimerWakes(s) \/ TimerLate(s) \/ SetTimeouted(s)
  <2>1. pc'[s] \in {"serialize", "timeout", "done", "timer"}
    BY <1>0, <1>6 DEF SetEnded, Serialize, TimerWakes, TimerLate, SetTimeouted, Goto
  <2>2. QED BY <2>1 DEF FinishInv, InLoop, Holding
<1>7. QED BY <1>2, <1>3, <1>4, <1>5, <1>6 DEF Close

\* A goroutine that has begun to close does not come back.
LEMMA StaysActive ==
  ASSUME IInv, [Next]_vars, NEW f \in Finishers, pc[f] # "idle"
  PROVE  pc'[f] # "idle"
<1>0. f \in Procs /\ f \notin Flushers /\ pc \in [Procs -> Labels]
  BY FlushersAssumption DEF Finishers, Procs, IInv, TypeOK
<1> USE <1>0 DEF Goto, AfterFlush
<1>1. CASE User \/ UNCHANGED vars
  BY <1>1 DEF User, Start, Printer, Out, ClosePrinter, FlushPrinter, vars, procVars
<1>a. ASSUME Select(f) PROVE pc'[f] # "idle"
  BY <1>a DEF Select, Begin, Unlock
<1>2. CASE Flush(f)
  BY <1>2, <1>a DEF Flush, FlushBlocking, FlushTest, FlushLock, FlushTarget, Copy, Mark, Advance,
              AdvanceNotifier, Begin, Unlock
<1>3. CASE Close(f)
  BY <1>3 DEF Close, End, ClosePrinters, ClosedPrinters, Notify, SetEnded, Serialize,
              TimerWakes, TimerLate, SetTimeouted
<1>4. ASSUME NEW s \in Procs, Flush(s) \/ Close(s), s # f PROVE pc'[f] # "idle"
  BY <1>4, OthersStay
<1>5. QED BY <1>1, <1>2, <1>3, <1>4 DEF Next, Quiet

\* Who ends the session has found it empty.
LEMMA EndedStep ==
  ASSUME IInv, IInv', Orderly, EndInv, [Next]_vars
  PROVE  EndedInv'
<1>1. CASE \E s \in Procs : SetEnded(s)
  <2>1. PICK s \in Procs : SetEnded(s)
    BY <1>1
  <2>2. pc[s] = "end" /\ pc'[s] = "serialize"
    BY <2>1 DEF SetEnded, Goto, IInv, TypeOK
  <2>3. s \in Finishers
    BY <2>2 DEF EndInv, FlusherInv, Holding, Procs, Finishers
  <2>4. (started => AllTaken) /\ started' = started
    BY <2>1, <2>2, <2>3 DEF EndInv, FinishInv, SetEnded
  <2>5. AllTaken => AllTaken'
    BY <2>2, <2>3, Progress
  <2>6. QED BY <2>2, <2>3, <2>4, <2>5 DEF EndedInv
<1>2. CASE Start
  BY <1>2 DEF Start, EndedInv
<1>3. CASE UNCHANGED <<started, ended>>
  <2> SUFFICES ASSUME started, ended
               PROVE  AllTaken' /\ \E s \in Finishers : pc'[s] # "idle"
    BY <1>3 DEF EndedInv
  <2>1. PICK s \in Finishers : pc[s] # "idle"
    BY DEF EndInv, EndedInv
  <2>2. AllTaken
    BY DEF EndInv, EndedInv
  <2>3. QED BY <2>1, <2>2, Progress, StaysActive
<1>4. Start \/ UNCHANGED <<started, ended>> \/ \E s \in Procs : SetEnded(s)
  <2>1. CASE User
    BY <2>1 DEF User, Printer, Out, ClosePrinter, FlushPrinter, sessionVars
  <2>2. ASSUME NEW s \in Procs, Flush(s) PROVE UNCHANGED <<started, ended>>
    BY <2>2 DEF Flush, FlushBlocking, FlushTest, FlushLock, FlushTarget, Copy, Mark, Advance,
                AdvanceNotifier, shared, sessionVars
  <2>3. ASSUME NEW s \in Procs, Close(s) PROVE UNCHANGED <<started, ended>> \/ SetEnded(s)
    BY <2>3 DEF Close, End, ClosePrinters, ClosedPrinters, Notify, Serialize,
                TimerWakes, TimerLate, SetTimeouted, shared, sessionVars
  <2>4. CASE UNCHANGED vars
    BY <2>4 DEF vars, shared, sessionVars
  <2>5. QED BY <2>1, <2>2, <2>3, <2>4 DEF Next, Quiet
<1>5. QED BY <1>1, <1>2, <1>3, <1>4

LEMMA InitEnd == Init => EndInv
<1> SUFFICES ASSUME Init PROVE EndInv
  OBVIOUS
<1>1. \A p \in Printers : open[p] /\ ~consolidated[p]
  BY DEF Init, AllPrinters
<1>2. \A s \in Procs : pc[s] = "idle"
  BY DEF Init
<1>3. FlusherInv /\ DoneInv /\ PromiseInv /\ EndedInv
  BY <1>1, <1>2 DEF FlusherInv, DoneInv, Done, PromiseInv, EndedInv, Holding, Procs, Init
<1>4. \A s \in Finishers : FinishInv(s)
  BY <1>2 DEF FinishInv, InLoop, Holding, Finishers, Procs
<1>5. QED BY <1>3, <1>4 DEF EndInv

LEMMA EndInvStep == IInv /\ IInv' /\ EndInv /\ [Next]_vars => EndInv'
<1> SUFFICES ASSUME IInv, IInv', EndInv, [Next]_vars PROVE EndInv'
  OBVIOUS
<1>1. FlusherInv' /\ DoneInv'
  BY FlusherStep, DoneStep DEF EndInv
<1>2. Orderly => PromiseInv' /\ EndedInv'
  BY PromiseStep, EndedStep DEF EndInv
<1>3. ASSUME Orderly, NEW s \in Finishers PROVE FinishInv(s)'
  <2>1. s \in Procs /\ FinishInv(s)
    BY <1>3 DEF Finishers, Procs, EndInv
  <2>2. CASE Flush(s) \/ Close(s)
    BY <1>3, <2>2, FinishFlush, FinishClose
  <2>3. CASE \E t \in Procs : t # s /\ (Flush(t) \/ Close(t))
    BY <1>3, <2>1, <2>3, OthersStay, FinishOther
  <2>4. CASE User \/ UNCHANGED vars
    <3>1. UNCHANGED procVars
      BY <2>4 DEF User, Start, Printer, Out, ClosePrinter, FlushPrinter, vars
    <3>2. QED BY <1>3, <2>1, <3>1, FinishOther DEF procVars, locals
  <2>5. QED BY <2>2, <2>3, <2>4 DEF Next, Quiet
<1>4. QED BY <1>1, <1>2, <1>3 DEF EndInv

\* When the printing goroutines stop before the session is closed, the ended
\* session holds all they printed, in printers of every priority, whoever
\* ends it, however many flush it and close it meanwhile.
THEOREM NothingIsLost == Spec => []EndLosesNothing
<1>1. EndInv => EndLosesNothing
  BY DEF EndInv, EndedInv, AllTaken, EndLosesNothing
<1>2. QED
  BY <1>1, Invariant, InitEnd, EndInvStep, InitInv, IInvStep, PTL DEF Spec
=============================================================================
