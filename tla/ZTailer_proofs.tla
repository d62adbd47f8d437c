--------------------------- MODULE ZTailer_proofs ---------------------------
(***************************************************************************)
(* Proofs about ZTailer: its variables keep their types, and the chunks of *)
(* a session are output once each and in order over one restart, for any   *)
(* sessions, priorities, calls and bounds but that on the runs.            *)
(***************************************************************************)
EXTENDS ZTailer, FiniteSetTheorems, SequenceTheorems, TLAPS

-----------------------------------------------------------------------------
(* The sink.                                                               *)

\* A session of the sink has a tmp file, and none is removed that is not there.
SinkTypes ==
  /\ session \in [Sessions -> Session \cup {None}]
  /\ ser \in [Sessions -> Serialized \cup {None}]
  /\ files \in [Sessions -> Seq(Nat)]
  /\ removed \in [Sessions -> Nat]
  /\ \A s \in Sessions : removed[s] <= Len(files[s])
  /\ resync = None \/ resync \in [Sessions -> Serialized \cup {None}]
  /\ notices \in Nat /\ resyncs \in Nat
  /\ \A s \in Sessions : session[s] # None \/ ser[s] # None => files[s] # <<>>

\* Tmp files are only added, and chunks only to the last one.
FilesGrow ==
  \A s \in Sessions :
    /\ Len(files[s]) <= Len(files'[s])
    /\ Len(files[s]) < Len(files'[s]) => Len(files'[s]) <= MaxRuns
    /\ \A run \in 1 .. Len(files[s]) : files[s][run] <= files'[s][run]
    /\ \A run \in 1 .. Len(files[s]) - 1 : files[s][run] = files'[s][run]
    /\ removed[s] <= removed'[s]

\* The sink removes no .ser file.
SinkGrows == FilesGrow /\ \A s \in Sessions : ser[s] # None => ser'[s] # None

\* A step that leaves the files alone.
LEMMA SameFiles ==
  ASSUME SinkTypes, UNCHANGED disk
  PROVE  SinkGrows
<1>1. \A s \in Sessions : files[s] \in Seq(Nat) /\ removed[s] \in Nat
  BY DEF SinkTypes
<1>2. \A s \in Sessions : \A run \in 1 .. Len(files[s]) : files[s][run] \in Nat
  BY <1>1
<1> QED
  BY <1>1, <1>2 DEF disk, SinkGrows, FilesGrow

\* What Resync makes of a session is a session, or none.
LEMMA ResyncedType ==
  ASSUME SinkTypes, resync # None, NEW s \in Sessions
  PROVE  Resynced(s) \in Session \cup {None} /\ (session[s] = None => Resynced(s) = None)
<1>1. session[s] \in Session \cup {None} /\ resync[s] \in Serialized \cup {None}
  <2>1. session \in [Sessions -> Session \cup {None}] /\ resync \in [Sessions -> Serialized \cup {None}]
    BY DEF SinkTypes
  <2> QED
    BY <2>1
<1>2. CASE session[s] = None
  BY <1>2 DEF Resynced
<1>3. CASE session[s] # None /\ resync[s] # None
  <2>1. session[s] \in Session /\ resync[s].started \in BOOLEAN /\ resync[s].ended \in BOOLEAN
    BY <1>1, <1>3 DEF Serialized
  <2>2. Resynced(s) = [session[s] EXCEPT !.started = resync[s].started, !.ended = resync[s].ended]
    BY <1>3 DEF Resynced
  <2> QED
    BY <1>3, <2>1, <2>2 DEF Session
<1>4. CASE session[s] # None /\ resync[s] = None
  BY <1>1, <1>4 DEF Resynced
<1> QED
  BY <1>2, <1>3, <1>4

\* A step of the sink keeps its types, and its files grow.
LEMMA SinkStep ==
  ASSUME SinkTypes, Sink
  PROVE  SinkTypes' /\ SinkGrows
<1> USE NoneAssumption DEF SinkTypes
<1>1. CASE Crash
  <2>1. UNCHANGED disk
    BY <1>1 DEF Crash
  <2>2. SinkTypes'
    BY <1>1 DEF Crash, NewAsyncScreen, disk
  <2> QED
    BY <2>1, <2>2, SameFiles
<1>2. CASE ResyncScan
  <2>1. UNCHANGED disk
    BY <1>2 DEF ResyncScan
  <2>2. SinkTypes'
    BY <1>2 DEF ResyncScan, disk
  <2> QED
    BY <2>1, <2>2, SameFiles
<1>3. CASE Resync
  <2>1. \A s \in Sessions : Resynced(s) \in Session \cup {None} /\ (session[s] = None => Resynced(s) = None)
    BY <1>3, ResyncedType DEF Resync
  <2>2. UNCHANGED <<ser, files, resyncs, notices>> /\ resync' = None /\ session' = [s \in Sessions |-> Resynced(s)]
    BY <1>3 DEF Resync
  <2>3. \A s \in Sessions : files[s] \in Seq(Nat) /\ removed[s] \in Nat /\ Len(files[s]) \in Nat
    OBVIOUS
  <2>4. removed' \in [Sessions -> Nat]
    BY <1>3, <2>3 DEF Resync
  <2>5. \A s \in Sessions : removed[s] <= removed'[s] /\ removed'[s] <= Len(files[s])
    BY <1>3, <2>3 DEF Resync
  <2>6. \A s \in Sessions : \A run \in 1 .. Len(files[s]) : files[s][run] \in Nat
    BY <2>3
  <2>7. SinkGrows
    BY <2>2, <2>3, <2>5, <2>6 DEF SinkGrows, FilesGrow
  <2> QED
    BY <2>1, <2>2, <2>4, <2>5, <2>7
<1>4. CASE Notify
  <2>1. UNCHANGED disk
    BY <1>4 DEF Notify
  <2>2. SinkTypes'
    BY <1>4 DEF Notify, disk
  <2> QED
    BY <2>1, <2>2, SameFiles
<1>5. ASSUME NEW s \in Sessions, Build(s)
      PROVE  SinkTypes' /\ SinkGrows
  <2>1. /\ files' = [files EXCEPT ![s] = Append(files[s], 0)] /\ Len(files[s]) < MaxRuns
        /\ UNCHANGED <<ser, removed, resync, resyncs, notices>>
        /\ session' = [session EXCEPT ![s] = [started |-> FALSE, ended |-> serEnded(s), changed |-> FALSE]]
    BY <1>5 DEF Build
  <2>2. \A r \in Sessions : files[r] \in Seq(Nat) /\ removed[r] \in Nat /\ \A run \in 1 .. Len(files[r]) : files[r][run] \in Nat
    OBVIOUS
  <2>3. /\ Append(files[s], 0) \in Seq(Nat) /\ Len(Append(files[s], 0)) = Len(files[s]) + 1
        /\ \A run \in 1 .. Len(files[s]) : Append(files[s], 0)[run] = files[s][run]
    BY <2>2
  <2>4. serEnded(s) \in BOOLEAN
    BY DEF serEnded, Serialized
  <2>5. session' \in [Sessions -> Session \cup {None}]
    BY <2>1, <2>4 DEF Session
  <2>6. SinkGrows
    BY BoundsAssumption, <2>1, <2>2, <2>3 DEF SinkGrows, FilesGrow
  <2>7. files' \in [Sessions -> Seq(Nat)] /\ files'[s] # <<>> /\ \A r \in Sessions \ {s} : files'[r] = files[r]
    BY <2>1, <2>3
  <2>8. \A r \in Sessions : removed'[r] <= Len(files'[r])
    BY <2>1, <2>2, <2>3
  <2> QED
    BY <2>1, <2>5, <2>6, <2>7, <2>8
<1>6. ASSUME NEW s \in Sessions, Start(s)
      PROVE  SinkTypes' /\ SinkGrows
  <2>1. UNCHANGED disk
    BY <1>6 DEF Start
  <2>2. SinkTypes'
    BY <1>6 DEF Start, disk, Session
  <2> QED
    BY <2>1, <2>2, SameFiles
<1>7. ASSUME NEW s \in Sessions, Write(s)
      PROVE  SinkTypes' /\ SinkGrows
  <2> DEFINE last == Len(files[s])
  <2>0. session[s] # None /\ files[s] # <<>> /\ files[s] \in Seq(Nat)
    BY <1>7 DEF Write
  <2>1. last \in Nat \ {0} /\ files[s] \in Seq(Nat) /\ files[s][last] \in Nat
    BY <2>0
  <2>2. /\ files' = [files EXCEPT ![s] = [files[s] EXCEPT ![last] = files[s][last] + 1]]
        /\ UNCHANGED <<session, ser, removed, resync, resyncs, notices>>
    BY <1>7 DEF Write
  <2>3. /\ files'[s] \in Seq(Nat) /\ Len(files'[s]) = last /\ files'[s][last] = files[s][last] + 1
        /\ \A run \in 1 .. last - 1 : files'[s][run] = files[s][run]
    BY <2>1, <2>2
  <2>4. \A r \in Sessions \ {s} : files'[r] = files[r]
    BY <2>2
  <2>5. \A r \in Sessions : files[r] \in Seq(Nat) /\ removed[r] \in Nat /\ \A run \in 1 .. Len(files[r]) : files[r][run] \in Nat
    OBVIOUS
  <2>6. SinkGrows
    BY <2>1, <2>2, <2>3, <2>4, <2>5, SMTT(30) DEF SinkGrows, FilesGrow
  <2>7. files' \in [Sessions -> Seq(Nat)]
    BY <2>2, <2>3
  <2>8. \A r \in Sessions : removed'[r] <= Len(files'[r]) /\ (files[r] # <<>> => files'[r] # <<>>)
    BY <2>1, <2>2, <2>3, <2>4
  <2> QED
    BY <2>2, <2>6, <2>7, <2>8
<1>8. ASSUME NEW s \in Sessions, End(s)
      PROVE  SinkTypes' /\ SinkGrows
  <2>1. UNCHANGED disk
    BY <1>8 DEF End
  <2>2. SinkTypes'
    <3>1. session[s] \in Session
      BY <1>8 DEF End
    <3>2. [session[s] EXCEPT !.ended = TRUE, !.changed = TRUE] \in Session
      BY <3>1 DEF Session
    <3>3. session' = [session EXCEPT ![s] = [session[s] EXCEPT !.ended = TRUE, !.changed = TRUE]]
      BY <1>8 DEF End
    <3>4. /\ session' \in [Sessions -> Session \cup {None}]
          /\ \A r \in Sessions : session'[r] # None => session[r] # None
      BY <1>8, <3>2, <3>3 DEF End
    <3> QED
      BY <1>8, <3>4 DEF End, disk
  <2> QED
    BY <2>1, <2>2, SameFiles
<1>9. ASSUME NEW s \in Sessions, Serialize(s)
      PROVE  SinkTypes' /\ SinkGrows
  <2>1. /\ session[s] \in Session /\ UNCHANGED <<files, removed, resync, resyncs, notices>>
        /\ ser' = [ser EXCEPT ![s] = [started |-> session[s].started, ended |-> session[s].ended]]
        /\ session' = [session EXCEPT ![s].changed = FALSE]
    BY <1>9 DEF Serialize
  <2>2. [started |-> session[s].started, ended |-> session[s].ended] \in Serialized
    BY <2>1 DEF Session, Serialized
  <2>3. session' \in [Sessions -> Session \cup {None}] /\ \A r \in Sessions : session'[r] # None => session[r] # None
    BY <2>1 DEF Session
  <2>4. \A r \in Sessions : files[r] \in Seq(Nat) /\ removed[r] \in Nat /\ \A run \in 1 .. Len(files[r]) : files[r][run] \in Nat
    OBVIOUS
  <2>5. ser' \in [Sessions -> Serialized \cup {None}] /\ \A r \in Sessions : ser[r] # None => ser'[r] # None
    BY <2>1, <2>2
  <2>6. SinkGrows
    BY <2>1, <2>4, <2>5 DEF SinkGrows, FilesGrow
  <2> QED
    BY <2>1, <2>3, <2>5, <2>6
<1> QED
  BY <1>1, <1>2, <1>3, <1>4, <1>5, <1>6, <1>7, <1>8, <1>9 DEF Sink

-----------------------------------------------------------------------------
(* The tailer: its types, and what it knows at each place.                 *)

Calling == [op : Calls, names : Seq(Sessions)]

TailTypes ==
  /\ view \in [Sessions -> View \cup {None}]
  /\ sessionsByPriority \in [Priorities -> Seq(Sessions)]
  /\ electedSession \in Sessions \cup {None}
  /\ blockingSessionsQueue \in Seq(Sessions)
  /\ out \in Seq(Chunk) /\ ordered \in Seq(Sessions \cup {None}) /\ noticed \in Nat
  /\ call = None \/ call \in Calling
  /\ pos \in Nat /\ count \in Nat
  /\ pc \in Labels /\ ret \in Labels
  /\ toScan \subseteq Sessions
  /\ target \in Sessions \cup {None}
  /\ hasNextBefore \in BOOLEAN /\ notEnded \in BOOLEAN /\ tailed \in BOOLEAN
  /\ result \in {None, "ok", "timeout", "error"}

\* where the tailer is, or where the scan returns to
At(label) == pc = label \/ (pc = "scan" /\ ret = label)

Clearing == {"ClearSession", "Clear"}

\* Each place belongs to some of the calls, and has its session.
PlaceInv ==
  /\ pc # "idle" =>
       /\ call \in Calling
       /\ call.op \in Clearing <=> pc \in {"clear", "cleared"}
       /\ call.op \notin {"TailAllBlocking", "Clear"} => pos \in 1 .. Len(call.names)
  /\ pc = "scan" => ret \in {"tailOnce", "pick", "tailNext", "test", "found"}
  /\ At("tailOnce") => call.op \in {"TailOnlyBlocking", "TailSuppliedBlocking"}
  /\ At("test") \/ At("found") => call.op \in {"TailOnlyBlocking", "TailBlocking"}
  /\ pc \in {"tailSession", "copy", "next"} => target \in Sessions /\ Known(target)
  /\ pc = "cleared" => target \in Sessions

\* The tmp file and the cursor of a session exist.
ViewInv ==
  \A s \in Sessions : Known(s) =>
    /\ view[s].file <= Len(files[s])
    /\ view[s].file = 0 => ~view[s].open /\ removed[s] > 0
    /\ view[s].file > 0 => view[s].cursor <= files[s][view[s].file]

\* A session that may be updated from its .ser file has one.
SerInv ==
  /\ \A s \in Sessions :
       /\ Listed(s) => Known(s) /\ ser[s] # None
       /\ electedSession = s => Known(s) /\ ser[s] # None
       /\ Known(s) /\ view[s].ended => ser[s] # None
       /\ pc = "scan" /\ s \in toScan => ser[s] # None
       /\ Known(s) /\ Clearing \cap Calls = {} => ser[s] # None
  /\ pc = "cleared" => ~Listed(target) /\ electedSession # target
  /\ "TailBlocking" \notin Calls => blockingSessionsQueue = <<>>
  /\ \A k \in Priorities : IsInjective(sessionsByPriority[k])

TailInv == SinkTypes /\ TailTypes /\ PlaceInv /\ ViewInv /\ SerInv

\* A call has names of sessions, one at least if it waits for one.
LEMMA NamesType ==
  ASSUME NEW op \in Methods, NEW names \in Names(op)
  PROVE  names \in Seq(Sessions) /\ (op \notin {"TailAllBlocking", "Clear"} => Len(names) >= 1)
<1>1. CASE op \in {"TailAllBlocking", "Clear"}
  <2>1. names = <<>>
    BY <1>1 DEF Names
  <2>2. <<>> \in Seq(Sessions)
    OBVIOUS
  <2> QED
    BY <1>1, <2>1, <2>2
<1>2. CASE op = "TailSuppliedBlocking"
  <2>1. Cardinality(Sessions) \in Nat
    BY SessionsAssumption, FS_CardinalityType
  <2>2. Cardinality(Sessions) # 0
    BY SessionsAssumption, FS_EmptySet
  <2>3. names \in [1 .. Cardinality(Sessions) -> Sessions]
    BY <1>2 DEF Names, SetToSeqs
  <2> QED
    BY <2>1, <2>2, <2>3
<1>3. CASE op \notin {"TailAllBlocking", "Clear", "TailSuppliedBlocking"}
  <2>1. PICK s \in Sessions : names = <<s>>
    BY <1>3 DEF Names
  <2> QED
    BY <2>1
<1> QED
  BY <1>1, <1>2, <1>3

\* The session that a call waits for.
LEMMA NameType ==
  ASSUME PlaceInv, pc # "idle", call.op \notin {"TailAllBlocking", "Clear"}
  PROVE  Name \in Sessions
<1>1. call \in Calling /\ pos \in 1 .. Len(call.names)
  BY DEF PlaceInv
<1>2. call.names \in Seq(Sessions)
  BY <1>1 DEF Calling
<1> QED
  BY <1>1, <1>2 DEF Name

\* A session read from its .ser file has its tmp file.
LEMMA ScannedType ==
  ASSUME SinkTypes, TailTypes, ViewInv, NEW s \in Sessions, ser[s] # None
  PROVE  /\ Scanned(s) \in View /\ Scanned(s) # None
         /\ Scanned(s).ended = ser[s].ended
         /\ Known(s) => Scanned(s).file = view[s].file /\ Scanned(s).cursor = view[s].cursor /\ Scanned(s).open = view[s].open
         /\ ~Known(s) => Scanned(s).file = firstSessionTmp(s) /\ Scanned(s).cursor = 0 /\ (Scanned(s).file = 0 => ~Scanned(s).open)
         /\ ~Known(s) /\ Scanned(s).file = 0 => removed[s] > 0 /\ removed[s] = Len(files[s])
         /\ ~Known(s) /\ Scanned(s).file # 0 => Scanned(s).file = removed[s] + 1 /\ removed[s] < Len(files[s])
<1>1. ser[s] \in Serialized /\ ser[s].started \in BOOLEAN /\ ser[s].ended \in BOOLEAN
  BY DEF SinkTypes, Serialized
<1>2. files[s] \in Seq(Nat) /\ Len(files[s]) > 0 /\ removed[s] \in Nat /\ removed[s] <= Len(files[s])
  BY DEF SinkTypes
<1>3. CASE Known(s)
  <2>1. view[s] \in View
    BY <1>3 DEF TailTypes, Known
  <2>2. Scanned(s) = [view[s] EXCEPT !.started = ser[s].started, !.ended = ser[s].ended]
    BY <1>3 DEF Scanned
  <2>3. Scanned(s) \in View
    BY <1>1, <2>1, <2>2 DEF View
  <2>4. Scanned(s) # None
    BY <2>3, NoneAssumption
  <2> QED
    BY <1>3, <2>1, <2>2, <2>3, <2>4 DEF View
<1>4. CASE ~Known(s)
  <2>1. Scanned(s) = [started |-> ser[s].started, ended |-> ser[s].ended, file |-> firstSessionTmp(s), cursor |-> 0,
                      open |-> firstSessionTmp(s) # 0, tailed |-> FALSE, flushed |-> FALSE]
    BY <1>4 DEF Scanned
  <2>2. firstSessionTmp(s) \in Nat
    BY <1>2 DEF firstSessionTmp
  <2>3. Scanned(s) \in View
    BY <1>1, <2>1, <2>2 DEF View
  <2>4. Scanned(s) # None
    BY <2>3, NoneAssumption
  <2>5. /\ firstSessionTmp(s) = 0 => removed[s] > 0 /\ removed[s] = Len(files[s])
        /\ firstSessionTmp(s) # 0 => firstSessionTmp(s) = removed[s] + 1 /\ removed[s] < Len(files[s])
    BY <1>2 DEF firstSessionTmp
  <2>6. Scanned(s).ended = ser[s].ended /\ Scanned(s).file = firstSessionTmp(s) /\ Scanned(s).cursor = 0
    BY <2>1
  <2>7. ASSUME firstSessionTmp(s) = 0
        PROVE  ~Scanned(s).open
    <3>1. (firstSessionTmp(s) # 0) = FALSE
      BY <2>7
    <3>2. Scanned(s) = [started |-> ser[s].started, ended |-> ser[s].ended, file |-> firstSessionTmp(s), cursor |-> 0,
                        open |-> FALSE, tailed |-> FALSE, flushed |-> FALSE]
      BY <2>1, <3>1, Zenon
    <3> QED
      BY <3>2
  <2> QED
    BY <1>4, <2>3, <2>4, <2>5, <2>6, <2>7
<1> QED
  BY <1>3, <1>4

\* The elements of a sequence, by their places.
LEMMA RangeFacts ==
  ASSUME NEW S, NEW list \in Seq(S)
  PROVE  /\ Range(list) = {list[i] : i \in 1 .. Len(list)}
         /\ Range(list) \subseteq S
  BY DEF Range

\* Delete takes a session out of a list that has it once, and only it.
LEMMA DeleteFacts ==
  ASSUME NEW list \in Seq(Sessions), IsInjective(list), NEW s \in Sessions
  PROVE  /\ Delete(list, s) \in Seq(Sessions)
         /\ IsInjective(Delete(list, s))
         /\ Range(Delete(list, s)) \subseteq Range(list) \ {s}
<1>1. CASE s \notin Range(list)
  BY <1>1 DEF Delete
<1>2. CASE s \in Range(list)
  <2> DEFINE i == CHOOSE j \in DOMAIN list : list[j] = s
             d == Delete(list, s)
  <2>1. i \in 1 .. Len(list) /\ list[i] = s
    BY <1>2 DEF Range
  <2>2. \A j, k \in 1 .. Len(list) : list[j] = list[k] => j = k
    BY DEF IsInjective
  <2>3. d = SubSeq(list, 1, i - 1) \o SubSeq(list, i + 1, Len(list))
    BY <1>2 DEF Delete, RemoveAt
  <2> HIDE DEF i, d
  <2>4. /\ SubSeq(list, 1, i - 1) \in Seq(Sessions) /\ Len(SubSeq(list, 1, i - 1)) = i - 1
        /\ \A j \in 1 .. i - 1 : SubSeq(list, 1, i - 1)[j] = list[j]
    BY <2>1
  <2>5. /\ SubSeq(list, i + 1, Len(list)) \in Seq(Sessions) /\ Len(SubSeq(list, i + 1, Len(list))) = Len(list) - i
        /\ \A j \in 1 .. Len(list) - i : SubSeq(list, i + 1, Len(list))[j] = list[i + j]
    BY <2>1
  <2>12. /\ d \in Seq(Sessions) /\ Len(d) = (i - 1) + (Len(list) - i)
         /\ \A j \in 1 .. (i - 1) + (Len(list) - i) :
              d[j] = IF j <= i - 1 THEN SubSeq(list, 1, i - 1)[j] ELSE SubSeq(list, i + 1, Len(list))[j - (i - 1)]
    BY <2>3, <2>4, <2>5, ConcatProperties, SMTT(30)
  <2>6. d \in Seq(Sessions) /\ Len(d) = Len(list) - 1
    BY <2>1, <2>12
  <2>7. \A j \in 1 .. Len(d) : d[j] = IF j < i THEN list[j] ELSE list[j + 1]
    <3> SUFFICES ASSUME NEW j \in 1 .. Len(d)
                 PROVE  d[j] = IF j < i THEN list[j] ELSE list[j + 1]
      OBVIOUS
    <3>1. CASE j < i
      BY <2>1, <2>4, <2>6, <2>12, <3>1
    <3>2. CASE ~(j < i)
      <4>1. j - (i - 1) \in 1 .. Len(list) - i /\ i + (j - (i - 1)) = j + 1
        BY <2>1, <2>6, <3>2
      <4>2. j \in 1 .. (i - 1) + (Len(list) - i) /\ ~(j <= i - 1)
        BY <2>1, <2>6, <3>2
      <4>3. d[j] = SubSeq(list, i + 1, Len(list))[j - (i - 1)]
        BY <2>12, <4>2, Zenon
      <4>4. d[j] = list[i + (j - (i - 1))]
        BY <2>5, <4>1, <4>3, Zenon
      <4> QED
        BY <3>2, <4>1, <4>4, Zenon
    <3> QED
      BY <3>1, <3>2
  <2>8. \A j \in 1 .. Len(d) : \E k \in 1 .. Len(list) : k # i /\ d[j] = list[k] /\ k = IF j < i THEN j ELSE j + 1
    <3> SUFFICES ASSUME NEW j \in 1 .. Len(d)
                 PROVE  \E k \in 1 .. Len(list) : k # i /\ d[j] = list[k] /\ k = IF j < i THEN j ELSE j + 1
      OBVIOUS
    <3> DEFINE k == IF j < i THEN j ELSE j + 1
    <3>1. k \in 1 .. Len(list) /\ k # i
      BY <2>1, <2>6
    <3>2. d[j] = list[k]
      BY <2>7
    <3> QED
      BY <3>1, <3>2
  <2>9. Range(d) \subseteq Range(list) \ {s}
    <3>1. /\ \A x \in Range(d) : \E j \in 1 .. Len(d) : x = d[j]
          /\ \A k \in 1 .. Len(list) : list[k] \in Range(list)
      BY <2>6, RangeFacts
    <3> SUFFICES ASSUME NEW x \in Range(d)
                 PROVE  x \in Range(list) /\ x # s
      BY Zenon
    <3>2. PICK j \in 1 .. Len(d) : x = d[j]
      BY <3>1
    <3>3. PICK k \in 1 .. Len(list) : k # i /\ d[j] = list[k]
      BY <2>8
    <3>4. list[k] # s
      BY <2>1, <2>2, <3>3
    <3> QED
      BY <3>1, <3>2, <3>3, <3>4
  <2>10. \A j, k \in 1 .. Len(d) : d[j] = d[k] => j = k
    <3> SUFFICES ASSUME NEW j \in 1 .. Len(d), NEW k \in 1 .. Len(d), d[j] = d[k]
                 PROVE  j = k
      OBVIOUS
    <3> DEFINE J == IF j < i THEN j ELSE j + 1
               K == IF k < i THEN k ELSE k + 1
    <3>1. J \in 1 .. Len(list) /\ K \in 1 .. Len(list) /\ list[J] = list[K]
      BY <2>1, <2>6, <2>7
    <3>2. J = K
      BY <2>2, <3>1
    <3> QED
      BY <2>1, <2>6, <3>2
  <2>11. IsInjective(d)
    BY <2>6, <2>10 DEF IsInjective
  <2> QED
    BY <2>6, <2>9, <2>11 DEF d
<1> QED
  BY <1>1, <1>2

\* Append adds one that the list has not.
LEMMA AppendFacts ==
  ASSUME NEW list \in Seq(Sessions), NEW s \in Sessions
  PROVE  /\ Append(list, s) \in Seq(Sessions)
         /\ Range(Append(list, s)) = Range(list) \cup {s}
         /\ IsInjective(list) /\ s \notin Range(list) => IsInjective(Append(list, s))
<1>1. /\ Append(list, s) \in Seq(Sessions) /\ Len(Append(list, s)) = Len(list) + 1
      /\ Append(list, s)[Len(list) + 1] = s
      /\ \A i \in 1 .. Len(list) : Append(list, s)[i] = list[i]
  OBVIOUS
<1>2. Range(Append(list, s)) = Range(list) \cup {s}
  <2>1. \A x : x \in Range(Append(list, s)) <=> \E i \in 1 .. Len(list) + 1 : Append(list, s)[i] = x
    <3>1. Range(Append(list, s)) = {Append(list, s)[i] : i \in 1 .. Len(list) + 1}
      BY <1>1 DEF Range
    <3> QED
      BY <3>1
  <2>2. \A x : x \in Range(list) <=> \E i \in 1 .. Len(list) : list[i] = x
    BY RangeFacts
  <2> QED
    BY <1>1, <2>1, <2>2
<1>3. ASSUME IsInjective(list), s \notin Range(list)
      PROVE  IsInjective(Append(list, s))
  <2>1. \A i, j \in 1 .. Len(list) : list[i] = list[j] => i = j
    BY <1>3 DEF IsInjective
  <2>2. \A i \in 1 .. Len(list) : list[i] # s
    BY <1>3, RangeFacts
  <2>3. \A i, j \in 1 .. Len(Append(list, s)) : Append(list, s)[i] = Append(list, s)[j] => i = j
    BY <1>1, <2>1, <2>2
  <2> QED
    BY <1>1, <2>3 DEF IsInjective
<1> QED
  BY <1>1, <1>2, <1>3

\* What CopyChunk outputs.
LEMMA ChunksFacts ==
  ASSUME NEW s \in Sessions, NEW run \in Nat, NEW cursor \in Nat, NEW size \in Nat, cursor <= size
  PROVE  /\ Chunks(s, run, cursor + 1, size) \in Seq(Chunk)
         /\ Len(Chunks(s, run, cursor + 1, size)) = size - cursor
         /\ \A n \in 1 .. size - cursor :
              Chunks(s, run, cursor + 1, size)[n] = [session |-> s, run |-> run, number |-> cursor + n]
<1>1. \A n \in 1 .. size - cursor : cursor + 1 + n - 1 = cursor + n /\ [session |-> s, run |-> run, number |-> cursor + n] \in Chunk
  BY DEF Chunk
<1>2. size - (cursor + 1) + 1 = size - cursor /\ size - cursor \in Nat
  OBVIOUS
<1>3. Chunks(s, run, cursor + 1, size) = [n \in 1 .. size - cursor |-> [session |-> s, run |-> run, number |-> cursor + n]]
  BY <1>1, <1>2 DEF Chunks
<1>4. \A k \in Nat : (\A n \in 1 .. k : [session |-> s, run |-> run, number |-> cursor + n] \in Chunk) =>
        LET f == [n \in 1 .. k |-> [session |-> s, run |-> run, number |-> cursor + n]]
        IN  f \in Seq(Chunk) /\ Len(f) = k /\ \A n \in 1 .. k : f[n] = [session |-> s, run |-> run, number |-> cursor + n]
  OBVIOUS
<1> QED
  BY <1>1, <1>2, <1>3, <1>4

-----------------------------------------------------------------------------
(* Steps of the tailer keep its types.                                     *)

\* The output of the notices.
LEMMA NoticesType ==
  ASSUME SinkTypes, TailTypes, NEW recorded \in BOOLEAN, tailNotifications(recorded)
  PROVE  out' \in Seq(Chunk) /\ ordered' \in Seq(Sessions \cup {None}) /\ noticed' \in Nat
<1>1. Append(ordered, None) \in Seq(Sessions \cup {None})
  BY DEF TailTypes
<1> QED
  BY <1>1 DEF tailNotifications, TailTypes, SinkTypes

\* A call begins.
LEMMA CallTypes ==
  ASSUME TailInv, NEW op \in Calls, NEW names \in Names(op), Call(op, names)
  PROVE  TailTypes'
<1>1. op \in Methods /\ names \in Seq(Sessions) /\ (op \notin {"TailAllBlocking", "Clear"} => Len(names) >= 1)
  BY CallsAssumption, NamesType
<1>2. op \notin {"TailAllBlocking", "Clear"} => names[1] \in Sessions
  BY <1>1
<1>3. call' \in Calling /\ pos' \in Nat /\ count' \in Nat
  BY <1>1 DEF Call, Calling, TailInv, TailTypes
<1>4. blockingSessionsQueue' \in Seq(Sessions)
  BY <1>1 DEF Call, TailInv, TailTypes
<1>5. out' \in Seq(Chunk) /\ ordered' \in Seq(Sessions \cup {None}) /\ noticed' \in Nat
  <2>1. CASE tailNotifications(FALSE)
    BY <2>1, NoticesType DEF TailInv
  <2>2. CASE UNCHANGED output
    BY <2>2 DEF output, TailInv, TailTypes
  <2> QED
    BY <2>1, <2>2 DEF Call
<1>6. toScan' \subseteq Sessions
  <2>1. CASE op = "ClearSession"
    BY <1>2, <2>1 DEF Call
  <2>2. CASE op = "Clear"
    BY <2>2 DEF Call
  <2>3. CASE op \notin {"ClearSession", "Clear"}
    BY <2>3 DEF Call, TailInv, TailTypes
  <2> QED
    BY <2>1, <2>2, <2>3
<1>7. pc' \in Labels
  BY DEF Call, Goto, Labels
<1>8. result' \in {None, "ok", "timeout", "error"} /\ notEnded' \in BOOLEAN /\ tailed' \in BOOLEAN
  BY DEF Call
<1>9. UNCHANGED <<view, sessionsByPriority, electedSession, ret, target, hasNextBefore>>
  BY DEF Call
<1> QED
  BY <1>3, <1>4, <1>5, <1>6, <1>7, <1>8, <1>9 DEF TailInv, TailTypes

\* Where a scan begins.
LEMMA ScanTypes ==
  ASSUME NEW back \in Labels, Scan(back)
  PROVE  toScan' \subseteq Sessions /\ ret' \in Labels /\ pc' \in Labels
  BY DEF Scan, Goto, Labels

\* What CopyChunk does to an open file, and to one that is closed or removed.
LEMMA CopyEffect ==
  ASSUME CopyChunk
  PROVE  /\ pc = "copy" /\ UNCHANGED <<sink, elected, locals>>
         /\ view[target].open =>
              /\ out' = out \o Chunks(target, view[target].file, view[target].cursor + 1, files[target][view[target].file])
              /\ ordered' = ordered \/ ordered' = Append(ordered, target)
              /\ noticed' = noticed
              /\ view' = [view EXCEPT ![target] = [view[target] EXCEPT !.cursor = files[target][view[target].file]]]
              /\ pc' = "next" /\ UNCHANGED control
         /\ ~view[target].open =>
              /\ UNCHANGED <<output, view>>
              /\ Return("error") \/ (pc' = "panicked" /\ UNCHANGED control)
  BY DEF CopyChunk, Goto

\* The next tmp file is a file.
LEMMA NextTmpType ==
  ASSUME NEW v \in View
  PROVE  /\ NextTmp(v) \in View
         /\ NextTmp(v).file = v.file + 1 /\ NextTmp(v).cursor = 0 /\ NextTmp(v).ended = v.ended
<1> DEFINE v1 == [v EXCEPT !.file = v.file + 1]
           v2 == [v1 EXCEPT !.cursor = 0]
           v3 == [v2 EXCEPT !.open = TRUE]
           v4 == [v3 EXCEPT !.tailed = FALSE]
           v5 == [v4 EXCEPT !.flushed = FALSE]
<1>1. v1 \in View /\ v1.file = v.file + 1 /\ v1.ended = v.ended
  BY DEF View
<1>2. v2 \in View /\ v2.file = v1.file /\ v2.cursor = 0 /\ v2.ended = v1.ended
  <2> HIDE DEF v1
  <2> QED
    BY <1>1 DEF View
<1>3. v3 \in View /\ v3.file = v2.file /\ v3.cursor = v2.cursor /\ v3.ended = v2.ended
  <2> HIDE DEF v2
  <2> QED
    BY <1>2 DEF View
<1>4. v4 \in View /\ v4.file = v3.file /\ v4.cursor = v3.cursor /\ v4.ended = v3.ended
  <2> HIDE DEF v3
  <2> QED
    BY <1>3 DEF View
<1>5. v5 \in View /\ v5.file = v4.file /\ v5.cursor = v4.cursor /\ v5.ended = v4.ended
  <2> HIDE DEF v4
  <2> QED
    BY <1>4 DEF View
<1>6. NextTmp(v) = v5
  BY DEF NextTmp
<1> QED
  <2> HIDE DEF v1, v2, v3, v4, v5
  <2> QED
    BY <1>1, <1>2, <1>3, <1>4, <1>5, <1>6

\* The three cases of updateNextSessionTmp.
LEMMA UpdateEffect ==
  ASSUME updateNextSessionTmp, view \in [Sessions -> View \cup {None}], hasNextBefore \in BOOLEAN,
         target \in Sessions, view[target] \in View
  PROVE  /\ pc = "next" /\ UNCHANGED <<sink, elected, output, control, ret, toScan, target, notEnded, tailed>>
         /\ \/ /\ hasNextSessionTmp(target) /\ ~hasNextBefore
               /\ hasNextBefore' = TRUE /\ pc' = "copy" /\ view' = view
            \/ /\ hasNextSessionTmp(target) /\ hasNextBefore
               /\ hasNextBefore' = hasNextBefore /\ pc' = "copy"
               /\ view' = [view EXCEPT ![target] = NextTmp(view[target])]
            \/ /\ ~hasNextSessionTmp(target)
               /\ hasNextBefore' = hasNextBefore /\ pc' = "tailed"
               /\ \/ view' = view
                  \/ /\ view[target].ended
                     /\ view' = [view EXCEPT ![target] = [view[target] EXCEPT !.flushed = TRUE, !.open = FALSE]]
<1> DEFINE done == [view EXCEPT ![target].flushed = TRUE, ![target].open = FALSE]
<1>1. done = [view EXCEPT ![target] = [view[target] EXCEPT !.flushed = TRUE, !.open = FALSE]]
  OBVIOUS
<1> QED
  BY <1>1 DEF updateNextSessionTmp, Goto

\* The steps that scan, and those that tail a session.
LEMMA CallStepsTypes ==
  ASSUME TailInv, Timeout \/ Loop \/ scanSessions \/ tailOnce \/ tailSession \/ CopyChunk \/ updateNextSessionTmp
  PROVE  TailTypes'
<1>0. SinkTypes /\ TailTypes /\ PlaceInv /\ ViewInv /\ SerInv
  BY DEF TailInv
<1>1. CASE Timeout
  BY <1>0, <1>1 DEF Timeout, Return, TailTypes, Labels, elected, output, locals
<1>2. CASE Loop
  <2>1. out' \in Seq(Chunk) /\ ordered' \in Seq(Sessions \cup {None}) /\ noticed' \in Nat
    <3>1. CASE tailNotifications(FALSE)
      BY <1>0, <3>1, NoticesType
    <3>2. CASE UNCHANGED output
      BY <1>0, <3>2 DEF output, TailTypes
    <3> QED
      BY <1>2, <3>1, <3>2 DEF Loop
  <2>2. call.op \in {"TailOnlyBlocking", "TailSuppliedBlocking", "TailBlocking", "TailAllBlocking"}
    BY <1>0, <1>2, CallsAssumption DEF Loop, PlaceInv, Calling, Methods, Clearing
  <2>3. toScan' \subseteq Sessions /\ ret' \in Labels /\ pc' \in Labels /\ notEnded' \in BOOLEAN
    <3>1. CASE call.op \in {"TailOnlyBlocking", "TailSuppliedBlocking"}
      BY <1>0, <1>2, <3>1 DEF Loop, Scan, Goto, Labels, TailTypes
    <3>2. CASE call.op = "TailBlocking"
      BY <1>0, <1>2, <3>2 DEF Loop, Goto, Labels, TailTypes
    <3>3. CASE call.op = "TailAllBlocking"
      BY <1>0, <1>2, <3>3 DEF Loop, Scan, Goto, Labels, TailTypes
    <3> QED
      BY <2>2, <3>1, <3>2, <3>3
  <2> QED
    BY <1>0, <1>2, <2>1, <2>3 DEF Loop, TailTypes, elected, control
<1>3. CASE scanSessions
  <2>1. ASSUME NEW s \in toScan, toScan' = toScan \ {s}, view' = [view EXCEPT ![s] = Scanned(s)],
               sessionsByPriority' = IF Known(s) THEN sessionsByPriority
                                     ELSE [sessionsByPriority EXCEPT ![Priority[s]] = Append(@, s)]
        PROVE  view' \in [Sessions -> View \cup {None}] /\ sessionsByPriority' \in [Priorities -> Seq(Sessions)]
    <3>1. s \in Sessions /\ ser[s] # None
      BY <1>0, <1>3, <2>1 DEF SerInv, TailTypes, scanSessions
    <3>2. Scanned(s) \in View
      BY <1>0, <3>1, ScannedType
    <3>3. Priority[s] \in Priorities /\ sessionsByPriority[Priority[s]] \in Seq(Sessions)
      BY <1>0, <3>1 DEF Priorities, TailTypes
    <3>4. Append(sessionsByPriority[Priority[s]], s) \in Seq(Sessions)
      BY <3>1, <3>3
    <3> QED
      BY <1>0, <2>1, <3>2, <3>3, <3>4 DEF TailTypes
  <2> QED
    BY <1>0, <1>3, <2>1, ZenonT(60) DEF scanSessions, Goto, TailTypes, output, control
<1>4. CASE tailOnce
  <2>1. Name \in Sessions
    BY <1>0, <1>4, NameType DEF tailOnce, PlaceInv, At
  <2> QED
    BY <1>0, <1>4, <2>1 DEF tailOnce, Goto, Labels, TailTypes, elected, output, control
<1>5. CASE tailSession
  <2>1. target \in Sessions /\ view[target] \in View
    BY <1>0, <1>5 DEF tailSession, PlaceInv, TailTypes, Known
  <2>2. [view[target] EXCEPT !.tailed = TRUE] \in View
    BY <2>1 DEF View
  <2>3. view' \in [Sessions -> View \cup {None}]
    BY <1>0, <1>5, <2>1, <2>2 DEF tailSession, TailTypes
  <2>4. hasNextBefore' \in BOOLEAN
    BY <1>0, <1>5 DEF tailSession, TailTypes, hasNextSessionTmp
  <2> QED
    BY <1>0, <1>5, <2>3, <2>4 DEF tailSession, Goto, Labels, TailTypes, elected, output, control
<1>6. CASE CopyChunk
  <2>1. pc = "copy" /\ target \in Sessions /\ Known(target) /\ view[target] \in View /\ files[target] \in Seq(Nat)
    BY <1>0, <1>6, CopyEffect DEF PlaceInv, TailTypes, SinkTypes, Known
  <2>2. CASE view[target].open
    <3>1. view[target].file \in 1 .. Len(files[target]) /\ view[target].cursor \in Nat
          /\ view[target].cursor <= files[target][view[target].file]
      BY <1>0, <2>1, <2>2 DEF ViewInv, View
    <3>2. view[target].file \in Nat /\ files[target][view[target].file] \in Nat
      BY <2>1, <3>1
    <3>3. Chunks(target, view[target].file, view[target].cursor + 1, files[target][view[target].file]) \in Seq(Chunk)
      BY <2>1, <3>1, <3>2, ChunksFacts
    <3>4. out \in Seq(Chunk)
      BY <1>0 DEF TailTypes
    <3>5. out' \in Seq(Chunk)
      <4> DEFINE new == Chunks(target, view[target].file, view[target].cursor + 1, files[target][view[target].file])
      <4>1. out' = out \o new
        BY <1>6, <2>2, CopyEffect
      <4> HIDE DEF new
      <4> QED
        BY <3>3, <3>4, <4>1 DEF new
    <3>6. Append(ordered, target) \in Seq(Sessions \cup {None}) /\ ordered \in Seq(Sessions \cup {None})
      BY <1>0, <2>1 DEF TailTypes
    <3>7. ordered' \in Seq(Sessions \cup {None})
      BY <1>6, <2>2, <3>6, CopyEffect
    <3>8. [view[target] EXCEPT !.cursor = files[target][view[target].file]] \in View
      BY <2>1, <3>2 DEF View
    <3>9. view' \in [Sessions -> View \cup {None}]
      BY <1>0, <1>6, <2>1, <2>2, <3>8, CopyEffect DEF TailTypes
    <3> QED
      BY <1>0, <1>6, <2>2, <3>5, <3>7, <3>9, CopyEffect DEF Labels, TailTypes, elected, control, locals
  <2>3. CASE ~view[target].open
    BY <1>0, <1>6, <2>3, CopyEffect DEF Return, Labels, TailTypes, elected, output, control, locals
  <2> QED
    BY <2>2, <2>3
<1>7. CASE updateNextSessionTmp
  <2>1. target \in Sessions /\ view[target] \in View
    BY <1>0, <1>7 DEF updateNextSessionTmp, PlaceInv, TailTypes, Known
  <2>2. NextTmp(view[target]) \in View
    BY <2>1, NextTmpType
  <2>3. [view[target] EXCEPT !.flushed = TRUE, !.open = FALSE] \in View
    BY <2>1 DEF View
  <2>4. \/ view' = view
        \/ view' = [view EXCEPT ![target] = NextTmp(view[target])]
        \/ view' = [view EXCEPT ![target] = [view[target] EXCEPT !.flushed = TRUE, !.open = FALSE]]
    BY <1>0, <1>7, <2>1, UpdateEffect DEF TailTypes
  <2>5. view' \in [Sessions -> View \cup {None}]
    BY <1>0, <2>1, <2>2, <2>3, <2>4 DEF TailTypes
  <2>6. /\ pc' \in Labels /\ hasNextBefore' \in BOOLEAN
        /\ UNCHANGED <<sink, elected, output, control, ret, toScan, target, notEnded, tailed>>
    BY <1>0, <1>7, <2>1, UpdateEffect DEF Labels, TailTypes
  <2> QED
    BY <1>0, <2>5, <2>6 DEF TailTypes, elected, output, control
<1> QED
  BY <1>1, <1>2, <1>3, <1>4, <1>5, <1>6, <1>7

\* The steps that elect.
LEMMA ElectTypes ==
  ASSUME TailInv, electSession \/ electNext
  PROVE  TailTypes'
<1>0. SinkTypes /\ TailTypes /\ PlaceInv /\ ViewInv /\ SerInv
  BY DEF TailInv
<1>1. out' \in Seq(Chunk) /\ ordered' \in Seq(Sessions \cup {None}) /\ noticed' \in Nat
  <2>1. CASE tailNotifications(TRUE)
    BY <1>0, <2>1, NoticesType
  <2>2. CASE UNCHANGED output
    BY <1>0, <2>2 DEF output, TailTypes
  <2> QED
    BY <2>1, <2>2 DEF electSession, electNext
<1>2. CASE electSession
  <2>1. CASE electedSession = None
    <3>1. Scan("pick") /\ UNCHANGED <<view, target>>
      BY <1>2, <2>1 DEF electSession
    <3>2. toScan' \subseteq Sessions /\ ret' \in Labels /\ pc' \in Labels
      BY <3>1, ScanTypes DEF Labels
    <3> QED
      BY <1>0, <1>1, <1>2, <3>1, <3>2 DEF electSession, TailTypes, elected, control
  <2>2. CASE electedSession # None
    <3>1. electedSession \in Sessions /\ ser[electedSession] # None
      BY <1>0, <2>2 DEF TailTypes, SerInv
    <3>2. Scanned(electedSession) \in View
      BY <1>0, <3>1, ScannedType
    <3>3. view' = [view EXCEPT ![electedSession] = Scanned(electedSession)] /\ target' = electedSession
          /\ pc' = "tailSession" /\ UNCHANGED <<ret, toScan>>
      BY <1>2, <2>2 DEF electSession, Goto
    <3>4. view' \in [Sessions -> View \cup {None}]
      BY <1>0, <3>1, <3>2, <3>3 DEF TailTypes
    <3> QED
      BY <1>0, <1>1, <1>2, <3>1, <3>3, <3>4 DEF electSession, Labels, TailTypes, elected, control
  <2> QED
    BY <2>1, <2>2
<1>3. CASE electNext
  <2>1. /\ electedSession' \in Sessions \cup {None} /\ target' \in Sessions \cup {None}
        /\ blockingSessionsQueue' \in Seq(Sessions) /\ pc' \in Labels
    <3>1. ASSUME NEW first \in DOMAIN blockingSessionsQueue,
                 blockingSessionsQueue' = SubSeq(blockingSessionsQueue, first + 1, Len(blockingSessionsQueue)),
                 Elect(blockingSessionsQueue[first])
          PROVE  /\ electedSession' \in Sessions \cup {None} /\ target' \in Sessions \cup {None}
                 /\ blockingSessionsQueue' \in Seq(Sessions) /\ pc' \in Labels
      <4>1. blockingSessionsQueue \in Seq(Sessions) /\ first \in 1 .. Len(blockingSessionsQueue)
        BY <1>0, <3>1 DEF TailTypes
      <4>2. blockingSessionsQueue[first] \in Sessions
        BY <4>1
      <4>3. SubSeq(blockingSessionsQueue, first + 1, Len(blockingSessionsQueue)) \in Seq(Sessions)
        BY <4>1
      <4> QED
        BY <3>1, <4>2, <4>3 DEF Elect, Goto, Labels
    <3>2. CASE /\ blockingSessionsQueue' = <<>>
               /\ \/ \E s \in Sessions : Foremost(s) /\ Elect(s)
                  \/ Goto("tailed") /\ UNCHANGED <<electedSession, target>>
      <4>1. <<>> \in Seq(Sessions)
        OBVIOUS
      <4> QED
        BY <1>0, <3>2, <4>1 DEF Elect, Goto, Labels, TailTypes
    <3> QED
      BY <1>3, <3>1, <3>2 DEF electNext
  <2> QED
    BY <1>0, <1>1, <1>3, <2>1 DEF electNext, TailTypes, control
<1> QED
  BY <1>2, <1>3

\* The steps that end a round.
LEMMA EndStepsTypes ==
  ASSUME TailInv, tailedNext \/ tailedAll \/ tailedOne \/ TestEnded \/ TestFound \/ tailedSupplied
  PROVE  TailTypes'
<1>0. SinkTypes /\ TailTypes /\ PlaceInv /\ ViewInv /\ SerInv
  BY DEF TailInv
<1>1. \A b \in BOOLEAN : tailNotifications(b) => out' \in Seq(Chunk) /\ ordered' \in Seq(Sessions \cup {None}) /\ noticed' \in Nat
  BY <1>0, NoticesType
<1>2. UNCHANGED output => out' \in Seq(Chunk) /\ ordered' \in Seq(Sessions \cup {None}) /\ noticed' \in Nat
  BY <1>0 DEF output, TailTypes
<1>3. CASE tailedNext
  <2>1. out' \in Seq(Chunk) /\ ordered' \in Seq(Sessions \cup {None}) /\ noticed' \in Nat
    BY <1>1, <1>3 DEF tailedNext
  <2>2. /\ pc' = "tailNext" /\ electedSession' = None
        /\ UNCHANGED <<view, sessionsByPriority, blockingSessionsQueue>>
    BY <1>3 DEF tailedNext, Goto
  <2>3. UNCHANGED <<control, locals>>
    BY <1>3 DEF tailedNext
  <2> QED
    BY <1>0, <2>1, <2>2, <2>3 DEF TailTypes, Labels, control, locals
<1>4. CASE tailedAll
  BY <1>0, <1>4 DEF tailedAll, Return, Goto, Labels, TailTypes, elected, output, control, locals
<1>5. CASE tailedOne
  <2>1. CASE KnownEnded(Name)
    BY <1>0, <1>5, <2>1 DEF tailedOne, Goto, Labels, TailTypes, elected, output, control
  <2>2. CASE ~KnownEnded(Name)
    <3>1. toScan' \subseteq Sessions /\ ret' \in Labels /\ pc' \in Labels
      BY <1>5, <2>2, ScanTypes DEF tailedOne, Labels
    <3> QED
      BY <1>0, <1>5, <3>1 DEF tailedOne, TailTypes, elected, output, control
  <2> QED
    BY <2>1, <2>2
<1>6. CASE TestEnded
  <2>1. call.op \in {"TailOnlyBlocking", "TailBlocking"} /\ Name \in Sessions
    BY <1>0, <1>6, NameType DEF TestEnded, PlaceInv, At
  <2>2. out' \in Seq(Chunk) /\ ordered' \in Seq(Sessions \cup {None}) /\ noticed' \in Nat
    BY <1>1, <1>2, <1>6 DEF TestEnded
  <2>3. view' \in [Sessions -> View \cup {None}]
    <3>1. CASE KnownEnded(Name)
      <4>1. ser[Name] # None
        BY <1>0, <2>1, <3>1 DEF SerInv, KnownEnded
      <4>2. Scanned(Name) \in View
        BY <1>0, <2>1, <4>1, ScannedType
      <4> QED
        BY <1>0, <1>6, <2>1, <4>2 DEF TestEnded, TailTypes
    <3>2. CASE ~KnownEnded(Name)
      BY <1>0, <1>6, <3>2 DEF TestEnded, TailTypes
    <3> QED
      BY <3>1, <3>2
  <2>4. pc' \in Labels /\ result' \in {None, "ok", "timeout", "error"} /\ UNCHANGED <<call, pos, count>>
    BY <1>0, <1>6 DEF TestEnded, Return, Goto, Labels, TailTypes, control
  <2> QED
    BY <1>0, <1>6, <2>2, <2>3, <2>4 DEF TestEnded, TailTypes, elected, locals
<1>7. CASE tailedSupplied
  <2>1. Name \in Sessions
    BY <1>0, <1>7, NameType DEF tailedSupplied
  <2>2. out' \in Seq(Chunk) /\ ordered' \in Seq(Sessions \cup {None}) /\ noticed' \in Nat
    BY <1>1, <1>2, <1>7 DEF tailedSupplied, output
  <2>3. view' \in [Sessions -> View \cup {None}]
    <3>1. CASE KnownEnded(Name)
      <4>1. ser[Name] # None
        BY <1>0, <2>1, <3>1 DEF SerInv, KnownEnded
      <4>2. Scanned(Name) \in View
        BY <1>0, <2>1, <4>1, ScannedType
      <4> QED
        BY <1>0, <1>7, <2>1, <3>1, <4>2 DEF tailedSupplied, TailTypes
    <3>2. CASE ~KnownEnded(Name)
      BY <1>0, <1>7, <3>2 DEF tailedSupplied, TailTypes
    <3> QED
      BY <3>1, <3>2
  <2>4. tailed' \in BOOLEAN
    <3>1. CASE KnownEnded(Name)
      BY <1>7, <3>1 DEF tailedSupplied
    <3>2. CASE ~KnownEnded(Name)
      <4>1. CASE Known(Name)
        <5>1. view[Name].tailed \in BOOLEAN
          BY <1>0, <2>1, <4>1 DEF Known, TailTypes, View
        <5> QED
          BY <1>7, <3>2, <5>1 DEF tailedSupplied
      <4>2. CASE ~Known(Name)
        BY <1>7, <3>2, <4>2 DEF tailedSupplied
      <4> QED
        BY <4>1, <4>2
    <3> QED
      BY <3>1, <3>2
  <2>5. pc' \in Labels /\ result' \in {None, "ok", "timeout", "error"} /\ pos' \in Nat /\ UNCHANGED <<call, count>>
    <3>1. CASE KnownEnded(Name) /\ pos < Len(call.names)
      BY <1>0, <1>7, <3>1 DEF tailedSupplied, Goto, Labels, TailTypes
    <3>2. CASE KnownEnded(Name) /\ ~(pos < Len(call.names))
      BY <1>0, <1>7, <3>2 DEF tailedSupplied, Return, Labels, TailTypes
    <3>3. CASE ~KnownEnded(Name)
      BY <1>0, <1>7, <3>3 DEF tailedSupplied, Goto, Labels, TailTypes, control
    <3> QED
      BY <3>1, <3>2, <3>3
  <2> QED
    BY <1>0, <1>7, <2>2, <2>3, <2>4, <2>5 DEF tailedSupplied, TailTypes, elected
<1>8. CASE TestFound
  BY <1>0, <1>8 DEF TestFound, Return, Goto, Labels, TailTypes, elected, output, control, locals
<1> QED
  BY <1>3, <1>4, <1>5, <1>6, <1>7, <1>8

\* The steps that clear.
LEMMA ClearStepsTypes ==
  ASSUME TailInv, clearSession \/ clearSessionsMap \/ ClearReturns
  PROVE  TailTypes'
<1>0. SinkTypes /\ TailTypes /\ PlaceInv /\ ViewInv /\ SerInv
  BY DEF TailInv
<1>1. CASE clearSession
  <2>1. PICK s \in toScan :
          /\ sessionsByPriority' = [sessionsByPriority EXCEPT ![Priority[s]] = Delete(sessionsByPriority[Priority[s]], s)]
          /\ electedSession' = IF electedSession = s THEN None ELSE electedSession
          /\ target' = s
    BY <1>1 DEF clearSession
  <2>2. s \in Sessions /\ Priority[s] \in Priorities
    BY <1>0 DEF TailTypes, Priorities
  <2>3. Delete(sessionsByPriority[Priority[s]], s) \in Seq(Sessions)
    BY <1>0, <2>2, DeleteFacts DEF TailTypes, SerInv
  <2>4. sessionsByPriority' \in [Priorities -> Seq(Sessions)]
    BY <1>0, <2>1, <2>3 DEF TailTypes
  <2>5. electedSession' \in Sessions \cup {None} /\ target' \in Sessions \cup {None}
    BY <1>0, <2>1, <2>2 DEF TailTypes
  <2> QED
    BY <1>0, <1>1, <2>4, <2>5 DEF clearSession, Goto, Labels, TailTypes, output, control
<1>2. CASE clearSessionsMap
  <2>1. target \in Sessions
    BY <1>0, <1>2 DEF clearSessionsMap, PlaceInv
  <2>2. view' = view \/ view' = [view EXCEPT ![target] = None]
    BY <1>2 DEF clearSessionsMap, clear
  <2>3. view' \in [Sessions -> View \cup {None}]
    BY <1>0, <2>2 DEF TailTypes
  <2>4. pc' \in Labels /\ result' \in {None, "ok", "timeout", "error"} /\ UNCHANGED <<call, pos, count>> /\ toScan' \subseteq Sessions
    BY <1>0, <1>2 DEF clearSessionsMap, Return, Goto, Labels, TailTypes, control
  <2> QED
    BY <1>0, <1>2, <2>3, <2>4 DEF clearSessionsMap, TailTypes, elected, output
<1>3. CASE ClearReturns
  BY <1>0, <1>3 DEF ClearReturns, Return, Labels, TailTypes, elected, output, locals
<1> QED
  BY <1>1, <1>2, <1>3

-----------------------------------------------------------------------------
(* Each place keeps to its calls.                                          *)

\* A call begins at a place of its own.
LEMMA PlaceCall ==
  ASSUME TailInv, NEW op \in Calls, NEW names \in Names(op), Call(op, names)
  PROVE  PlaceInv'
<1>1. op \in Methods /\ names \in Seq(Sessions) /\ (op \notin {"TailAllBlocking", "Clear"} => Len(names) >= 1)
  BY CallsAssumption, NamesType
<1>2. call' = [op |-> op, names |-> names] /\ pos' = 1
  BY DEF Call
<1>3. call' \in Calling /\ call'.op = op /\ call'.names = names
  BY <1>1, <1>2 DEF Calling
<1>4. pos' \in Nat /\ (op \notin {"TailAllBlocking", "Clear"} => pos' \in 1 .. Len(call'.names))
  BY <1>1, <1>2, <1>3
<1>5. CASE op \in Clearing
  <2>1. pc' = "clear"
    BY <1>5 DEF Call, Goto, Clearing
  <2> QED
    BY <1>3, <1>4, <1>5, <2>1 DEF PlaceInv, At, Clearing
<1>6. CASE op \notin Clearing
  <2>1. pc' \in {"tailNext", "idle", "loop"}
    BY <1>6 DEF Call, Goto, Clearing
  <2> QED
    BY <1>3, <1>4, <1>6, <2>1 DEF PlaceInv, At, Clearing
<1> QED
  BY <1>5, <1>6

\* A step of the same call.
LEMMA PlaceGoto ==
  ASSUME TailInv, pc # "idle", pc' # "idle", UNCHANGED <<call, pos>>,
         pc' \in {"clear", "cleared"} <=> pc \in {"clear", "cleared"}
  PROVE  pc' # "idle" =>
           /\ call' \in Calling
           /\ call'.op \in Clearing <=> pc' \in {"clear", "cleared"}
           /\ call'.op \notin {"TailAllBlocking", "Clear"} => pos' \in 1 .. Len(call'.names)
  BY DEF TailInv, PlaceInv

\* Nothing is asked of a tailer that is idle.
LEMMA PlaceIdle ==
  ASSUME pc' = "idle"
  PROVE  PlaceInv'
  BY DEF PlaceInv, At

\* Every step of the tailer keeps to the places of its call.
LEMMA PlaceSteps ==
  ASSUME TailInv, Work \/ Timeout
  PROVE  PlaceInv'
<1>0. SinkTypes /\ TailTypes /\ PlaceInv /\ ViewInv /\ SerInv
  BY DEF TailInv
<1>1. CASE Timeout
  BY <1>1, PlaceIdle DEF Timeout, Return
<1>2. CASE Loop
  <2>1. /\ pc = "loop" /\ UNCHANGED <<call, pos>>
        /\ call.op \in {"TailOnlyBlocking", "TailSuppliedBlocking", "TailBlocking", "TailAllBlocking"}
    BY <1>0, <1>2, CallsAssumption DEF Loop, control, PlaceInv, Calling, Methods, Clearing
  <2>2. \/ pc' = "scan" /\ ret' = "tailOnce" /\ call.op \in {"TailOnlyBlocking", "TailSuppliedBlocking"}
        \/ pc' = "scan" /\ ret' = "tailNext"
        \/ pc' = "tailNext"
    <3>1. CASE call.op \in {"TailOnlyBlocking", "TailSuppliedBlocking"}
      BY <1>2, <3>1 DEF Loop, Scan, Goto
    <3>2. CASE call.op = "TailBlocking"
      BY <1>2, <3>2 DEF Loop, Goto
    <3>3. CASE call.op = "TailAllBlocking"
      BY <1>2, <3>3 DEF Loop, Scan, Goto
    <3> QED
      BY <2>1, <3>1, <3>2, <3>3
  <2> QED
    BY <2>1, <2>2, PlaceGoto DEF PlaceInv, At
<1>3. CASE scanSessions
  <2>1. pc = "scan" /\ pc' \in {"scan", ret} /\ UNCHANGED <<call, pos, ret>> /\ ret \in {"tailOnce", "pick", "tailNext", "test", "found"}
    BY <1>0, <1>3 DEF scanSessions, Goto, control, PlaceInv
  <2> QED
    BY <1>0, <2>1, PlaceGoto DEF PlaceInv, At
<1>4. CASE tailOnce
  <2>1. pc = "tailOnce" /\ UNCHANGED <<call, pos, view>> /\ Name \in Sessions /\ target' = Name
    BY <1>0, <1>4, NameType DEF tailOnce, control, PlaceInv, At
  <2>2. pc' = "tailed" \/ (pc' = "tailSession" /\ view'[target'] # None)
    BY <1>4, <2>1 DEF tailOnce, Goto, Known
  <2> QED
    BY <2>1, <2>2, PlaceGoto DEF PlaceInv, At, Known
<1>5. CASE tailSession
  <2>1. pc = "tailSession" /\ UNCHANGED <<call, pos, target>> /\ target \in Sessions /\ view[target] \in View
    BY <1>0, <1>5 DEF tailSession, control, PlaceInv, TailTypes, Known
  <2>2. \/ pc' = "tailed"
        \/ pc' = "copy" /\ view' = [view EXCEPT ![target] = [view[target] EXCEPT !.tailed = TRUE]]
    BY <1>5 DEF tailSession, Goto
  <2>3. [view[target] EXCEPT !.tailed = TRUE] \in View
    BY <2>1 DEF View
  <2>4. pc' = "copy" => view'[target] # None
    BY <1>0, <2>1, <2>2, <2>3, NoneAssumption DEF TailTypes
  <2> QED
    BY <2>1, <2>2, <2>4, PlaceGoto DEF PlaceInv, At, Known
<1>6. CASE CopyChunk
  <2>1. pc = "copy" /\ target' = target /\ target \in Sessions /\ view[target] \in View
    BY <1>0, <1>6, CopyEffect DEF locals, PlaceInv, TailTypes, Known
  <2>2. CASE view[target].open
    <3>1. pc' = "next" /\ UNCHANGED <<call, pos>>
      BY <1>6, <2>2, CopyEffect DEF control
    <3>2. view' = [view EXCEPT ![target] = [view[target] EXCEPT !.cursor = files[target][view[target].file]]]
      BY <1>6, <2>2, CopyEffect
    <3>3. files[target][view[target].file] \in Nat
      <4>1. view[target].file \in Nat /\ files[target] \in Seq(Nat) /\ view[target].file <= Len(files[target]) /\ view[target].file # 0
        BY <1>0, <2>1, <2>2, NoneAssumption DEF ViewInv, View, SinkTypes, Known
      <4> QED
        BY <4>1
    <3>4. [view[target] EXCEPT !.cursor = files[target][view[target].file]] \in View
      BY <2>1, <3>3 DEF View
    <3>5. view'[target] # None
      BY <1>0, <2>1, <3>2, <3>4, NoneAssumption DEF TailTypes
    <3> QED
      BY <2>1, <3>1, <3>5, PlaceGoto DEF PlaceInv, At, Known
  <2>3. CASE ~view[target].open
    <3>1. pc' = "idle" \/ (pc' = "panicked" /\ UNCHANGED <<call, pos>>)
      BY <1>6, <2>3, CopyEffect DEF Return, control
    <3> QED
      BY <1>6, <3>1, CopyEffect, PlaceGoto, PlaceIdle DEF PlaceInv, At
  <2> QED
    BY <2>2, <2>3
<1>7. CASE updateNextSessionTmp
  <2>1. pc = "next" /\ target \in Sessions /\ view[target] \in View /\ Known(target)
    BY <1>0, <1>7 DEF updateNextSessionTmp, PlaceInv, TailTypes, Known
  <2>2. UNCHANGED <<call, pos, target>> /\ pc' \in {"copy", "tailed"}
        /\ (pc' = "copy" => view' = view \/ view' = [view EXCEPT ![target] = NextTmp(view[target])])
    BY <1>0, <1>7, <2>1, UpdateEffect DEF control, TailTypes
  <2>3. NextTmp(view[target]) # None
    BY <2>1, NextTmpType, NoneAssumption
  <2>4. pc' = "copy" => view'[target] # None
    BY <1>0, <2>1, <2>2, <2>3 DEF TailTypes, Known
  <2> QED
    BY <2>1, <2>2, <2>4, PlaceGoto DEF PlaceInv, At, Known
<1>8. CASE electSession
  <2>1. pc = "tailNext" /\ UNCHANGED <<call, pos>>
    BY <1>8 DEF electSession, control
  <2>2. CASE electedSession = None
    <3>1. pc' = "scan" /\ ret' = "pick"
      BY <1>8, <2>2 DEF electSession, Scan, Goto
    <3> QED
      BY <2>1, <3>1, PlaceGoto DEF PlaceInv, At
  <2>3. CASE electedSession # None
    <3>1. electedSession \in Sessions /\ ser[electedSession] # None
      BY <1>0, <2>3 DEF TailTypes, SerInv
    <3>2. Scanned(electedSession) # None
      BY <1>0, <3>1, ScannedType
    <3>3. pc' = "tailSession" /\ target' = electedSession /\ view'[target'] # None
      BY <1>0, <1>8, <2>3, <3>1, <3>2 DEF electSession, Goto, TailTypes
    <3> QED
      BY <2>1, <3>1, <3>3, PlaceGoto DEF PlaceInv, At, Known
  <2> QED
    BY <2>2, <2>3
<1>9. CASE electNext
  <2>1. pc = "pick" /\ UNCHANGED <<call, pos, view>>
    BY <1>9 DEF electNext, control
  <2>2. pc' = "tailed" \/ (pc' = "tailSession" /\ target' \in Sessions /\ view[target'] # None)
    <3>1. ASSUME NEW first \in DOMAIN blockingSessionsQueue, Known(blockingSessionsQueue[first]), Elect(blockingSessionsQueue[first])
          PROVE  pc' = "tailSession" /\ target' \in Sessions /\ view[target'] # None
      BY <1>0, <3>1 DEF Elect, Goto, Known, TailTypes
    <3>2. ASSUME NEW s \in Sessions, Foremost(s), Elect(s)
          PROVE  pc' = "tailSession" /\ target' \in Sessions /\ view[target'] # None
      <4>1. Known(s)
        BY <1>0, <3>2 DEF Foremost, Eligible, SerInv
      <4> QED
        BY <3>2, <4>1 DEF Elect, Goto, Known
    <3> QED
      BY <1>9, <3>1, <3>2 DEF electNext, Goto
  <2> QED
    BY <2>1, <2>2, PlaceGoto DEF PlaceInv, At, Known
<1>10. CASE tailedNext
  <2>1. pc = "tailed" /\ pc' = "tailNext" /\ UNCHANGED <<call, pos>>
    BY <1>10 DEF tailedNext, Goto, control
  <2> QED
    BY <2>1, PlaceGoto DEF PlaceInv, At
<1>11. CASE tailedAll
  <2>1. pc' = "idle" \/ (pc = "tailed" /\ pc' = "loop" /\ UNCHANGED <<call, pos>>)
    BY <1>11 DEF tailedAll, Goto, Return, control
  <2> QED
    BY <2>1, PlaceGoto, PlaceIdle DEF PlaceInv, At
<1>12. CASE tailedOne
  <2>1. pc = "tailed" /\ UNCHANGED <<call, pos>> /\ call.op \in {"TailOnlyBlocking", "TailBlocking"}
        /\ (pc' = "test" \/ (pc' = "scan" /\ ret' \in {"test", "found"}))
    <3>1. CASE KnownEnded(Name)
      BY <1>12, <3>1 DEF tailedOne, Goto, control
    <3>2. CASE ~KnownEnded(Name)
      BY <1>12, <3>2 DEF tailedOne, Goto, Scan, control
    <3> QED
      BY <3>1, <3>2
  <2> QED
    BY <2>1, PlaceGoto DEF PlaceInv, At
<1>13. CASE TestEnded \/ TestFound
  <2>1. pc' = "idle" \/ (pc \in {"test", "found"} /\ pc' = "loop" /\ UNCHANGED <<call, pos>>)
    BY <1>13 DEF TestEnded, TestFound, Goto, Return, control
  <2> QED
    BY <2>1, PlaceGoto, PlaceIdle DEF PlaceInv, At
<1>14. CASE tailedSupplied
  <2>1. pc = "tailed" /\ call.op = "TailSuppliedBlocking" /\ call \in Calling /\ pos \in Nat /\ pos \in 1 .. Len(call.names)
    BY <1>0, <1>14 DEF tailedSupplied, PlaceInv, TailTypes
  <2>2. \/ pc' = "idle"
        \/ pc' = "loop" /\ UNCHANGED <<call, pos>>
        \/ pc' = "loop" /\ UNCHANGED call /\ pos < Len(call.names) /\ pos' = pos + 1
    BY <1>14 DEF tailedSupplied, Goto, Return, control
  <2>3. CASE pos < Len(call.names) /\ pos' = pos + 1 /\ pc' = "loop" /\ UNCHANGED call
    <3>1. Len(call.names) \in Nat
      BY <2>1 DEF Calling
    <3>2. pos' \in 1 .. Len(call.names)
      BY <2>1, <2>3, <3>1
    <3> QED
      BY <2>1, <2>3, <3>2 DEF PlaceInv, At, Clearing
  <2> QED
    BY <2>1, <2>2, <2>3, PlaceGoto, PlaceIdle DEF PlaceInv, At
<1>15. CASE clearSession
  <2>1. pc = "clear" /\ pc' = "cleared" /\ UNCHANGED <<call, pos>> /\ target' \in Sessions
    BY <1>0, <1>15 DEF clearSession, Goto, control, TailTypes
  <2> QED
    BY <2>1, PlaceGoto DEF PlaceInv, At
<1>16. CASE clearSessionsMap
  <2>1. pc' = "idle" \/ (pc = "cleared" /\ pc' = "clear" /\ UNCHANGED <<call, pos>>)
    BY <1>16 DEF clearSessionsMap, Return, Goto, control
  <2> QED
    BY <2>1, PlaceGoto, PlaceIdle DEF PlaceInv, At
<1>17. CASE ClearReturns
  BY <1>17, PlaceIdle DEF ClearReturns, Return
<1> QED
  BY <1>1, <1>2, <1>3, <1>4, <1>5, <1>6, <1>7, <1>8, <1>9, <1>10, <1>11, <1>12, <1>13, <1>14, <1>15, <1>16, <1>17 DEF Work

-----------------------------------------------------------------------------
(* What a step does to the sessions of the tailer and to their files.      *)

\* A session stays where it is in its tmp files; or it is left; or it is read
\* from its .ser file, at the first tmp file if there is one; or it moves on
\* to the next one.
Moves(s) ==
  \/ /\ Known(s) /\ Known(s)'
     /\ view'[s].file = view[s].file /\ view'[s].cursor = view[s].cursor
     /\ view'[s].open => view[s].open
  \/ ~Known(s)' /\ (Known(s) => removed'[s] = Len(files'[s]))
  \/ /\ ~Known(s) /\ Known(s)' /\ view'[s].cursor = 0
     /\ \/ view'[s].file = 0 /\ ~view'[s].open /\ removed'[s] > 0
        \/ view'[s].file = removed'[s] + 1 /\ removed'[s] < Len(files'[s])
  \/ /\ Known(s) /\ Known(s)'
     /\ pc = "next" /\ s = target /\ hasNextBefore /\ hasNextSessionTmp(s)
     /\ view'[s].file = view[s].file + 1 /\ view'[s].cursor = 0

\* A session that is ended for the tailer has been so, or its .ser file says so.
Ends(s) == Known(s)' => ser[s] # None \/ (Known(s) /\ (view'[s].ended => view[s].ended))

\* A session that the step leaves alone.
LEMMA SameView ==
  ASSUME NEW s \in Sessions, view'[s] = view[s]
  PROVE  Moves(s) /\ Ends(s) /\ (Known(s) => Known(s)')
  BY DEF Moves, Ends, Known

\* A session that the step reads from its .ser file.
LEMMA ScannedView ==
  ASSUME SinkTypes, TailTypes, ViewInv, NEW s \in Sessions, ser[s] # None, UNCHANGED disk,
         view' = [view EXCEPT ![s] = Scanned(s)]
  PROVE  Known(s)' /\ \A r \in Sessions : Moves(r) /\ Ends(r) /\ (Known(r) => Known(r)')
<1>1. view'[s] = Scanned(s) /\ \A r \in Sessions \ {s} : view'[r] = view[r]
  BY DEF TailTypes
<1>2. Known(s)'
  BY <1>1, ScannedType DEF Known
<1>3. CASE Known(s)
  <2>1. view'[s].file = view[s].file /\ view'[s].cursor = view[s].cursor /\ view'[s].open = view[s].open
    BY <1>1, <1>3, ScannedType
  <2>2. Moves(s)
    BY <1>2, <1>3, <2>1 DEF Moves
  <2> QED
    BY <1>1, <1>2, <2>2, SameView DEF Ends
<1>4. CASE ~Known(s)
  <2>1. /\ view'[s].cursor = 0
        /\ view'[s].file = 0 => ~view'[s].open /\ removed[s] > 0
        /\ view'[s].file # 0 => view'[s].file = removed[s] + 1 /\ removed[s] < Len(files[s])
    BY <1>1, <1>4, ScannedType
  <2>2. Moves(s)
    BY <1>2, <1>4, <2>1 DEF Moves, disk
  <2> QED
    BY <1>1, <1>2, <2>2, SameView DEF Ends
<1> QED
  BY <1>3, <1>4

\* A session of which the step changes the flags only.
LEMMA FlaggedView ==
  ASSUME TailTypes, NEW s \in Sessions, Known(s), NEW v \in View, view' = [view EXCEPT ![s] = v],
         v.file = view[s].file, v.cursor = view[s].cursor, v.ended = view[s].ended, v.open => view[s].open
  PROVE  \A r \in Sessions : Moves(r) /\ Ends(r) /\ (Known(r) => Known(r)')
<1>1. view'[s] = v /\ \A r \in Sessions \ {s} : view'[r] = view[r]
  BY DEF TailTypes
<1>2. Known(s)'
  BY <1>1, NoneAssumption DEF Known
<1>3. Moves(s) /\ Ends(s)
  BY <1>1, <1>2 DEF Moves, Ends
<1> QED
  BY <1>1, <1>2, <1>3, SameView

\* The steps that scan, and those that tail a session but for the copy.
LEMMA TailMoves ==
  ASSUME TailInv, Timeout \/ Loop \/ scanSessions \/ tailOnce \/ tailSession \/ updateNextSessionTmp
  PROVE  UNCHANGED <<out, disk>> /\ \A s \in Sessions : Moves(s) /\ Ends(s) /\ (Known(s) => Known(s)')
<1>0. SinkTypes /\ TailTypes /\ PlaceInv /\ ViewInv /\ SerInv
  BY DEF TailInv
<1>1. CASE UNCHANGED <<out, disk, view>>
  BY <1>1, SameView
<1>2. CASE Timeout
  BY <1>1, <1>2 DEF Timeout, output, sink
<1>3. CASE Loop
  BY <1>1, <1>3 DEF Loop, tailNotifications, output, sink
<1>4. CASE scanSessions
  <2>1. UNCHANGED <<out, disk>>
    BY <1>4 DEF scanSessions, output, sink
  <2>2. CASE view' = view
    BY <1>1, <2>1, <2>2
  <2>3. ASSUME NEW s \in toScan, view' = [view EXCEPT ![s] = Scanned(s)]
        PROVE  \A r \in Sessions : Moves(r) /\ Ends(r) /\ (Known(r) => Known(r)')
    <3>1. s \in Sessions /\ ser[s] # None
      BY <1>0, <1>4, <2>3 DEF SerInv, TailTypes, scanSessions
    <3> QED
      BY <1>0, <2>1, <2>3, <3>1, ScannedView
  <2> QED
    BY <1>4, <2>1, <2>2, <2>3 DEF scanSessions
<1>5. CASE tailOnce
  BY <1>1, <1>5 DEF tailOnce, output, sink
<1>6. CASE tailSession
  <2>1. UNCHANGED <<out, disk>>
    BY <1>6 DEF tailSession, output, sink
  <2>2. target \in Sessions /\ view[target] \in View /\ Known(target)
    BY <1>0, <1>6 DEF tailSession, PlaceInv, TailTypes, Known
  <2> DEFINE v == [view[target] EXCEPT !.tailed = TRUE]
  <2>3. v \in View /\ v.file = view[target].file /\ v.cursor = view[target].cursor /\ v.ended = view[target].ended
        /\ v.open = view[target].open
    BY <2>2 DEF View
  <2>4. view' = view \/ view' = [view EXCEPT ![target] = v]
    BY <1>6 DEF tailSession
  <2> HIDE DEF v
  <2> QED
    BY <1>0, <1>1, <2>1, <2>2, <2>3, <2>4, FlaggedView
<1>7. CASE updateNextSessionTmp
  <2>1. target \in Sessions /\ view[target] \in View /\ Known(target)
    BY <1>0, <1>7 DEF updateNextSessionTmp, PlaceInv, TailTypes, Known
  <2>2. UNCHANGED <<out, disk>> /\ pc = "next"
    BY <1>0, <1>7, <2>1, UpdateEffect DEF TailTypes, output, sink
  <2> DEFINE v == [view[target] EXCEPT !.flushed = TRUE, !.open = FALSE]
  <2>3. v \in View /\ v.file = view[target].file /\ v.cursor = view[target].cursor /\ v.ended = view[target].ended
        /\ ~v.open
    BY <2>1 DEF View
  <2>4. \/ view' = view
        \/ view' = [view EXCEPT ![target] = v]
        \/ hasNextSessionTmp(target) /\ hasNextBefore /\ view' = [view EXCEPT ![target] = NextTmp(view[target])]
    BY <1>0, <1>7, <2>1, UpdateEffect DEF TailTypes
  <2> HIDE DEF v
  <2>5. ASSUME hasNextSessionTmp(target), hasNextBefore, view' = [view EXCEPT ![target] = NextTmp(view[target])]
        PROVE  \A r \in Sessions : Moves(r) /\ Ends(r) /\ (Known(r) => Known(r)')
    <3>1. view'[target] = NextTmp(view[target]) /\ \A r \in Sessions \ {target} : view'[r] = view[r]
      BY <1>0, <2>1, <2>5 DEF TailTypes
    <3>2. /\ view'[target] # None
          /\ view'[target].file = view[target].file + 1 /\ view'[target].cursor = 0
          /\ view'[target].ended = view[target].ended
      BY <2>1, <3>1, NextTmpType, NoneAssumption
    <3>3. ASSUME NEW r \in Sessions, r = target
          PROVE  Known(r)' /\ Moves(r) /\ Ends(r)
      BY <2>1, <2>2, <2>5, <3>2, <3>3 DEF Moves, Ends, Known
    <3> QED
      BY <3>1, <3>3, SameView
  <2> QED
    BY <1>0, <1>1, <2>1, <2>2, <2>3, <2>4, <2>5, FlaggedView
<1> QED
  BY <1>2, <1>3, <1>4, <1>5, <1>6, <1>7

\* The steps that elect, and those that end a round.
LEMMA EndMoves ==
  ASSUME TailInv, electSession \/ electNext \/ tailedNext \/ tailedAll \/ tailedOne \/ TestEnded \/ TestFound \/ tailedSupplied
  PROVE  UNCHANGED <<out, disk>> /\ \A s \in Sessions : Moves(s) /\ Ends(s) /\ (Known(s) => Known(s)')
<1>0. SinkTypes /\ TailTypes /\ PlaceInv /\ ViewInv /\ SerInv
  BY DEF TailInv
<1>1. UNCHANGED <<out, disk>>
  BY DEF electSession, electNext, tailedNext, tailedAll, tailedOne, TestEnded, TestFound, tailedSupplied, tailNotifications, output, sink
<1>2. CASE view' = view
  BY <1>1, <1>2, SameView
<1>3. ASSUME NEW s \in Sessions, ser[s] # None, view' = [view EXCEPT ![s] = Scanned(s)]
      PROVE  \A r \in Sessions : Moves(r) /\ Ends(r) /\ (Known(r) => Known(r)')
  BY <1>0, <1>1, <1>3, ScannedView
<1>4. CASE electSession
  <2>1. electedSession # None => electedSession \in Sessions /\ ser[electedSession] # None
    BY <1>0 DEF TailTypes, SerInv
  <2> QED
    BY <1>1, <1>2, <1>3, <1>4, <2>1 DEF electSession
<1>5. CASE electNext \/ tailedNext \/ tailedAll \/ tailedOne \/ TestFound
  BY <1>1, <1>2, <1>5 DEF electNext, tailedNext, tailedAll, tailedOne, TestFound
<1>6. CASE TestEnded
  <2>1. Name \in Sessions
    BY <1>0, <1>6, NameType DEF TestEnded, PlaceInv, At
  <2>2. KnownEnded(Name) => ser[Name] # None
    BY <1>0, <2>1 DEF SerInv, KnownEnded
  <2> QED
    BY <1>1, <1>2, <1>3, <1>6, <2>1, <2>2 DEF TestEnded
<1>7. CASE tailedSupplied
  <2>1. Name \in Sessions
    BY <1>0, <1>7, NameType DEF tailedSupplied
  <2>2. KnownEnded(Name) => ser[Name] # None
    BY <1>0, <2>1 DEF SerInv, KnownEnded
  <2> QED
    BY <1>1, <1>2, <1>3, <1>7, <2>1, <2>2 DEF tailedSupplied
<1> QED
  BY <1>4, <1>5, <1>6, <1>7

\* The steps that clear.
LEMMA ClearMoves ==
  ASSUME TailInv, clearSession \/ clearSessionsMap \/ ClearReturns
  PROVE  /\ UNCHANGED out /\ SinkTypes' /\ FilesGrow
         /\ \A s \in Sessions : Moves(s) /\ (view'[s] = view[s] \/ ~Known(s)')
<1>0. SinkTypes /\ TailTypes /\ PlaceInv /\ ViewInv /\ SerInv
  BY DEF TailInv
<1>1. ASSUME NEW s \in Sessions, UNCHANGED <<session, files, resync, resyncs, notices>>,
             ser' = ser \/ ser' = [ser EXCEPT ![s] = None],
             removed' = removed \/ removed' = [removed EXCEPT ![s] = Len(files[s])]
      PROVE  SinkTypes' /\ FilesGrow
  <2>1. \A r \in Sessions : files[r] \in Seq(Nat) /\ Len(files[r]) \in Nat /\ removed[r] \in Nat /\ removed[r] <= Len(files[r])
    BY <1>0 DEF SinkTypes
  <2>2. \A r \in Sessions : \A run \in 1 .. Len(files[r]) : files[r][run] \in Nat
    BY <2>1
  <2>3. removed' \in [Sessions -> Nat] /\ \A r \in Sessions : removed[r] <= removed'[r] /\ removed'[r] <= Len(files[r])
    <3>1. removed \in [Sessions -> Nat]
      BY <1>0 DEF SinkTypes
    <3>2. CASE removed' = removed
      BY <2>1, <3>1, <3>2
    <3>3. CASE removed' = [removed EXCEPT ![s] = Len(files[s])]
      BY <2>1, <3>1, <3>3
    <3> QED
      BY <1>1, <3>2, <3>3
  <2>4. ser' \in [Sessions -> Serialized \cup {None}] /\ \A r \in Sessions : ser'[r] # None => ser[r] # None
    BY <1>0, <1>1 DEF SinkTypes
  <2>5. FilesGrow
    BY <1>1, <2>1, <2>2, <2>3 DEF FilesGrow
  <2>6. SinkTypes'
    BY <1>0, <1>1, <2>1, <2>3, <2>4 DEF SinkTypes
  <2> QED
    BY <2>5, <2>6
<1>2. CASE clearSession
  <2>1. PICK s \in Sessions : removed' = [removed EXCEPT ![s] = Len(files[s])]
    BY <1>0, <1>2 DEF clearSession, Emptied, TailTypes
  <2>2. UNCHANGED <<session, ser, files, resync, resyncs, notices, view, out>>
    BY <1>2 DEF clearSession, output
  <2> QED
    BY <1>1, <2>1, <2>2, SameView
<1>3. CASE clearSessionsMap
  <2>1. target \in Sessions /\ UNCHANGED <<session, files, resync, resyncs, notices, out>> /\ ser' = [ser EXCEPT ![target] = None]
    BY <1>0, <1>3 DEF clearSessionsMap, PlaceInv, output
  <2>2. CASE UNCHANGED <<view, removed>>
    BY <1>1, <2>1, <2>2, SameView
  <2>3. CASE clear(target)
    <3>1. view'[target] = None /\ \A r \in Sessions \ {target} : view'[r] = view[r]
      BY <1>0, <2>1, <2>3 DEF clear, TailTypes
    <3>2. removed' = removed \/ removed' = [removed EXCEPT ![target] = Len(files[target])]
      BY <2>3 DEF clear, Emptied
    <3>3. Known(target) => removed'[target] = Len(files[target])
      BY <1>0, <2>1, <2>3 DEF clear, Emptied, SinkTypes
    <3>4. ASSUME NEW r \in Sessions, r = target
          PROVE  Moves(r) /\ ~Known(r)'
      BY <2>1, <3>1, <3>3, <3>4 DEF Moves, Known
    <3> QED
      BY <1>1, <2>1, <3>1, <3>2, <3>4, SameView
  <2> QED
    BY <1>3, <2>2, <2>3 DEF clearSessionsMap
<1>4. CASE ClearReturns
  <2>1. UNCHANGED <<sink, view, out>>
    BY <1>4 DEF ClearReturns, output
  <2>2. SinkTypes' /\ FilesGrow
    BY <1>0, <2>1, SameFiles DEF SinkTypes, sink, disk, SinkGrows
  <2> QED
    BY <2>1, <2>2, SameView
<1> QED
  BY <1>2, <1>3, <1>4

\* The copy moves the cursor of its session only.
LEMMA CopyMoves ==
  ASSUME TailInv, CopyChunk
  PROVE  /\ UNCHANGED disk
         /\ \A s \in Sessions : (Known(s) <=> Known(s)') /\ Ends(s) /\ (s # target => view'[s] = view[s])
         /\ ~view[target].open => UNCHANGED <<view, out>>
         /\ view[target].open =>
              /\ view[target].file \in 1 .. Len(files[target])
              /\ files[target][view[target].file] \in Nat
              /\ view'[target].file = view[target].file /\ view'[target].cursor = files[target][view[target].file]
              /\ view'[target].open = view[target].open
<1>0. SinkTypes /\ TailTypes /\ PlaceInv /\ ViewInv /\ SerInv
  BY DEF TailInv
<1>1. target \in Sessions /\ Known(target) /\ view[target] \in View /\ files[target] \in Seq(Nat) /\ UNCHANGED disk
  BY <1>0, CopyEffect DEF PlaceInv, TailTypes, SinkTypes, Known, sink
<1>2. CASE view[target].open
  <2> DEFINE size == files[target][view[target].file]
             v == [view[target] EXCEPT !.cursor = size]
  <2>1. view[target].file \in 1 .. Len(files[target])
    BY <1>0, <1>1, <1>2 DEF ViewInv, View
  <2>2. size \in Nat
    BY <1>1, <2>1
  <2>3. view' = [view EXCEPT ![target] = v]
    BY <1>2, CopyEffect
  <2>4. v \in View /\ v.file = view[target].file /\ v.cursor = size /\ v.open = view[target].open /\ v.ended = view[target].ended
    <3> HIDE DEF size
    <3> QED
      BY <1>1, <2>2 DEF View
  <2> HIDE DEF v
  <2>5. view'[target] = v /\ \A s \in Sessions \ {target} : view'[s] = view[s]
    BY <1>0, <1>1, <2>3 DEF TailTypes
  <2>6. v # None /\ view[target] # None
    BY <1>1, <2>4, NoneAssumption
  <2>7. ASSUME NEW s \in Sessions
        PROVE  (Known(s) <=> Known(s)') /\ Ends(s) /\ (s # target => view'[s] = view[s])
    <3>1. CASE s = target
      BY <2>4, <2>5, <2>6, <3>1 DEF Known, Ends
    <3>2. CASE s # target
      BY <2>5, <3>2, SameView DEF Known
    <3> QED
      BY <3>1, <3>2
  <2> QED
    BY <1>1, <1>2, <2>1, <2>2, <2>4, <2>5, <2>7
<1>3. CASE ~view[target].open
  BY <1>1, <1>3, CopyEffect, SameView DEF output, Known
<1> QED
  BY <1>2, <1>3

-----------------------------------------------------------------------------
(* The sessions of the tailer keep to the tmp files that there are.        *)

\* Whatever the step, if each session makes one of the moves.
LEMMA ViewKept ==
  ASSUME SinkTypes, SinkTypes', FilesGrow, TailTypes, TailTypes', ViewInv, \A s \in Sessions : Moves(s)
  PROVE  ViewInv'
<1> SUFFICES ASSUME NEW s \in Sessions, view'[s] # None
             PROVE  /\ view'[s].file <= Len(files'[s])
                    /\ view'[s].file = 0 => ~view'[s].open /\ removed'[s] > 0
                    /\ view'[s].file > 0 => view'[s].cursor <= files'[s][view'[s].file]
  BY DEF ViewInv, Known
<1>1. /\ view'[s].file \in Nat /\ view'[s].cursor \in Nat
      /\ files[s] \in Seq(Nat) /\ files'[s] \in Seq(Nat) /\ removed[s] \in Nat /\ removed'[s] \in Nat
      /\ Len(files[s]) <= Len(files'[s]) /\ removed[s] <= removed'[s] /\ removed'[s] <= Len(files'[s])
  BY DEF SinkTypes, TailTypes, View, FilesGrow
<1>2. \A run \in 1 .. Len(files'[s]) : files'[s][run] \in Nat
  BY <1>1
<1>3. \A run \in 1 .. Len(files[s]) : files[s][run] \in Nat /\ files[s][run] <= files'[s][run]
  <2>1. \A run \in 1 .. Len(files[s]) : files[s][run] <= files'[s][run]
    BY DEF FilesGrow
  <2>2. \A run \in 1 .. Len(files[s]) : files[s][run] \in Nat
    <3>1. files[s] \in Seq(Nat)
      BY <1>1
    <3> QED
      BY <3>1, ElementOfSeq
  <2> QED
    BY <2>1, <2>2
<1>4. CASE /\ Known(s)
           /\ view'[s].file = view[s].file /\ view'[s].cursor = view[s].cursor
           /\ view'[s].open => view[s].open
  <2>1. /\ view[s].file <= Len(files[s])
        /\ view[s].file = 0 => ~view[s].open /\ removed[s] > 0
        /\ view[s].file > 0 => view[s].cursor <= files[s][view[s].file]
    BY <1>4 DEF ViewInv
  <2>2. view'[s].file <= Len(files'[s]) /\ (view'[s].file = 0 => ~view'[s].open /\ removed'[s] > 0)
    BY <1>1, <1>4, <2>1
  <2>3. ASSUME view'[s].file > 0
        PROVE  view'[s].cursor <= files'[s][view'[s].file]
    <3> DEFINE run == view'[s].file
    <3>1. run \in 1 .. Len(files[s]) /\ run \in 1 .. Len(files'[s]) /\ view'[s].cursor <= files[s][run]
      BY <1>1, <1>4, <2>1, <2>3
    <3>2. files[s][run] \in Nat /\ files'[s][run] \in Nat /\ files[s][run] <= files'[s][run]
      BY <1>2, <1>3, <3>1
    <3>4. view'[s].cursor \in Nat /\ view'[s].cursor <= files[s][run]
      BY <1>1, <3>1
    <3>3. view'[s].cursor <= files'[s][run]
      <4> \A i, j, k \in Nat : i <= j /\ j <= k => i <= k
        OBVIOUS
      <4> HIDE DEF run
      <4> QED
        BY <3>2, <3>4
    <3> HIDE DEF run
    <3> QED
      BY <3>3 DEF run
  <2> QED
    BY <2>2, <2>3
<1>5. CASE /\ view'[s].cursor = 0
           /\ \/ view'[s].file = 0 /\ ~view'[s].open /\ removed'[s] > 0
              \/ view'[s].file = removed'[s] + 1 /\ removed'[s] < Len(files'[s])
  BY <1>1, <1>2, <1>5
<1>6. CASE Known(s) /\ hasNextSessionTmp(s) /\ view'[s].file = view[s].file + 1 /\ view'[s].cursor = 0
  <2>1. view[s].file \in Nat /\ view[s].file < Len(files[s])
    BY <1>6 DEF hasNextSessionTmp, TailTypes, Known, View
  <2>2. view'[s].file \in 1 .. Len(files'[s])
    BY <1>1, <1>6, <2>1
  <2>3. files'[s][view'[s].file] \in Nat
    BY <1>2, <2>2
  <2>4. view'[s].cursor <= files'[s][view'[s].file]
    BY <1>6, <2>3
  <2> QED
    BY <2>2, <2>4
<1> QED
  BY <1>4, <1>5, <1>6 DEF Moves, Known

\* The copy ends at the end of the file.
LEMMA ViewCopy ==
  ASSUME TailInv, CopyChunk
  PROVE  ViewInv'
<1>0. ViewInv /\ target \in Sessions
  BY CopyEffect DEF TailInv, PlaceInv
<1>1. UNCHANGED disk
  BY CopyMoves
<1>2. ASSUME NEW s \in Sessions, view'[s] # None
      PROVE  /\ view'[s].file <= Len(files[s])
             /\ view'[s].file = 0 => ~view'[s].open /\ removed[s] > 0
             /\ view'[s].file > 0 => view'[s].cursor <= files[s][view'[s].file]
  <2>1. Known(s)
    BY <1>2, CopyMoves DEF Known
  <2>2. CASE view'[s] = view[s]
    BY <1>0, <2>1, <2>2 DEF ViewInv
  <2>3. CASE s = target /\ view[target].open
    BY <2>3, CopyMoves
  <2> QED
    BY <2>2, <2>3, CopyMoves
<1> QED
  BY <1>1, <1>2 DEF ViewInv, Known, disk

-----------------------------------------------------------------------------
(* What is read from a .ser file has one.                                  *)

\* Whatever the step, if it lists no session and elects only what has its file.
LEMMA SerKept ==
  ASSUME TailInv, \A s \in Sessions : ser[s] # None => ser'[s] # None,
         \A s \in Sessions : Ends(s) /\ (Known(s) => Known(s)'),
         UNCHANGED sessionsByPriority,
         electedSession' \in {electedSession, None} \/ (electedSession' \in Sessions /\ Known(electedSession') /\ ser[electedSession'] # None),
         "TailBlocking" \notin Calls => blockingSessionsQueue' = <<>>,
         pc' # "cleared",
         pc' = "scan" => \A s \in toScan' : ser[s] # None
  PROVE  SerInv'
<1>0. SerInv /\ TailTypes
  BY DEF TailInv
<1>1. ASSUME NEW s \in Sessions
      PROVE  /\ Listed(s)' => Known(s)' /\ ser'[s] # None
             /\ electedSession' = s => Known(s)' /\ ser'[s] # None
             /\ Known(s)' /\ view'[s].ended => ser'[s] # None
             /\ pc' = "scan" /\ s \in toScan' => ser'[s] # None
             /\ Known(s)' /\ Clearing \cap Calls = {} => ser'[s] # None
  <2>1. ser[s] # None => ser'[s] # None
    OBVIOUS
  <2>2. Listed(s)' => Listed(s)
    BY DEF Listed
  <2>3. electedSession' = s => electedSession = s \/ (Known(s) /\ ser[s] # None)
    BY NoneAssumption
  <2>4. Ends(s) /\ (Known(s) => Known(s)')
    OBVIOUS
  <2> QED
    BY <1>0, <2>1, <2>2, <2>3, <2>4 DEF SerInv, Ends
<1>2. \A k \in Priorities : IsInjective(sessionsByPriority'[k])
  BY <1>0 DEF SerInv
<1> QED
  BY <1>1, <1>2 DEF SerInv, Listed, Known

\* The scan lists a session once, when it is not known.
LEMMA SerScan ==
  ASSUME TailInv, scanSessions
  PROVE  SerInv'
<1>0. SinkTypes /\ TailTypes /\ PlaceInv /\ ViewInv /\ SerInv
  BY DEF TailInv
<1>1. UNCHANGED <<ser, disk, electedSession, blockingSessionsQueue, ret>> /\ ret \in {"tailOnce", "pick", "tailNext", "test", "found"} /\ pc = "scan"
  BY <1>0 DEF scanSessions, sink, disk, PlaceInv
<1>2. \A s \in Sessions : Ends(s) /\ (Known(s) => Known(s)')
  BY TailMoves
<1>3. CASE UNCHANGED <<view, sessionsByPriority, toScan>> /\ pc' = ret
  BY <1>0, <1>1, <1>2, <1>3, SerKept DEF SerInv
<1>4. ASSUME NEW s \in toScan, toScan' = toScan \ {s}, pc' = pc, view' = [view EXCEPT ![s] = Scanned(s)],
             sessionsByPriority' = IF Known(s) THEN sessionsByPriority
                                   ELSE [sessionsByPriority EXCEPT ![Priority[s]] = Append(sessionsByPriority[Priority[s]], s)]
      PROVE  SerInv'
  <2>1. s \in Sessions /\ ser[s] # None /\ \A r \in toScan : ser[r] # None
    BY <1>0, <1>1, <1>4 DEF SerInv, TailTypes
  <2>2. Known(s)'
    BY <1>0, <1>1, <1>4, <2>1, ScannedView
  <2>3. CASE Known(s)
    BY <1>0, <1>1, <1>2, <1>4, <2>1, <2>3, SerKept DEF SerInv
  <2>4. CASE ~Known(s)
    <3> DEFINE list == sessionsByPriority[Priority[s]]
    <3>1. Priority[s] \in Priorities /\ list \in Seq(Sessions) /\ IsInjective(list)
      BY <1>0, <2>1 DEF Priorities, TailTypes, SerInv
    <3>2. s \notin Range(list)
      BY <1>0, <2>1, <2>4 DEF SerInv, Listed
    <3>3. sessionsByPriority' = [sessionsByPriority EXCEPT ![Priority[s]] = Append(list, s)]
      BY <1>4, <2>4
    <3>4. IsInjective(Append(list, s)) /\ Range(Append(list, s)) = Range(list) \cup {s}
      BY <2>1, <3>1, <3>2, AppendFacts
    <3>5. \A k \in Priorities : /\ sessionsByPriority'[k] = IF k = Priority[s] THEN Append(list, s) ELSE sessionsByPriority[k]
                                /\ IsInjective(sessionsByPriority'[k])
      BY <1>0, <3>3, <3>4 DEF TailTypes, SerInv
    <3> HIDE DEF list
    <3>6. ASSUME NEW r \in Sessions
          PROVE  /\ Listed(r)' => Known(r)' /\ ser'[r] # None
                 /\ electedSession' = r => Known(r)' /\ ser'[r] # None
                 /\ Known(r)' /\ view'[r].ended => ser'[r] # None
                 /\ pc' = "scan" /\ r \in toScan' => ser'[r] # None
                 /\ Known(r)' /\ Clearing \cap Calls = {} => ser'[r] # None
      <4>1. Priority[r] \in Priorities
        BY DEF Priorities
      <4>2. Listed(r)' => Listed(r) \/ r = s
        BY <3>4, <3>5, <4>1 DEF Listed, list
      <4>3. Ends(r) /\ (Known(r) => Known(r)')
        BY <1>2
      <4> QED
        BY <1>0, <1>1, <1>4, <2>1, <2>2, <4>2, <4>3 DEF SerInv, Ends
    <3> QED
      BY <1>0, <1>1, <1>4, <3>5, <3>6 DEF SerInv, Listed, Known
  <2> QED
    BY <2>3, <2>4
<1> QED
  BY <1>3, <1>4 DEF scanSessions, Goto

\* A call elects nothing.
LEMMA SerCall ==
  ASSUME TailInv, NEW op \in Calls, NEW names \in Names(op), Call(op, names)
  PROVE  SerInv'
<1>0. SerInv
  BY DEF TailInv
<1>1. UNCHANGED <<ser, view, sessionsByPriority, electedSession>>
  BY DEF Call, sink, disk
<1>2. pc' \notin {"cleared", "scan"}
  BY DEF Call, Goto
<1>3. "TailBlocking" \notin Calls => blockingSessionsQueue' = <<>>
  BY <1>0 DEF Call, SerInv
<1> QED
  BY <1>1, <1>2, <1>3, SameView, SerKept

\* The steps that scan, and those that tail a session.
LEMMA SerTail ==
  ASSUME TailInv, Timeout \/ Loop \/ tailOnce \/ tailSession \/ CopyChunk \/ updateNextSessionTmp
  PROVE  SerInv'
<1>0. SinkTypes /\ TailTypes /\ PlaceInv /\ ViewInv /\ SerInv
  BY DEF TailInv
<1>1. UNCHANGED <<ser, elected>>
  BY DEF Timeout, Loop, tailOnce, tailSession, CopyChunk, updateNextSessionTmp, sink, disk
<1>2. \A s \in Sessions : Ends(s) /\ (Known(s) => Known(s)')
  BY TailMoves, CopyMoves
<1>3. pc' # "cleared" /\ (pc' = "scan" => toScan' = {s \in Sessions : ser[s] # None})
  <2>1. CASE Timeout
    BY <2>1 DEF Timeout, Return
  <2>2. CASE Loop
    <3>0. call.op \in {"TailOnlyBlocking", "TailSuppliedBlocking", "TailBlocking", "TailAllBlocking"}
      BY <1>0, <2>2, CallsAssumption DEF Loop, PlaceInv, Calling, Methods, Clearing
    <3>1. CASE call.op \in {"TailOnlyBlocking", "TailSuppliedBlocking"}
      BY <2>2, <3>1 DEF Loop, Scan, Goto
    <3>2. CASE call.op = "TailBlocking"
      BY <2>2, <3>2 DEF Loop, Goto
    <3>3. CASE call.op = "TailAllBlocking"
      BY <2>2, <3>3 DEF Loop, Scan, Goto
    <3> QED
      BY <3>0, <3>1, <3>2, <3>3
  <2>3. CASE tailOnce
    BY <2>3 DEF tailOnce, Goto
  <2>4. CASE tailSession
    BY <2>4 DEF tailSession, Goto
  <2>5. CASE CopyChunk
    BY <2>5, CopyEffect DEF Return
  <2>6. CASE updateNextSessionTmp
    BY <2>6 DEF updateNextSessionTmp, Goto
  <2> QED
    BY <2>1, <2>2, <2>3, <2>4, <2>5, <2>6
<1> QED
  BY <1>0, <1>1, <1>2, <1>3, SerKept DEF elected, SerInv

\* The steps that elect, and those that end a round.
LEMMA SerEnd ==
  ASSUME TailInv, electSession \/ electNext \/ tailedNext \/ tailedAll \/ tailedOne \/ TestEnded \/ TestFound \/ tailedSupplied
  PROVE  SerInv'
<1>0. SinkTypes /\ TailTypes /\ PlaceInv /\ ViewInv /\ SerInv
  BY DEF TailInv
<1>1. UNCHANGED <<ser, sessionsByPriority>>
  BY DEF electSession, electNext, tailedNext, tailedAll, tailedOne, TestEnded, TestFound, tailedSupplied, sink, disk, elected
<1>2. \A s \in Sessions : Ends(s) /\ (Known(s) => Known(s)')
  BY EndMoves
<1>3. pc' # "cleared" /\ (pc' = "scan" => toScan' = {s \in Sessions : ser[s] # None})
  <2>1. CASE electSession
    BY <2>1 DEF electSession, Scan, Goto
  <2>2. CASE electNext
    BY <2>2 DEF electNext, Elect, Goto
  <2>3. CASE tailedNext \/ tailedAll
    BY <2>3 DEF tailedNext, tailedAll, Return, Goto
  <2>4. CASE tailedOne
    BY <2>4 DEF tailedOne, Scan, Goto
  <2>5. CASE TestEnded \/ TestFound
    BY <2>5 DEF TestEnded, TestFound, Return, Goto
  <2>6. CASE tailedSupplied
    BY <2>6 DEF tailedSupplied, Return, Goto
  <2> QED
    BY <2>1, <2>2, <2>3, <2>4, <2>5, <2>6
<1>4. /\ electedSession' \in {electedSession, None} \/ (electedSession' \in Sessions /\ Known(electedSession') /\ ser[electedSession'] # None)
      /\ "TailBlocking" \notin Calls => blockingSessionsQueue' = <<>>
  <2>1. CASE UNCHANGED elected
    BY <1>0, <2>1 DEF elected, SerInv
  <2>2. CASE electSession \/ tailedAll \/ tailedOne \/ TestEnded \/ TestFound \/ tailedSupplied
    BY <2>1, <2>2 DEF electSession, tailedAll, tailedOne, TestEnded, TestFound, tailedSupplied
  <2>3. CASE tailedNext
    BY <1>0, <2>3 DEF tailedNext, SerInv
  <2>4. CASE electNext
    <3>1. ASSUME NEW first \in DOMAIN blockingSessionsQueue, Known(blockingSessionsQueue[first]), Elect(blockingSessionsQueue[first])
          PROVE  /\ electedSession' \in Sessions /\ Known(electedSession') /\ ser[electedSession'] # None
                 /\ "TailBlocking" \in Calls
      <4>1. blockingSessionsQueue \in Seq(Sessions) /\ first \in 1 .. Len(blockingSessionsQueue)
        BY <1>0, <3>1 DEF TailTypes
      <4>2. blockingSessionsQueue[first] \in Sessions /\ blockingSessionsQueue # <<>>
        BY <4>1
      <4>3. "TailBlocking" \in Calls
        BY <1>0, <4>2 DEF SerInv
      <4>4. Clearing \cap Calls = {}
        BY <4>3, ClearsAssumption DEF Clearing
      <4>5. ser[blockingSessionsQueue[first]] # None
        BY <1>0, <3>1, <4>2, <4>4 DEF SerInv
      <4> QED
        BY <3>1, <4>2, <4>3, <4>5 DEF Elect
    <3>2. ASSUME NEW s \in Sessions, Foremost(s), Elect(s)
          PROVE  electedSession' \in Sessions /\ Known(electedSession') /\ ser[electedSession'] # None
      BY <1>0, <3>2 DEF Foremost, Eligible, SerInv, Elect
    <3> QED
      BY <2>4, <3>1, <3>2 DEF electNext
  <2> QED
    BY <2>2, <2>3, <2>4
<1> QED
  BY <1>1, <1>2, <1>3, <1>4, SerKept

\* The steps that clear.
LEMMA SerClear ==
  ASSUME TailInv, clearSession \/ clearSessionsMap \/ ClearReturns
  PROVE  SerInv'
<1>0. SinkTypes /\ TailTypes /\ PlaceInv /\ ViewInv /\ SerInv
  BY DEF TailInv
<1>1. Clearing \cap Calls # {}
  <2>1. pc \in {"clear", "cleared"}
    BY DEF clearSession, clearSessionsMap, ClearReturns
  <2>2. call \in Calling /\ call.op \in Clearing
    BY <1>0, <2>1 DEF PlaceInv
  <2> QED
    BY <2>2 DEF Calling
<1>2. CASE clearSession
  <2>1. PICK s \in Sessions :
          /\ sessionsByPriority' = [sessionsByPriority EXCEPT ![Priority[s]] = Delete(sessionsByPriority[Priority[s]], s)]
          /\ electedSession' = IF electedSession = s THEN None ELSE electedSession
          /\ target' = s
    BY <1>0, <1>2 DEF clearSession, TailTypes
  <2>2. UNCHANGED <<ser, view, blockingSessionsQueue>> /\ pc' = "cleared"
    BY <1>2 DEF clearSession, Goto
  <2> DEFINE list == sessionsByPriority[Priority[s]]
  <2>3. Priority[s] \in Priorities /\ list \in Seq(Sessions) /\ IsInjective(list)
    BY <1>0 DEF Priorities, TailTypes, SerInv
  <2>4. IsInjective(Delete(list, s)) /\ Range(Delete(list, s)) \subseteq Range(list) \ {s}
    BY <2>3, DeleteFacts
  <2>5. \A k \in Priorities : /\ sessionsByPriority'[k] = IF k = Priority[s] THEN Delete(list, s) ELSE sessionsByPriority[k]
                              /\ IsInjective(sessionsByPriority'[k])
    BY <1>0, <2>1, <2>4 DEF TailTypes, SerInv
  <2> HIDE DEF list
  <2>6. \A r \in Sessions : Listed(r)' => Listed(r) /\ r # s
    <3> SUFFICES ASSUME NEW r \in Sessions, Listed(r)'
                 PROVE  Listed(r) /\ r # s
      OBVIOUS
    <3>1. Priority[r] \in Priorities
      BY DEF Priorities
    <3> QED
      BY <2>4, <2>5, <3>1 DEF Listed, list
  <2>7. electedSession' # s /\ \A r \in Sessions : electedSession' = r => electedSession = r
    BY <2>1, NoneAssumption
  <2>8. ~Listed(target)' /\ electedSession' # target'
    BY <2>1, <2>6, <2>7 DEF Listed
  <2>9. ASSUME NEW r \in Sessions
        PROVE  /\ Listed(r)' => Known(r)' /\ ser'[r] # None
               /\ electedSession' = r => Known(r)' /\ ser'[r] # None
               /\ Known(r)' /\ view'[r].ended => ser'[r] # None
    BY <1>0, <2>2, <2>6, <2>7 DEF SerInv, Known
  <2> QED
    BY <1>0, <1>1, <2>2, <2>5, <2>8, <2>9 DEF SerInv
<1>3. CASE clearSessionsMap
  <2>1. target \in Sessions /\ ~Listed(target) /\ electedSession # target
    BY <1>0, <1>3 DEF clearSessionsMap, PlaceInv, SerInv
  <2>2. UNCHANGED <<sessionsByPriority, electedSession, blockingSessionsQueue>> /\ pc' \in {"idle", "clear"}
        /\ ser' = [ser EXCEPT ![target] = None]
    BY <1>3 DEF clearSessionsMap, elected, Goto, Return
  <2>3. \A r \in Sessions \ {target} : ser'[r] = ser[r]
    BY <1>0, <2>1, <2>2 DEF SinkTypes
  <2>4. \A r \in Sessions \ {target} : view'[r] = view[r]
    BY <1>0, <1>3, <2>1 DEF clearSessionsMap, clear, TailTypes
  <2>5. view'[target] = None \/ ~view'[target].ended
    BY <1>0, <1>3, <2>1 DEF clearSessionsMap, clear, TailTypes
  <2>6. ASSUME NEW r \in Sessions
        PROVE  /\ Listed(r)' => Known(r)' /\ ser'[r] # None
               /\ electedSession' = r => Known(r)' /\ ser'[r] # None
               /\ Known(r)' /\ view'[r].ended => ser'[r] # None
    <3>1. Listed(r)' => Listed(r)
      BY <2>2 DEF Listed
    <3>2. CASE r = target
      BY <2>1, <2>2, <2>5, <3>1, <3>2 DEF Known
    <3>3. CASE r # target
      BY <1>0, <2>2, <2>3, <2>4, <3>1, <3>3 DEF SerInv, Known
    <3> QED
      BY <3>2, <3>3
  <2> QED
    BY <1>0, <1>1, <2>2, <2>6 DEF SerInv
<1>4. CASE ClearReturns
  <2>1. UNCHANGED <<ser, view, elected>> /\ pc' = "idle"
    BY <1>4 DEF ClearReturns, Return, sink, disk
  <2> QED
    BY <1>0, <2>1, SameView, SerKept DEF elected, SerInv
<1> QED
  BY <1>2, <1>3, <1>4

-----------------------------------------------------------------------------
(* Every variable of the tailer keeps its type.                            *)

\* Initially no session is known.
LEMMA TailInit ==
  ASSUME Init
  PROVE  TailInv
<1>1. SinkTypes
  BY NoneAssumption DEF Init, SinkTypes
<1>2. TailTypes
  <2>1. <<>> \in Seq(Sessions)
    OBVIOUS
  <2>2. <<>> \in Seq(Chunk)
    OBVIOUS
  <2>3. <<>> \in Seq(Sessions \cup {None})
    OBVIOUS
  <2>4. hasNextBefore \in BOOLEAN /\ notEnded \in BOOLEAN /\ tailed \in BOOLEAN
    BY Zenon DEF Init
  <2> QED
    BY <2>1, <2>2, <2>3, <2>4 DEF Init, TailTypes, Labels
<1>3. PlaceInv /\ ViewInv
  BY DEF Init, PlaceInv, ViewInv, At, Known
<1>4. SerInv
  <2>1. \A s \in Sessions : ~Listed(s)
    BY DEF Init, Listed, Range, Priorities
  <2>2. \A k \in Priorities : IsInjective(sessionsByPriority[k])
    BY DEF Init, IsInjective
  <2> QED
    BY <2>1, <2>2, NoneAssumption DEF Init, SerInv, Known
<1> QED
  BY <1>1, <1>2, <1>3, <1>4 DEF TailInv

\* Every step keeps the invariant.
LEMMA TailStep ==
  ASSUME TailInv, [Next]_vars
  PROVE  TailInv' /\ FilesGrow
<1>0. SinkTypes /\ TailTypes /\ PlaceInv /\ ViewInv /\ SerInv
  BY DEF TailInv
<1>1. ASSUME UNCHANGED disk
      PROVE  FilesGrow
  BY <1>0, <1>1, SameFiles DEF SinkGrows
<1>2. ASSUME UNCHANGED sink
      PROVE  SinkTypes'
  BY <1>0, <1>2 DEF SinkTypes, sink, disk
<1>3. CASE Sink
  <2>1. SinkTypes' /\ SinkGrows
    BY <1>0, <1>3, SinkStep
  <2>2. UNCHANGED <<view, elected, output, control, pc, locals>>
    BY <1>3 DEF Sink
  <2>3. TailTypes'
    BY <1>0, <2>2 DEF TailTypes, elected, output, control, locals
  <2>4. PlaceInv'
    BY <1>0, <2>2 DEF PlaceInv, At, Known, control, locals
  <2>5. ViewInv'
    BY <1>0, <2>1, <2>2, <2>3, ViewKept, SameView DEF SinkGrows
  <2>6. \A s \in Sessions : ser[s] # None => ser'[s] # None
    BY <2>1 DEF SinkGrows
  <2>7. SerInv'
    BY <1>0, <2>2, <2>6 DEF SerInv, Listed, Known, elected, locals
  <2> QED
    BY <2>1, <2>3, <2>4, <2>5, <2>7 DEF TailInv, SinkGrows
<1>4. ASSUME NEW op \in Calls, NEW names \in Names(op), Call(op, names)
      PROVE  TailInv' /\ FilesGrow
  <2>1. UNCHANGED <<sink, view>>
    BY <1>4 DEF Call
  <2>2. UNCHANGED disk
    BY <2>1 DEF sink
  <2>3. TailTypes' /\ PlaceInv' /\ SerInv'
    BY <1>4, CallTypes, PlaceCall, SerCall
  <2> QED
    BY <1>0, <1>1, <1>2, <2>1, <2>2, <2>3, ViewKept, SameView DEF TailInv
<1>5. CASE Timeout \/ Loop \/ scanSessions \/ tailOnce \/ tailSession \/ updateNextSessionTmp
  <2>1. UNCHANGED sink
    BY <1>5 DEF Timeout, Loop, scanSessions, tailOnce, tailSession, updateNextSessionTmp
  <2>2. UNCHANGED disk
    BY <2>1 DEF sink
  <2>3. TailTypes' /\ PlaceInv' /\ SerInv'
    BY <1>5, CallStepsTypes, PlaceSteps, SerScan, SerTail DEF Work
  <2>4. \A s \in Sessions : Moves(s)
    BY <1>5, TailMoves
  <2> QED
    BY <1>0, <1>1, <1>2, <2>1, <2>2, <2>3, <2>4, ViewKept DEF TailInv
<1>6. CASE CopyChunk
  <2>1. UNCHANGED <<sink, disk>>
    BY <1>6, CopyEffect DEF sink
  <2>2. TailTypes' /\ PlaceInv' /\ SerInv' /\ ViewInv'
    BY <1>6, CallStepsTypes, PlaceSteps, SerTail, ViewCopy DEF Work
  <2> QED
    BY <1>0, <1>1, <1>2, <2>1, <2>2 DEF TailInv
<1>7. CASE electSession \/ electNext \/ tailedNext \/ tailedAll \/ tailedOne \/ TestEnded \/ TestFound \/ tailedSupplied
  <2>1. UNCHANGED sink
    BY <1>7 DEF electSession, electNext, tailedNext, tailedAll, tailedOne, TestEnded, TestFound, tailedSupplied
  <2>2. UNCHANGED disk
    BY <2>1 DEF sink
  <2>3. TailTypes' /\ PlaceInv' /\ SerInv'
    BY <1>7, ElectTypes, EndStepsTypes, PlaceSteps, SerEnd DEF Work
  <2>4. \A s \in Sessions : Moves(s)
    BY <1>7, EndMoves
  <2> QED
    BY <1>0, <1>1, <1>2, <2>1, <2>2, <2>3, <2>4, ViewKept DEF TailInv
<1>8. CASE clearSession \/ clearSessionsMap \/ ClearReturns
  <2>1. SinkTypes' /\ FilesGrow /\ \A s \in Sessions : Moves(s)
    BY <1>8, ClearMoves
  <2>2. TailTypes' /\ PlaceInv' /\ SerInv'
    BY <1>8, ClearStepsTypes, PlaceSteps, SerClear DEF Work
  <2> QED
    BY <1>0, <2>1, <2>2, ViewKept DEF TailInv
<1>9. CASE UNCHANGED vars
  <2>1. UNCHANGED <<sink, disk, view, elected, output, control, pc, locals>>
    BY <1>9 DEF vars, sink
  <2>2. TailTypes' /\ PlaceInv'
    BY <1>0, <2>1 DEF TailTypes, PlaceInv, At, Known, elected, output, control, locals
  <2>3. SerInv'
    BY <1>0, <2>1 DEF SerInv, Listed, Known, elected, locals, disk
  <2> QED
    BY <1>0, <1>1, <1>2, <2>1, <2>2, <2>3, ViewKept, SameView DEF TailInv
<1> QED
  BY <1>3, <1>4, <1>5, <1>6, <1>7, <1>8, <1>9 DEF Next, Work, Quiet

\* The invariant has the types.
LEMMA TailTypeOK ==
  ASSUME TailInv
  PROVE  TypeOK
<1>1. SinkTypes /\ TailTypes /\ ViewInv
  BY DEF TailInv
<1>2. \A s \in Sessions : removed[s] \in 0 .. Len(files[s])
  BY <1>1 DEF SinkTypes
<1>3. \A s \in Sessions : Known(s) =>
       /\ view[s].file \in 0 .. Len(files[s])
       /\ view[s].file = 0 => ~view[s].open /\ removed[s] > 0
  <2> SUFFICES ASSUME NEW s \in Sessions, Known(s)
               PROVE  view[s].file \in 0 .. Len(files[s]) /\ (view[s].file = 0 => ~view[s].open /\ removed[s] > 0)
    OBVIOUS
  <2>1. view[s].file \in Nat /\ view[s].file <= Len(files[s]) /\ Len(files[s]) \in Nat
    BY <1>1 DEF TailTypes, SinkTypes, ViewInv, View, Known
  <2> QED
    BY <1>1, <2>1 DEF ViewInv
<1>4. call = None \/ call \in [op : Methods, names : Seq(Sessions)]
  BY <1>1, CallsAssumption DEF TailTypes, Calling
<1> QED
  BY <1>1, <1>2, <1>3, <1>4 DEF SinkTypes, TailTypes, TypeOK, Results

\* The invariant of the tailer and its sink.
LEMMA Tailing == Spec => []TailInv
<1>1. Init => TailInv
  BY TailInit
<1>2. TailInv /\ [Next]_vars => TailInv'
  BY TailStep
<1> QED
  BY <1>1, <1>2, PTL DEF Spec

\* Every variable has its type: the tmp file and the cursor that the tailer
\* has of a session exist, whatever the sink does, and so does every .ser file
\* that it reads.
THEOREM TailTypeCorrect == Spec => []TypeOK
<1>1. TailInv => TypeOK
  BY TailTypeOK
<1> QED
  BY <1>1, Tailing, PTL

-----------------------------------------------------------------------------
(* The chunks of a session over one restart of its sink.                   *)

Has(seq, s, run, n) == \E i \in 1 .. Len(seq) : seq[i] = [session |-> s, run |-> run, number |-> n]

\* What is output is in a tmp file, up to where the tailer is in its session.
BehindInv ==
  \A i \in 1 .. Len(out) : \A s \in Sessions : out[i].session = s =>
    /\ out[i].run \in 1 .. Len(files[s])
    /\ out[i].number \in 1 .. files[s][out[i].run]
    /\ IF Known(s) /\ view[s].file > 0
       THEN out[i].run < view[s].file \/ (out[i].run = view[s].file /\ out[i].number <= view[s].cursor)
       ELSE out[i].run <= removed[s]

\* What is before that, in tmp files that are not removed, is output.
CopiedInv ==
  \A s \in Sessions : Known(s) /\ view[s].file > 0 =>
    /\ \A n \in 1 .. view[s].cursor : Has(out, s, view[s].file, n)
    /\ \A run \in removed[s] + 1 .. view[s].file - 1 : \A n \in 1 .. files[s][run] : Has(out, s, run, n)

\* A file that is going to be left has a next one, and is copied to its end.
FrozenInv ==
  /\ \A s \in Sessions : Len(files[s]) <= MaxRuns
  /\ pc \in {"copy", "next"} /\ hasNextBefore => Len(files[target]) >= 2
  /\ pc = "next" /\ hasNextBefore /\ view[target].file \in 1 .. Len(files[target]) - 1 =>
       view[target].cursor = files[target][view[target].file]

OrderInv == TailInv /\ BehindInv /\ CopiedInv /\ FrozenInv /\ TailedInOrder

HasBefore(seq, j, s, run, n) == \E i \in 1 .. j - 1 : seq[i] = [session |-> s, run |-> run, number |-> n]

\* The output j is in order.
InOrder(j) ==
  /\ \A n \in 1 .. out[j].number - 1 : HasBefore(out, j, out[j].session, out[j].run, n)
  /\ \A run \in removed[out[j].session] + 1 .. out[j].run - 1 :
       \A n \in 1 .. files[out[j].session][run] : HasBefore(out, j, out[j].session, run, n)
  /\ ~HasBefore(out, j, out[j].session, out[j].run, out[j].number)

\* TailedInOrder is about each output.
LEMMA InOrderAll ==
  ASSUME out \in Seq(Chunk)
  PROVE  TailedInOrder <=> \A j \in 1 .. Len(out) : InOrder(j)
BY SMTT(30) DEF TailedInOrder, InOrder, HasBefore

\* The numbers of the files and of the outputs.
LEMMA Numbers ==
  ASSUME TailInv, TailInv', FilesGrow, NEW s \in Sessions
  PROVE  /\ Len(files[s]) \in Nat /\ Len(files'[s]) \in Nat /\ Len(files[s]) <= Len(files'[s])
         /\ removed[s] \in Nat /\ removed'[s] \in Nat /\ removed[s] <= removed'[s] /\ removed'[s] <= Len(files'[s])
         /\ Known(s) => view[s].file \in Nat /\ view[s].cursor \in Nat
         /\ Known(s)' => view'[s].file \in Nat /\ view'[s].cursor \in Nat
         /\ \A run \in 1 .. Len(files[s]) : files[s][run] \in Nat /\ files'[s][run] \in Nat /\ files[s][run] <= files'[s][run]
         /\ \A run \in 1 .. Len(files[s]) - 1 : files[s][run] = files'[s][run]
<1>1. files[s] \in Seq(Nat) /\ files'[s] \in Seq(Nat)
  BY DEF TailInv, SinkTypes
<1>2. Len(files[s]) \in Nat /\ Len(files'[s]) \in Nat /\ Len(files[s]) <= Len(files'[s])
  BY <1>1 DEF FilesGrow
<1>3. removed[s] \in Nat /\ removed'[s] \in Nat /\ removed[s] <= removed'[s] /\ removed'[s] <= Len(files'[s])
  BY DEF TailInv, SinkTypes, FilesGrow
<1>4. (Known(s) => view[s].file \in Nat /\ view[s].cursor \in Nat) /\ (Known(s)' => view'[s].file \in Nat /\ view'[s].cursor \in Nat)
  BY DEF TailInv, TailTypes, View, Known
<1>5. ASSUME NEW run \in 1 .. Len(files[s])
      PROVE  /\ files[s][run] \in Nat /\ files'[s][run] \in Nat /\ files[s][run] <= files'[s][run]
             /\ run \in 1 .. Len(files[s]) - 1 => files[s][run] = files'[s][run]
  <2>1. run \in 1 .. Len(files'[s])
    BY <1>2
  <2>2. files[s][run] \in Nat /\ files'[s][run] \in Nat
    BY <1>1, <2>1
  <2> QED
    BY <2>2 DEF FilesGrow
<1>6. \A run \in 1 .. Len(files[s]) - 1 : run \in 1 .. Len(files[s])
  BY <1>2
<1> QED
  BY <1>2, <1>3, <1>4, <1>5, <1>6

\* An output is a chunk of a session.
LEMMA ChunkType ==
  ASSUME TailInv, NEW i \in 1 .. Len(out)
  PROVE  out[i] \in Chunk /\ out[i].session \in Sessions /\ out[i].run \in Nat /\ out[i].number \in Nat
<1>1. out \in Seq(Chunk)
  BY DEF TailInv, TailTypes
<1>2. out[i] \in Chunk
  BY <1>1
<1> QED
  BY <1>2 DEF Chunk

\* The tailer leaves a file that it has output to its end.
LEMMA Left ==
  ASSUME OrderInv, NEW s \in Sessions, Known(s), pc = "next", s = target, hasNextBefore, hasNextSessionTmp(s)
  PROVE  view[s].file \in 1 .. Len(files[s]) - 1 /\ view[s].cursor = files[s][view[s].file]
<1>1. removed[s] \in Nat /\ Len(files[s]) \in Nat /\ view[s].file \in Nat
  BY DEF OrderInv, TailInv, SinkTypes, TailTypes, View, Known
<1>2. view[s].file \in 1 .. Len(files[s]) - 1
  BY <1>1 DEF hasNextSessionTmp
<1> QED
  BY <1>2 DEF OrderInv, FrozenInv

\* A step that outputs nothing.
LEMMA BehindKept ==
  ASSUME OrderInv, TailInv', FilesGrow, UNCHANGED out, \A s \in Sessions : Moves(s)
  PROVE  BehindInv'
<1> SUFFICES ASSUME NEW i \in 1 .. Len(out), NEW s \in Sessions, out[i].session = s
             PROVE  /\ out[i].run \in 1 .. Len(files'[s])
                    /\ out[i].number \in 1 .. files'[s][out[i].run]
                    /\ IF view'[s] # None /\ view'[s].file > 0
                       THEN out[i].run < view'[s].file \/ (out[i].run = view'[s].file /\ out[i].number <= view'[s].cursor)
                       ELSE out[i].run <= removed'[s]
  BY DEF BehindInv, Known
<1> DEFINE run == out[i].run
           number == out[i].number
<1>1. run \in Nat /\ number \in Nat
  BY ChunkType DEF OrderInv
<1>2. /\ run \in 1 .. Len(files[s]) /\ number \in 1 .. files[s][run]
      /\ IF Known(s) /\ view[s].file > 0
         THEN run < view[s].file \/ (run = view[s].file /\ number <= view[s].cursor)
         ELSE run <= removed[s]
  BY DEF OrderInv, BehindInv
<1> HIDE DEF run, number
<1>3. /\ Len(files[s]) \in Nat /\ Len(files'[s]) \in Nat /\ Len(files[s]) <= Len(files'[s])
      /\ removed[s] \in Nat /\ removed'[s] \in Nat /\ removed[s] <= removed'[s] /\ removed'[s] <= Len(files'[s])
      /\ Known(s) => view[s].file \in Nat /\ view[s].cursor \in Nat
      /\ Known(s)' => view'[s].file \in Nat /\ view'[s].cursor \in Nat
      /\ files[s][run] \in Nat /\ files'[s][run] \in Nat /\ files[s][run] <= files'[s][run]
  <2>1. TailInv
    BY DEF OrderInv
  <2> QED
    BY <1>2, <2>1, Numbers, Zenon
<1>4. run \in 1 .. Len(files'[s]) /\ number \in 1 .. files'[s][run]
  BY <1>2, <1>3
<1>5. IF Known(s)' /\ view'[s].file > 0
      THEN run < view'[s].file \/ (run = view'[s].file /\ number <= view'[s].cursor)
      ELSE run <= removed'[s]
  <2>1. CASE Known(s) /\ Known(s)' /\ view'[s].file = view[s].file /\ view'[s].cursor = view[s].cursor
    BY <1>1, <1>2, <1>3, <2>1
  <2>2. CASE ~Known(s)' /\ ~Known(s)
    BY <1>1, <1>2, <1>3, <2>2
  <2>3. CASE ~Known(s)' /\ removed'[s] = Len(files'[s])
    BY <1>1, <1>2, <1>3, <2>3
  <2>4. CASE /\ ~Known(s) /\ Known(s)'
             /\ view'[s].file = 0 \/ view'[s].file = removed'[s] + 1
    BY <1>1, <1>2, <1>3, <2>4, SMTT(30)
  <2>5. CASE /\ Known(s) /\ Known(s)' /\ hasNextSessionTmp(s)
             /\ view'[s].file = view[s].file + 1
    <3>1. view[s].file > 0
      BY <1>3, <2>5 DEF hasNextSessionTmp
    <3> QED
      BY <1>1, <1>2, <1>3, <2>5, <3>1
  <2> QED
    BY <2>1, <2>2, <2>3, <2>4, <2>5 DEF Moves
<1> QED
  BY <1>4, <1>5 DEF run, number, Known

\* What is behind stays output, and a file that is left is behind.
LEMMA CopiedKept ==
  ASSUME OrderInv, TailInv', FilesGrow, UNCHANGED out, \A s \in Sessions : Moves(s)
  PROVE  CopiedInv'
<1> SUFFICES ASSUME NEW s \in Sessions, Known(s)', view'[s].file > 0
             PROVE  /\ \A n \in 1 .. view'[s].cursor : Has(out, s, view'[s].file, n)
                    /\ \A run \in removed'[s] + 1 .. view'[s].file - 1 : \A n \in 1 .. files'[s][run] : Has(out, s, run, n)
  BY DEF CopiedInv
<1>1. /\ Len(files[s]) \in Nat /\ Len(files'[s]) \in Nat /\ Len(files[s]) <= Len(files'[s])
      /\ removed[s] \in Nat /\ removed'[s] \in Nat /\ removed[s] <= removed'[s] /\ removed'[s] <= Len(files'[s])
      /\ Known(s) => view[s].file \in Nat /\ view[s].cursor \in Nat
      /\ view'[s].file \in Nat /\ view'[s].cursor \in Nat
      /\ \A run \in 1 .. Len(files[s]) - 1 : files[s][run] = files'[s][run]
  BY Numbers DEF OrderInv
<1>2. ASSUME Known(s)
      PROVE  /\ view[s].file <= Len(files[s])
             /\ view[s].file > 0 =>
                  /\ \A n \in 1 .. view[s].cursor : Has(out, s, view[s].file, n)
                  /\ \A run \in removed[s] + 1 .. view[s].file - 1 : \A n \in 1 .. files[s][run] : Has(out, s, run, n)
  BY <1>2 DEF OrderInv, CopiedInv, TailInv, ViewInv
<1>3. CASE Known(s) /\ view'[s].file = view[s].file /\ view'[s].cursor = view[s].cursor
  <2>1. \A run \in removed'[s] + 1 .. view'[s].file - 1 :
          run \in removed[s] + 1 .. view[s].file - 1 /\ files[s][run] = files'[s][run]
    <3> SUFFICES ASSUME NEW run \in removed'[s] + 1 .. view'[s].file - 1
                 PROVE  run \in removed[s] + 1 .. view[s].file - 1 /\ files[s][run] = files'[s][run]
      OBVIOUS
    <3>1. view[s].file <= Len(files[s])
      BY <1>2, <1>3
    <3>2. run \in removed[s] + 1 .. view[s].file - 1 /\ run \in 1 .. Len(files[s]) - 1
      BY <1>1, <1>3, <3>1
    <3> QED
      BY <1>1, <3>2
  <2> QED
    BY <1>2, <1>3, <2>1
<1>4. CASE view'[s].cursor = 0 /\ view'[s].file = removed'[s] + 1
  BY <1>1, <1>4
<1>5. CASE /\ Known(s) /\ pc = "next" /\ s = target /\ hasNextBefore /\ hasNextSessionTmp(s)
           /\ view'[s].file = view[s].file + 1 /\ view'[s].cursor = 0
  <2>1. view[s].file \in 1 .. Len(files[s]) - 1 /\ view[s].cursor = files[s][view[s].file]
    BY <1>5, Left
  <2>2. ASSUME NEW run \in removed'[s] + 1 .. view'[s].file - 1
        PROVE  \A n \in 1 .. files'[s][run] : Has(out, s, run, n)
    <3> DEFINE file == view[s].file
    <3>1. file \in Nat /\ file \in 1 .. Len(files[s]) - 1 /\ view'[s].file = file + 1
      BY <1>1, <1>5, <2>1
    <3>2. /\ \A n \in 1 .. files[s][file] : Has(out, s, file, n)
          /\ \A k \in removed[s] + 1 .. file - 1 : \A n \in 1 .. files[s][k] : Has(out, s, k, n)
      BY <1>1, <1>2, <1>5, <2>1
    <3> HIDE DEF file
    <3>3. run \in 1 .. Len(files[s]) - 1 /\ (run = file \/ run \in removed[s] + 1 .. file - 1)
      BY <1>1, <3>1
    <3>4. files[s][run] = files'[s][run]
      BY <1>1, <3>3
    <3> QED
      BY <3>2, <3>3, <3>4
  <2>3. \A run \in removed'[s] + 1 .. view'[s].file - 1 : \A n \in 1 .. files'[s][run] : Has(out, s, run, n)
    BY <2>2
  <2> QED
    BY <1>5, <2>3
<1> QED
  BY <1>3, <1>4, <1>5 DEF Moves

\* Files that are output before others do not change.
LEMMA InOrderKept ==
  ASSUME OrderInv, TailInv', FilesGrow, UNCHANGED out
  PROVE  TailedInOrder'
<1>1. out \in Seq(Chunk)
  BY DEF OrderInv, TailInv, TailTypes
<1>2. ASSUME NEW j \in 1 .. Len(out)
      PROVE  InOrder(j)'
  <2> DEFINE s == out[j].session
             run == out[j].run
  <2>1. s \in Sessions /\ run \in Nat
    BY ChunkType DEF OrderInv
  <2>2. InOrder(j)
    BY <1>1, InOrderAll DEF OrderInv
  <2>3. run \in 1 .. Len(files[s])
    BY <2>1 DEF OrderInv, BehindInv
  <2>4. \A r \in removed'[s] + 1 .. run - 1 : r \in removed[s] + 1 .. run - 1 /\ files[s][r] = files'[s][r]
    <3>1. /\ Len(files[s]) \in Nat /\ removed[s] \in Nat /\ removed'[s] \in Nat /\ removed[s] <= removed'[s]
          /\ \A r \in 1 .. Len(files[s]) - 1 : files[s][r] = files'[s][r]
      BY <2>1, Numbers DEF OrderInv
    <3> HIDE DEF s, run
    <3> QED
      BY <2>1, <2>3, <3>1
  <2> QED
    BY <2>2, <2>4 DEF InOrder, HasBefore
<1> QED
  BY <1>1, <1>2 DEF TailedInOrder, InOrder, HasBefore

\* What is in a sequence that is added to another one.
LEMMA ConcatFacts ==
  ASSUME NEW S, NEW seq \in Seq(S), NEW new \in Seq(S)
  PROVE  /\ Len(seq \o new) = Len(seq) + Len(new)
         /\ \A i \in 1 .. Len(seq) : (seq \o new)[i] = seq[i]
         /\ \A n \in 1 .. Len(new) : (seq \o new)[Len(seq) + n] = new[n]
<1>1. Len(seq) \in Nat /\ Len(new) \in Nat
  OBVIOUS
<1>2. \A n \in 1 .. Len(new) : Len(seq) + n \in 1 .. Len(seq) + Len(new) /\ ~(Len(seq) + n <= Len(seq)) /\ Len(seq) + n - Len(seq) = n
  BY <1>1
<1>3. \A i \in 1 .. Len(seq) : i \in 1 .. Len(seq) + Len(new)
  BY <1>1
<1> QED
  BY <1>1, <1>2, <1>3, ConcatProperties

\* What the copy outputs.
LEMMA CopyOut ==
  ASSUME TailInv, CopyChunk, view[target].open
  PROVE  LET s == target  run == view[target].file  cursor == view[target].cursor  size == files[s][run] IN
         /\ cursor <= size /\ Len(out') = Len(out) + (size - cursor)
         /\ \A i \in 1 .. Len(out) : out'[i] = out[i]
         /\ \A n \in 1 .. size - cursor : out'[Len(out) + n] = [session |-> s, run |-> run, number |-> cursor + n]
<1> DEFINE s == target
           run == view[target].file
           cursor == view[target].cursor
           size == files[s][run]
           new == Chunks(s, run, cursor + 1, size)
<1>0. SinkTypes /\ TailTypes /\ PlaceInv /\ ViewInv
  BY DEF TailInv
<1>1. s \in Sessions /\ Known(s) /\ run \in 1 .. Len(files[s]) /\ size \in Nat
  BY <1>0, CopyMoves, CopyEffect DEF PlaceInv
<1>2. run \in Nat /\ cursor \in Nat /\ cursor <= size
  BY <1>0, <1>1 DEF TailTypes, Known, View, ViewInv
<1>3. out' = out \o new /\ out \in Seq(Chunk)
  BY <1>0, CopyEffect DEF TailTypes
<1> HIDE DEF s, run, cursor, size
<1>4. /\ new \in Seq(Chunk) /\ Len(new) = size - cursor
      /\ \A n \in 1 .. size - cursor : new[n] = [session |-> s, run |-> run, number |-> cursor + n]
  BY <1>1, <1>2, ChunksFacts
<1> HIDE DEF new
<1>5. /\ Len(out') = Len(out) + Len(new)
      /\ \A i \in 1 .. Len(out) : out'[i] = out[i]
      /\ \A n \in 1 .. Len(new) : out'[Len(out) + n] = new[n]
  <2>0. out \in Seq(Chunk) /\ new \in Seq(Chunk)
    BY <1>3, <1>4
  <2>1. /\ Len(out \o new) = Len(out) + Len(new)
        /\ \A i \in 1 .. Len(out) : (out \o new)[i] = out[i]
        /\ \A n \in 1 .. Len(new) : (out \o new)[Len(out) + n] = new[n]
    <3> HIDE <1>3, <1>4
    <3> QED
      BY ONLY <2>0, ConcatFacts
  <2> QED
    BY <1>3, <2>1, Zenon
<1>6. \A n \in 1 .. size - cursor : out'[Len(out) + n] = [session |-> s, run |-> run, number |-> cursor + n]
  BY <1>4, <1>5
<1> QED
  BY <1>2, <1>4, <1>5, <1>6 DEF s, run, cursor, size


\* The copy goes on from the cursor to the end of the file.
LEMMA OrderCopy ==
  ASSUME OrderInv, TailInv', CopyChunk, view[target].open
  PROVE  BehindInv' /\ CopiedInv' /\ TailedInOrder'
<1>0. TailInv /\ BehindInv /\ CopiedInv /\ TailedInOrder /\ UNCHANGED disk /\ FilesGrow
  BY CopyMoves, SameFiles DEF OrderInv, TailInv, SinkGrows
<1>a. PICK t, file, cursor, size : t = target /\ file = view[t].file /\ cursor = view[t].cursor /\ size = files[t][file]
  OBVIOUS
<1> DEFINE k == size - cursor
<1>1. t \in Sessions /\ Known(t) /\ file \in 1 .. Len(files[t]) /\ size \in Nat /\ cursor \in Nat
  BY <1>0, <1>a, CopyMoves, CopyEffect DEF TailInv, TailTypes, PlaceInv, Known, View
<1>2. /\ \A s \in Sessions : (Known(s) <=> Known(s)') /\ (s # t => view'[s] = view[s])
      /\ view'[t].file = file /\ view'[t].cursor = size
  BY <1>0, <1>a, CopyMoves
<1>3. /\ cursor <= size /\ Len(out') = Len(out) + k
      /\ \A i \in 1 .. Len(out) : out'[i] = out[i]
      /\ \A n \in 1 .. k : out'[Len(out) + n] = [session |-> t, run |-> file, number |-> cursor + n]
  BY <1>0, <1>a, CopyOut
<1>4. k \in Nat /\ k + cursor = size
  BY <1>1, <1>3
<1>5. Len(out) \in Nat /\ out \in Seq(Chunk) /\ out' \in Seq(Chunk)
  BY <1>0 DEF TailInv, TailTypes
<1> HIDE DEF k
<1>6. \A i \in 1 .. Len(out') : i \in 1 .. Len(out) \/ \E n \in 1 .. k : i = Len(out) + n
  <2> SUFFICES ASSUME NEW i \in 1 .. Len(out'), i \notin 1 .. Len(out)
               PROVE  \E n \in 1 .. k : i = Len(out) + n
    OBVIOUS
  <2>1. i - Len(out) \in 1 .. k /\ i = Len(out) + (i - Len(out))
    BY <1>3, <1>4, <1>5
  <2> QED
    BY <2>1
<1>7. \A s \in Sessions : /\ Len(files[s]) \in Nat /\ removed[s] \in Nat
                          /\ Known(s) => view[s].file \in Nat /\ view[s].cursor \in Nat
  BY <1>0, Numbers
<1>8. BehindInv'
  <2> SUFFICES ASSUME NEW i \in 1 .. Len(out'), NEW s \in Sessions, out'[i].session = s
               PROVE  /\ out'[i].run \in 1 .. Len(files[s])
                      /\ out'[i].number \in 1 .. files[s][out'[i].run]
                      /\ IF view'[s] # None /\ view'[s].file > 0
                         THEN out'[i].run < view'[s].file \/ (out'[i].run = view'[s].file /\ out'[i].number <= view'[s].cursor)
                         ELSE out'[i].run <= removed[s]
    BY <1>0 DEF BehindInv, Known, disk
  <2>1. CASE i \in 1 .. Len(out)
    <3>1. /\ out[i].run \in 1 .. Len(files[s])
          /\ out[i].number \in 1 .. files[s][out[i].run]
          /\ IF Known(s) /\ view[s].file > 0
             THEN out[i].run < view[s].file \/ (out[i].run = view[s].file /\ out[i].number <= view[s].cursor)
             ELSE out[i].run <= removed[s]
      BY <1>0, <1>3, <2>1 DEF BehindInv
    <3>2. CASE s # t
      BY <1>2, <1>3, <2>1, <3>1, <3>2 DEF Known
    <3>3. CASE s = t
      <4>1. out[i].number \in Nat
        BY <1>0, <2>1, ChunkType
      <4>2. out[i].run < file \/ (out[i].run = file /\ out[i].number <= cursor)
        BY <1>a, <1>1, <3>1, <3>3
      <4>3. out[i].run < file \/ (out[i].run = file /\ out[i].number <= size)
        BY <1>1, <1>3, <4>1, <4>2
      <4>4. view'[s] # None /\ view'[s].file > 0
        BY <1>1, <1>2, <3>3 DEF Known
      <4> QED
        BY <1>2, <1>3, <2>1, <3>1, <3>3, <4>3, <4>4
    <3> QED
      BY <3>2, <3>3
  <2>2. ASSUME NEW n \in 1 .. k, i = Len(out) + n
        PROVE  s = t /\ out'[i].run = file /\ out'[i].number = cursor + n /\ cursor + n \in 1 .. size
    <3>1. out'[i] = [session |-> t, run |-> file, number |-> cursor + n]
      BY <1>3, <2>2
    <3>2. cursor + n \in 1 .. size
      BY <1>1, <1>3, <1>4, <2>2
    <3> QED
      BY <3>1, <3>2
  <2>3. ASSUME NEW n \in 1 .. k, i = Len(out) + n
        PROVE  /\ view'[s] # None /\ view'[s].file > 0
               /\ out'[i].run \in 1 .. Len(files[s]) /\ out'[i].number \in 1 .. files[s][out'[i].run]
               /\ out'[i].run = view'[s].file /\ out'[i].number <= view'[s].cursor
    <3>1. s = t /\ out'[i].run = file /\ out'[i].number \in 1 .. size
      BY <2>2, <2>3
    <3>2. view'[t] # None
      BY <1>1, <1>2 DEF Known
    <3> QED
      BY <1>a, <1>1, <1>2, <3>1, <3>2
  <2> QED
    BY <1>6, <2>1, <2>3
<1>9. \A n \in 1 .. size : \E i \in 1 .. Len(out') : out'[i] = [session |-> t, run |-> file, number |-> n]
  <2> SUFFICES ASSUME NEW n \in 1 .. size
               PROVE  \E i \in 1 .. Len(out') : out'[i] = [session |-> t, run |-> file, number |-> n]
    OBVIOUS
  <2>1. CASE n <= cursor
    <3>1. PICK i \in 1 .. Len(out) : out[i] = [session |-> t, run |-> file, number |-> n]
      BY <1>0, <1>a, <1>1, <2>1 DEF CopiedInv, Has
    <3>2. i \in 1 .. Len(out') /\ out'[i] = out[i]
      BY <1>3, <1>4, <1>5
    <3> QED
      BY <3>1, <3>2
  <2>2. CASE n > cursor
    <3>1. n - cursor \in 1 .. k /\ cursor + (n - cursor) = n /\ Len(out) + (n - cursor) \in 1 .. Len(out')
      BY <1>1, <1>3, <1>4, <1>5, <2>2
    <3>2. out'[Len(out) + (n - cursor)] = [session |-> t, run |-> file, number |-> n]
      BY <1>3, <3>1
    <3> QED
      BY <3>1, <3>2
  <2> QED
    BY <1>1, <2>1, <2>2
<1>10. \A s, run, n : Has(out, s, run, n) => Has(out', s, run, n)
  <2>1. \A i \in 1 .. Len(out) : i \in 1 .. Len(out') /\ out'[i] = out[i]
    BY <1>3, <1>4, <1>5
  <2> QED
    BY <2>1 DEF Has
<1>11. CopiedInv'
  <2> SUFFICES ASSUME NEW s \in Sessions, Known(s)', view'[s].file > 0
               PROVE  /\ \A n \in 1 .. view'[s].cursor : Has(out', s, view'[s].file, n)
                      /\ \A run \in removed[s] + 1 .. view'[s].file - 1 : \A n \in 1 .. files[s][run] : Has(out', s, run, n)
    BY <1>0 DEF CopiedInv, Has, disk
  <2>1. view'[s].file = view[s].file /\ Known(s)
    BY <1>a, <1>2
  <2>2. /\ \A n \in 1 .. view[s].cursor : Has(out, s, view[s].file, n)
        /\ \A run \in removed[s] + 1 .. view[s].file - 1 : \A n \in 1 .. files[s][run] : Has(out, s, run, n)
    BY <1>0, <2>1 DEF CopiedInv
  <2>3. \A run \in removed[s] + 1 .. view'[s].file - 1 : \A n \in 1 .. files[s][run] : Has(out', s, run, n)
    BY <1>10, <2>1, <2>2
  <2>4. CASE s # t
    BY <1>2, <1>10, <2>2, <2>3, <2>4
  <2>5. CASE s = t
    BY <1>2, <1>9, <2>3, <2>5 DEF Has
  <2> QED
    BY <2>4, <2>5
<1>12. TailedInOrder'
  <2>1. ASSUME NEW j \in 1 .. Len(out)
        PROVE  InOrder(j)'
    <3>1. InOrder(j)
      BY <1>0, <1>5, InOrderAll
    <3>2. out'[j] = out[j] /\ \A i \in 1 .. j - 1 : out'[i] = out[i]
      BY <1>3, <1>5
    <3>3. \A s, run, n : HasBefore(out', j, s, run, n) <=> HasBefore(out, j, s, run, n)
      BY <3>2 DEF HasBefore
    <3> QED
      BY <1>0, <3>1, <3>2, <3>3 DEF InOrder, disk
  <2>2. ASSUME NEW m \in 1 .. k, NEW j \in 1 .. Len(out'), j = Len(out) + m
        PROVE  InOrder(j)'
    <3>0. out'[j] = [session |-> t, run |-> file, number |-> cursor + m] /\ m \in Nat
      BY <1>3, <2>2
    <3>1. \A n \in 1 .. (cursor + m) - 1 : HasBefore(out', j, t, file, n)
      <4> SUFFICES ASSUME NEW n \in 1 .. (cursor + m) - 1
                   PROVE  \E i \in 1 .. j - 1 : out'[i] = [session |-> t, run |-> file, number |-> n]
        BY DEF HasBefore
      <4>1. CASE n <= cursor
        <5>1. PICK i \in 1 .. Len(out) : out[i] = [session |-> t, run |-> file, number |-> n]
          BY <1>0, <1>a, <1>1, <4>1, SMTT(30) DEF CopiedInv, Has
        <5>2. i \in 1 .. j - 1 /\ out'[i] = out[i]
          BY <1>3, <1>5, <2>2
        <5> QED
          BY <5>1, <5>2
      <4>2. CASE n > cursor
        <5>1. n - cursor \in 1 .. k /\ cursor + (n - cursor) = n /\ Len(out) + (n - cursor) \in 1 .. j - 1
          BY <1>1, <1>4, <1>5, <2>2, <4>2
        <5> QED
          BY <1>3, <5>1
      <4> QED
        BY <1>1, <4>1, <4>2
    <3>2. \A run \in removed[t] + 1 .. file - 1 : \A n \in 1 .. files[t][run] : HasBefore(out', j, t, run, n)
      <4> SUFFICES ASSUME NEW run \in removed[t] + 1 .. file - 1, NEW n \in 1 .. files[t][run]
                   PROVE  \E i \in 1 .. j - 1 : out'[i] = [session |-> t, run |-> run, number |-> n]
        BY DEF HasBefore
      <4>1. Has(out, t, run, n)
        BY <1>0, <1>a, <1>1 DEF CopiedInv
      <4>2. PICK i \in 1 .. Len(out) : out[i] = [session |-> t, run |-> run, number |-> n]
        BY <4>1 DEF Has
      <4>3. i \in 1 .. j - 1 /\ out'[i] = out[i]
        BY <1>3, <1>5, <2>2
      <4> QED
        BY <4>2, <4>3
    <3>3. ~HasBefore(out', j, t, file, cursor + m)
      <4> SUFFICES ASSUME NEW i \in 1 .. j - 1, out'[i] = [session |-> t, run |-> file, number |-> cursor + m]
                   PROVE  FALSE
        BY DEF HasBefore
      <4>1. i \in 1 .. Len(out')
        BY <1>5
      <4>2. CASE i \in 1 .. Len(out)
        <5>1. out[i].session = t /\ out[i].run = file /\ out[i].number = cursor + m
          BY <1>3, <4>2
        <5>2. out[i].number <= cursor
          <6>1. out[i].run < file \/ (out[i].run = file /\ out[i].number <= cursor)
            <7>1. /\ Known(t) /\ view[t].file = file /\ view[t].cursor = cursor /\ file > 0
                  /\ t \in Sessions /\ out[i].session = t
              BY <1>a, <1>1, <5>1
            <7>2. IF Known(t) /\ view[t].file > 0
                  THEN out[i].run < view[t].file \/ (out[i].run = view[t].file /\ out[i].number <= view[t].cursor)
                  ELSE out[i].run <= removed[t]
              BY <1>0, <4>2, <7>1 DEF BehindInv
            <7> QED
              BY <7>1, <7>2
          <6> QED
            BY <1>1, <5>1, <6>1
        <5> QED
          BY <1>1, <5>1, <5>2
      <4>3. ASSUME NEW n \in 1 .. k, i = Len(out) + n
            PROVE  FALSE
        <5>1. out'[i] = [session |-> t, run |-> file, number |-> cursor + n]
          BY <1>3, <4>3
        <5>2. cursor + n = cursor + m
          BY <5>1
        <5> QED
          BY <1>1, <1>5, <2>2, <4>3, <5>2
      <4> QED
        BY <1>6, <4>1, <4>2, <4>3
    <3> QED
      <4>1. out'[j].session = t /\ out'[j].run = file /\ out'[j].number = cursor + m
        BY <3>0
      <4>2. UNCHANGED <<files, removed>>
        BY <1>0 DEF disk
      <4> QED
        <5>1. \A n \in 1 .. out'[j].number - 1 : HasBefore(out', j, out'[j].session, out'[j].run, n)
          BY <3>1, <4>1, Zenon
        <5>2. \A run \in removed'[out'[j].session] + 1 .. out'[j].run - 1 :
                \A n \in 1 .. files'[out'[j].session][run] : HasBefore(out', j, out'[j].session, run, n)
          BY <3>2, <4>1, <4>2
        <5>3. ~HasBefore(out', j, out'[j].session, out'[j].run, out'[j].number)
          BY <3>3, <4>1
        <5> QED
          BY <5>1, <5>2, <5>3 DEF InOrder
  <2>3. \A j \in 1 .. Len(out') : InOrder(j)'
    BY <1>6, <2>1, <2>2
  <2>4. DOMAIN out' = 1 .. Len(out')
    BY <1>5
  <2> QED
    BY <2>3, <2>4 DEF TailedInOrder, InOrder, HasBefore
<1> QED
  BY <1>8, <1>11, <1>12

\* The tailer leaves a file only with another one behind it, which at most
\* two runs make the last.
LEMMA FrozenStep ==
  ASSUME MaxRuns <= 2, OrderInv, TailInv', [Next]_vars, FilesGrow
  PROVE  FrozenInv'
<1>0. TailInv /\ SinkTypes /\ TailTypes /\ PlaceInv /\ FrozenInv
  BY DEF OrderInv, TailInv
<1>1. \A s \in Sessions : /\ Len(files[s]) \in Nat /\ Len(files'[s]) \in Nat /\ Len(files[s]) <= Len(files'[s])
                          /\ removed[s] \in Nat
                          /\ Known(s) => view[s].file \in Nat
                          /\ \A run \in 1 .. Len(files[s]) - 1 : files[s][run] = files'[s][run]
  BY <1>0, Numbers
<1>2. \A s \in Sessions : Len(files'[s]) <= MaxRuns
  BY <1>0, <1>1 DEF FrozenInv, FilesGrow
<1>3. CASE pc' \notin {"copy", "next"}
  BY <1>2, <1>3 DEF FrozenInv
<1>4. CASE UNCHANGED <<pc, view, target, hasNextBefore>>
  <2> SUFFICES ASSUME pc \in {"copy", "next"}, hasNextBefore
               PROVE  /\ Len(files'[target]) >= 2
                      /\ pc = "next" /\ view[target].file \in 1 .. Len(files'[target]) - 1 =>
                           view[target].cursor = files'[target][view[target].file]
    BY <1>2, <1>4 DEF FrozenInv
  <2>1. target \in Sessions
    BY <1>0 DEF PlaceInv
  <2>2. Len(files[target]) >= 2
    BY <1>0 DEF FrozenInv
  <2>3. Len(files'[target]) = Len(files[target]) /\ Len(files'[target]) >= 2
    <3>1. Len(files'[target]) <= 2
      BY <1>1, <1>2, <2>1, BoundsAssumption
    <3> QED
      BY <1>1, <2>1, <2>2, <3>1
  <2>4. ASSUME pc = "next", view[target].file \in 1 .. Len(files'[target]) - 1
        PROVE  view[target].cursor = files'[target][view[target].file]
    <3>1. view[target].file \in 1 .. Len(files[target]) - 1
      BY <2>3, <2>4
    <3>2. view[target].cursor = files[target][view[target].file]
      BY <1>0, <2>4, <3>1 DEF FrozenInv
    <3> QED
      BY <1>1, <2>1, <3>1, <3>2
  <2> QED
    BY <2>3, <2>4
<1>5. CASE tailSession
  <2>1. CASE pc' = "copy"
    <3>1. hasNextBefore' = hasNextSessionTmp(target) /\ UNCHANGED <<target, files>>
      BY <1>5, <2>1 DEF tailSession, Goto, sink, disk
    <3>2. target \in Sessions /\ Known(target)
      BY <1>0, <1>5 DEF PlaceInv, tailSession
    <3>3. hasNextSessionTmp(target) => Len(files[target]) >= 2
      BY <1>1, <3>2 DEF hasNextSessionTmp
    <3> QED
      BY <1>2, <2>1, <3>1, <3>3 DEF FrozenInv
  <2>2. CASE pc' # "copy"
    BY <1>3, <1>5, <2>2 DEF tailSession, Goto
  <2> QED
    BY <2>1, <2>2
<1>6. CASE CopyChunk
  <2>1. UNCHANGED <<files, target, hasNextBefore>> /\ pc = "copy"
    BY <1>6, CopyEffect DEF sink, disk, locals
  <2>2. CASE view[target].open
    <3>1. pc' = "next" /\ view'[target].cursor = files[target][view[target].file] /\ view'[target].file = view[target].file
      BY <1>0, <1>6, <2>2, CopyMoves, CopyEffect
    <3>2. hasNextBefore => Len(files[target]) >= 2
      BY <1>0, <2>1 DEF FrozenInv
    <3> QED
      BY <1>2, <2>1, <3>1, <3>2 DEF FrozenInv
  <2>3. CASE ~view[target].open
    BY <1>3, <1>6, <2>3, CopyEffect DEF Return
  <2> QED
    BY <2>2, <2>3
<1>7. CASE updateNextSessionTmp
  <2>1. target \in Sessions /\ view[target] \in View /\ Known(target) /\ hasNextBefore \in BOOLEAN
    BY <1>0, <1>7 DEF updateNextSessionTmp, PlaceInv, TailTypes, Known
  <2>2. UNCHANGED <<files, target>> /\ ((pc' = "copy" /\ hasNextSessionTmp(target)) \/ pc' = "tailed")
    BY <1>0, <1>7, <2>1, UpdateEffect DEF TailTypes, sink, disk
  <2>3. hasNextSessionTmp(target) => Len(files[target]) >= 2
    BY <1>1, <2>1 DEF hasNextSessionTmp
  <2> QED
    BY <1>2, <1>3, <2>2, <2>3 DEF FrozenInv
<1>8. CASE Sink
  BY <1>4, <1>8 DEF Sink, locals
<1>9. ASSUME NEW op \in Calls, NEW names \in Names(op), Call(op, names)
      PROVE  FrozenInv'
  BY <1>3, <1>9 DEF Call, Goto
<1>10. CASE Timeout \/ tailedAll \/ ClearReturns \/ clearSession \/ clearSessionsMap
  BY <1>3, <1>10 DEF Timeout, tailedAll, ClearReturns, clearSession, clearSessionsMap, Return, Goto
<1>11. CASE scanSessions
  <2>1. pc' \in {"scan", "tailOnce", "pick", "tailNext", "test", "found"}
    BY <1>0, <1>11 DEF scanSessions, Goto, PlaceInv
  <2> QED
    BY <1>3, <2>1
<1>12. CASE Loop \/ tailOnce
  <2>1. CASE Loop
    <3>0. call.op \in {"TailOnlyBlocking", "TailSuppliedBlocking", "TailBlocking", "TailAllBlocking"}
      BY <1>0, <2>1, CallsAssumption DEF Loop, PlaceInv, Calling, Methods, Clearing
    <3>1. CASE call.op \in {"TailOnlyBlocking", "TailSuppliedBlocking"}
      BY <1>3, <2>1, <3>1 DEF Loop, Scan, Goto
    <3>2. CASE call.op = "TailBlocking"
      BY <1>3, <2>1, <3>2 DEF Loop, Goto
    <3>3. CASE call.op = "TailAllBlocking"
      BY <1>3, <2>1, <3>3 DEF Loop, Scan, Goto
    <3> QED
      BY <3>0, <3>1, <3>2, <3>3
  <2>2. CASE tailOnce
    BY <1>3, <2>2 DEF tailOnce, Goto
  <2> QED
    BY <1>12, <2>1, <2>2
<1>13. CASE electSession \/ electNext \/ tailedNext \/ tailedOne
  <2>1. CASE electSession
    BY <1>3, <2>1 DEF electSession, Scan, Goto
  <2>2. CASE electNext
    BY <1>3, <2>2 DEF electNext, Elect, Goto
  <2>3. CASE tailedNext
    BY <1>3, <2>3 DEF tailedNext, Goto
  <2>4. CASE tailedOne
    BY <1>3, <2>4 DEF tailedOne, Scan, Goto
  <2> QED
    BY <1>13, <2>1, <2>2, <2>3, <2>4
<1>14. CASE TestEnded \/ TestFound \/ tailedSupplied
  BY <1>3, <1>14 DEF TestEnded, TestFound, tailedSupplied, Return, Goto
<1>15. CASE UNCHANGED vars
  BY <1>4, <1>15 DEF vars, locals
<1> QED
  BY <1>5, <1>6, <1>7, <1>8, <1>9, <1>10, <1>11, <1>12, <1>13, <1>14, <1>15 DEF Next, Work, Quiet

\* Initially nothing is output.
LEMMA OrderInit ==
  ASSUME Init
  PROVE  OrderInv
<1>1. TailInv
  BY TailInit
<1>2. BehindInv /\ CopiedInv /\ TailedInOrder
  BY DEF Init, BehindInv, CopiedInv, TailedInOrder, Known
<1>3. FrozenInv
  BY BoundsAssumption DEF Init, FrozenInv
<1> QED
  BY <1>1, <1>2, <1>3 DEF OrderInv

\* Every step keeps the order, with one restart.
LEMMA OrderStep ==
  ASSUME MaxRuns <= 2, OrderInv, [Next]_vars
  PROVE  OrderInv'
<1>1. TailInv /\ TailInv' /\ FilesGrow
  BY TailStep DEF OrderInv
<1>2. FrozenInv'
  BY <1>1, FrozenStep
<1>3. ASSUME UNCHANGED out, \A s \in Sessions : Moves(s)
      PROVE  BehindInv' /\ CopiedInv' /\ TailedInOrder'
  BY <1>1, <1>3, BehindKept, CopiedKept, InOrderKept
<1>4. ASSUME UNCHANGED <<out, view>>
      PROVE  BehindInv' /\ CopiedInv' /\ TailedInOrder'
  BY <1>3, <1>4, SameView
<1>5. BehindInv' /\ CopiedInv' /\ TailedInOrder'
  <2>1. CASE Sink \/ Quiet \/ UNCHANGED vars
    BY <1>4, <2>1 DEF Sink, Quiet, vars, output
  <2>2. ASSUME NEW op \in Calls, NEW names \in Names(op), Call(op, names)
        PROVE  UNCHANGED <<out, view>>
    BY <2>2 DEF Call, tailNotifications, output
  <2>3. CASE Timeout \/ Loop \/ scanSessions \/ tailOnce \/ tailSession \/ updateNextSessionTmp
    BY <1>1, <1>3, <2>3, TailMoves
  <2>4. CASE CopyChunk
    <3>1. CASE view[target].open
      BY <1>1, <2>4, <3>1, OrderCopy
    <3>2. CASE ~view[target].open
      BY <1>1, <1>4, <2>4, <3>2, CopyMoves
    <3> QED
      BY <3>1, <3>2
  <2>5. CASE electSession \/ electNext \/ tailedNext \/ tailedAll \/ tailedOne \/ TestEnded \/ TestFound \/ tailedSupplied
    BY <1>1, <1>3, <2>5, EndMoves
  <2>6. CASE clearSession \/ clearSessionsMap \/ ClearReturns
    BY <1>1, <1>3, <2>6, ClearMoves
  <2> QED
    BY <1>4, <2>1, <2>2, <2>3, <2>4, <2>5, <2>6 DEF Next, Work
<1> QED
  BY <1>1, <1>2, <1>5 DEF OrderInv

\* Over one restart of the sink, whatever is called, cleared and resynced, the
\* chunks of a session are output once each, in the order they were written,
\* none of them skipped: the tailer leaves a tmp file only when nothing can be
\* added to it.
THEOREM OneRestartInOrder ==
  ASSUME MaxRuns <= 2
  PROVE  Spec => []TailedInOrder
<1>1. Init => OrderInv
  BY OrderInit
<1>2. OrderInv /\ [Next]_vars => OrderInv'
  BY OrderStep
<1>3. OrderInv => TailedInOrder
  BY DEF OrderInv
<1> QED
  BY <1>1, <1>2, <1>3, PTL DEF Spec
-----------------------------------------------------------------------------
(* A session is closed once nothing is left to tail in it, and one session *)
(* is tailed after the other.                                              *)

\* A session is closed if it has no tmp file, or once nothing is left to tail
\* in it; in its first tmp file it has been tailed before.
ClosedInv ==
  \A s \in Sessions : Known(s) =>
    LET v == view[s] IN
    /\ v.flushed => ~v.open
    /\ ~v.open => v.file = 0 \/ v.flushed
    /\ v.flushed /\ v.file <= 1 => v.tailed

\* The session that is tailed.
ReadInv ==
  /\ pc \in {"copy", "next"} /\ view[target].file <= 1 => view[target].tailed
  /\ pc = "next" => view[target].open

FlagInv == ClosedInv /\ ReadInv

\* The elected session is the one that is tailed, until it is ended and
\* nothing is left of it.
ElectedInv ==
  /\ pc \in {"tailSession", "copy", "next"} /\ call.op \in Elections => target = electedSession
  /\ At("pick") => electedSession = None
  /\ pc = "tailed" /\ call.op \in Elections /\ ElectedEnded => view[electedSession].flushed

\* Nothing is left of a session that is output, but of the elected one; that
\* one is tailed, unless it went through a restart.
OrderedInv ==
  \A i \in DOMAIN ordered : ordered[i] # None =>
    /\ Known(ordered[i])
    /\ \/ view[ordered[i]].flushed
       \/ ordered[i] = electedSession /\ (Len(files[ordered[i]]) <= 1 => view[ordered[i]].tailed)

TurnInv == ElectedInv /\ OrderedInv /\ SessionsNeverInterleave

\* What a step may do to the flags of a session: nothing; it is cleared, or
\* known; it is going to be tailed; it goes on to the next tmp file; or nothing
\* is left of it, as it is ended and has no next tmp file.
Flags(s) ==
  \/ ~Known(s)'
  \/ /\ Known(s) /\ Known(s)'
     /\ view'[s].file = view[s].file /\ view'[s].open = view[s].open
     /\ view'[s].tailed = view[s].tailed /\ view'[s].flushed = view[s].flushed
  \/ /\ ~Known(s) /\ Known(s)'
     /\ (view'[s].file = 0 \/ view'[s].open) /\ ~view'[s].flushed
  \/ /\ pc = "tailSession" /\ s = target /\ Known(s) /\ Known(s)'
     /\ view'[s].file = view[s].file /\ view'[s].open = view[s].open
     /\ view'[s].tailed /\ view'[s].flushed = view[s].flushed
  \/ /\ pc = "next" /\ s = target /\ Known(s) /\ Known(s)'
     /\ view'[s].file > 1 /\ view'[s].open /\ ~view'[s].flushed
  \/ /\ pc = "next" /\ s = target /\ Known(s) /\ Known(s)'
     /\ view'[s].file = view[s].file /\ view'[s].tailed = view[s].tailed
     /\ ~view'[s].open /\ view'[s].flushed

\* The flags of a session that is read from its .ser file.
LEMMA ScannedFlags ==
  ASSUME SinkTypes, TailTypes, ViewInv, NEW s \in Sessions, ser[s] # None
  PROVE  /\ Scanned(s) \in View /\ Scanned(s) # None
         /\ Known(s) => /\ Scanned(s).file = view[s].file /\ Scanned(s).open = view[s].open
                        /\ Scanned(s).tailed = view[s].tailed /\ Scanned(s).flushed = view[s].flushed
         /\ ~Known(s) => (Scanned(s).file = 0 \/ Scanned(s).open) /\ ~Scanned(s).flushed
<1>1. Scanned(s) \in View /\ Scanned(s) # None
  BY ScannedType
<1>2. CASE Known(s)
  <2>1. view[s] \in View
    BY <1>2 DEF TailTypes, Known
  <2>2. Scanned(s) = [view[s] EXCEPT !.started = ser[s].started, !.ended = ser[s].ended]
    BY <1>2 DEF Scanned
  <2>3. Scanned(s).tailed = view[s].tailed /\ Scanned(s).flushed = view[s].flushed
    BY <2>1, <2>2 DEF View
  <2> QED
    BY <1>1, <1>2, <2>3, ScannedType
<1>3. CASE ~Known(s)
  <2>1. Scanned(s) = [started |-> ser[s].started, ended |-> ser[s].ended, file |-> firstSessionTmp(s), cursor |-> 0,
                      open |-> firstSessionTmp(s) # 0, tailed |-> FALSE, flushed |-> FALSE]
    BY <1>3 DEF Scanned
  <2>2. Scanned(s).flushed = FALSE /\ Scanned(s).file = firstSessionTmp(s)
    BY <2>1
  <2>3. ASSUME firstSessionTmp(s) # 0
        PROVE  Scanned(s).open
    <3>1. (firstSessionTmp(s) # 0) = TRUE
      BY <2>3
    <3>2. Scanned(s) = [started |-> ser[s].started, ended |-> ser[s].ended, file |-> firstSessionTmp(s), cursor |-> 0,
                        open |-> TRUE, tailed |-> FALSE, flushed |-> FALSE]
      BY <2>1, <3>1, Zenon
    <3> QED
      BY <3>2
  <2> QED
    BY <1>1, <1>3, <2>2, <2>3
<1> QED
  BY <1>2, <1>3

\* The flags of the next tmp file.
LEMMA NextTmpFlags ==
  ASSUME NEW v \in View
  PROVE  NextTmp(v).open /\ ~NextTmp(v).flushed /\ ~NextTmp(v).tailed
  BY DEF NextTmp, View

\* A session that the step leaves alone, and one that it reads from its file.
LEMMA SameFlags ==
  ASSUME NEW s \in Sessions, view'[s] = view[s]
  PROVE  Flags(s)
  BY DEF Flags, Known

LEMMA ReadFlags ==
  ASSUME SinkTypes, TailTypes, ViewInv, NEW s \in Sessions, ser[s] # None, view' = [view EXCEPT ![s] = Scanned(s)]
  PROVE  \A r \in Sessions : Flags(r)
<1>1. view'[s] = Scanned(s) /\ \A r \in Sessions \ {s} : view'[r] = view[r]
  BY DEF TailTypes
<1>2. Known(s)'
  BY <1>1, ScannedFlags DEF Known
<1>3. Flags(s)
  BY <1>1, <1>2, ScannedFlags DEF Flags
<1> QED
  BY <1>1, <1>3, SameFlags

\* The steps of the tailer that change the session it tails.
LEMMA TailFlags ==
  ASSUME TailInv, tailSession \/ CopyChunk \/ updateNextSessionTmp
  PROVE  \A r \in Sessions : Flags(r)
<1>0. SinkTypes /\ TailTypes /\ PlaceInv /\ ViewInv /\ SerInv
  BY DEF TailInv
<1>1. PICK t \in Sessions : t = target /\ view[t] \in View /\ Known(t)
  BY <1>0 DEF tailSession, CopyChunk, updateNextSessionTmp, PlaceInv, TailTypes, Known
<1>2. ASSUME NEW v \in View, view' = [view EXCEPT ![t] = v]
      PROVE  view'[t] = v /\ Known(t)' /\ \A r \in Sessions \ {t} : view'[r] = view[r]
  BY <1>0, <1>1, <1>2, NoneAssumption DEF TailTypes, Known
<1>3. CASE view' = view
  BY <1>3, SameFlags
<1>4. CASE tailSession
  <2> DEFINE v == [view[target] EXCEPT !.tailed = TRUE]
  <2>1. v \in View /\ v.file = view[target].file /\ v.open = view[target].open /\ v.tailed /\ v.flushed = view[target].flushed
    BY <1>1 DEF View
  <2>2. pc = "tailSession" /\ (view' = view \/ view' = [view EXCEPT ![target] = v])
    BY <1>4 DEF tailSession
  <2> HIDE DEF v
  <2>3. ASSUME view' = [view EXCEPT ![target] = v]
        PROVE  \A r \in Sessions : Flags(r)
    <3>1. view'[t] = v /\ Known(t)' /\ \A r \in Sessions \ {t} : view'[r] = view[r]
      BY <1>1, <1>2, <2>1, <2>3
    <3>2. Flags(t)
      BY <1>1, <2>1, <2>2, <3>1 DEF Flags
    <3> QED
      BY <3>1, <3>2, SameFlags
  <2> QED
    BY <1>3, <2>2, <2>3
<1>5. CASE CopyChunk
  <2>1. CASE view[target].open
    <3> DEFINE size == files[target][view[target].file]
               v == [view[target] EXCEPT !.cursor = size]
    <3>1. size \in Nat /\ view' = [view EXCEPT ![target] = v]
      BY <1>5, <2>1, CopyEffect, CopyMoves
    <3>2. v \in View /\ v.file = view[target].file /\ v.open = view[target].open
          /\ v.tailed = view[target].tailed /\ v.flushed = view[target].flushed
      <4> HIDE DEF size
      <4> QED
        BY <1>1, <3>1 DEF View
    <3> HIDE DEF v
    <3>3. view'[t] = v /\ Known(t)' /\ \A r \in Sessions \ {t} : view'[r] = view[r]
      BY <1>1, <1>2, <3>1, <3>2
    <3>4. Flags(t)
      BY <1>1, <3>2, <3>3 DEF Flags
    <3> QED
      BY <3>3, <3>4, SameFlags
  <2>2. CASE ~view[target].open
    BY <1>3, <1>5, <2>2, CopyEffect
  <2> QED
    BY <2>1, <2>2
<1>6. CASE updateNextSessionTmp
  <2> DEFINE v == [view[target] EXCEPT !.flushed = TRUE, !.open = FALSE]
  <2>1. v \in View /\ v.file = view[target].file /\ v.tailed = view[target].tailed /\ v.flushed /\ ~v.open
    BY <1>1 DEF View
  <2>2. pc = "next"
        /\ \/ view' = view
           \/ view' = [view EXCEPT ![target] = v]
           \/ hasNextSessionTmp(target) /\ view' = [view EXCEPT ![target] = NextTmp(view[target])]
    BY <1>0, <1>1, <1>6, UpdateEffect DEF TailTypes
  <2> HIDE DEF v
  <2>3. ASSUME view' = [view EXCEPT ![target] = v]
        PROVE  \A r \in Sessions : Flags(r)
    <3>1. view'[t] = v /\ Known(t)' /\ \A r \in Sessions \ {t} : view'[r] = view[r]
      BY <1>1, <1>2, <2>1, <2>3
    <3>2. Flags(t)
      BY <1>1, <2>1, <2>2, <3>1 DEF Flags
    <3> QED
      BY <3>1, <3>2, SameFlags
  <2>4. ASSUME hasNextSessionTmp(target), view' = [view EXCEPT ![target] = NextTmp(view[target])]
        PROVE  \A r \in Sessions : Flags(r)
    <3>1. NextTmp(view[target]) \in View /\ NextTmp(view[target]).file = view[target].file + 1
          /\ NextTmp(view[target]).open /\ ~NextTmp(view[target]).flushed
      BY <1>1, NextTmpType, NextTmpFlags
    <3>2. view'[t] = NextTmp(view[target]) /\ Known(t)' /\ \A r \in Sessions \ {t} : view'[r] = view[r]
      BY <1>1, <1>2, <2>4, <3>1
    <3>3. view[target].file + 1 > 1
      <4>1. removed[target] \in Nat /\ view[target].file \in Nat
        BY <1>0, <1>1 DEF SinkTypes, View
      <4> QED
        BY <2>4, <4>1 DEF hasNextSessionTmp
    <3>4. Flags(t)
      BY <1>1, <2>2, <3>1, <3>2, <3>3 DEF Flags
    <3> QED
      BY <3>2, <3>4, SameFlags
  <2> QED
    BY <1>3, <2>2, <2>3, <2>4
<1> QED
  BY <1>4, <1>5, <1>6

\* The other steps.
LEMMA OtherFlags ==
  ASSUME TailInv, [Next]_vars, ~(tailSession \/ CopyChunk \/ updateNextSessionTmp)
  PROVE  \A r \in Sessions : Flags(r)
<1>0. SinkTypes /\ TailTypes /\ PlaceInv /\ ViewInv /\ SerInv
  BY DEF TailInv
<1>1. CASE view' = view
  BY <1>1, SameFlags
<1>2. ASSUME NEW s \in Sessions, ser[s] # None, view' = [view EXCEPT ![s] = Scanned(s)]
      PROVE  \A r \in Sessions : Flags(r)
  BY <1>0, <1>2, ReadFlags
<1>3. CASE Sink \/ Timeout \/ Loop \/ tailOnce \/ electNext \/ tailedNext \/ tailedAll \/ tailedOne
           \/ clearSession \/ ClearReturns \/ Quiet \/ UNCHANGED vars
  BY <1>1, <1>3 DEF Sink, Timeout, Loop, tailOnce, electNext, tailedNext, tailedAll, tailedOne,
                    clearSession, ClearReturns, Quiet, vars
<1>4. ASSUME NEW op \in Calls, NEW names \in Names(op), Call(op, names)
      PROVE  view' = view
  BY <1>4 DEF Call
<1>5. CASE scanSessions
  <2>1. \A s \in toScan : s \in Sessions /\ ser[s] # None
    BY <1>0, <1>5 DEF scanSessions, SerInv, TailTypes
  <2>2. view' = view \/ \E s \in toScan : view' = [view EXCEPT ![s] = Scanned(s)]
    BY <1>5 DEF scanSessions
  <2> QED
    BY <1>1, <1>2, <2>1, <2>2
<1>6. CASE electSession
  <2>1. electedSession # None => electedSession \in Sessions /\ ser[electedSession] # None
    BY <1>0 DEF TailTypes, SerInv
  <2> QED
    BY <1>1, <1>2, <1>6, <2>1 DEF electSession
<1>7. CASE TestEnded \/ TestFound \/ tailedSupplied
  <2>1. Name \in Sessions
    BY <1>0, <1>7, NameType DEF TestEnded, TestFound, tailedSupplied, PlaceInv, At
  <2>2. KnownEnded(Name) => ser[Name] # None
    BY <1>0, <2>1 DEF SerInv, KnownEnded
  <2> QED
    BY <1>1, <1>2, <1>7, <2>1, <2>2 DEF TestEnded, TestFound, tailedSupplied
<1>8. CASE clearSessionsMap
  <2>1. target \in Sessions /\ (view' = view \/ view' = [view EXCEPT ![target] = None])
    BY <1>0, <1>8 DEF clearSessionsMap, PlaceInv, clear
  <2>2. ASSUME NEW r \in Sessions
        PROVE  view'[r] = view[r] \/ ~Known(r)'
    BY <1>0, <2>1 DEF TailTypes, Known
  <2> QED
    BY <2>2, SameFlags DEF Flags
<1> QED
  BY <1>1, <1>3, <1>4, <1>5, <1>6, <1>7, <1>8 DEF Next, Work

\* Every step does no more than that to the flags.
LEMMA StepFlags ==
  ASSUME TailInv, [Next]_vars
  PROVE  \A r \in Sessions : Flags(r)
  BY TailFlags, OtherFlags

\* A session keeps to its flags; once nothing is left of it, nothing is, and
\* once it is tailed it is, up to a next tmp file.
LEMMA ClosedStep ==
  ASSUME TailInv, FlagInv, [Next]_vars
  PROVE  /\ ClosedInv'
         /\ \A s \in Sessions : Known(s) /\ Known(s)' =>
              /\ view[s].flushed => view'[s].flushed
              /\ view[s].tailed => view'[s].tailed \/ view'[s].file > 1
<1>1. TailTypes /\ TailTypes' /\ PlaceInv
  BY TailStep DEF TailInv
<1>2. \A s \in Sessions : Flags(s)
  BY StepFlags
<1>3. ASSUME NEW s \in Sessions, Known(s)'
      PROVE  /\ view'[s].flushed => ~view'[s].open
             /\ ~view'[s].open => view'[s].file = 0 \/ view'[s].flushed
             /\ view'[s].flushed /\ view'[s].file <= 1 => view'[s].tailed
             /\ Known(s) => /\ view[s].flushed => view'[s].flushed
                            /\ view[s].tailed => view'[s].tailed \/ view'[s].file > 1
  <2>1. view'[s] \in View /\ view'[s].file \in Nat
    BY <1>1, <1>3 DEF TailTypes, Known, View
  <2>2. Known(s) => /\ view[s].flushed => ~view[s].open
                    /\ ~view[s].open => view[s].file = 0 \/ view[s].flushed
                    /\ view[s].flushed /\ view[s].file <= 1 => view[s].tailed
    BY DEF FlagInv, ClosedInv
  <2>3. pc = "next" /\ s = target => view[s].open /\ (view[s].file <= 1 => view[s].tailed)
    BY DEF FlagInv, ReadInv
  <2> QED
    BY <1>2, <1>3, <2>1, <2>2, <2>3 DEF Flags
<1> QED
  BY <1>3 DEF ClosedInv

\* The reads of the step that begins to tail, of the copy, and of the step
\* that looks for the next tmp file.
LEMMA ReadTail ==
  ASSUME TailInv, FlagInv, tailSession \/ CopyChunk \/ updateNextSessionTmp
  PROVE  ReadInv'
<1>0. SinkTypes /\ TailTypes /\ PlaceInv /\ ViewInv /\ SerInv /\ ClosedInv /\ ReadInv
  BY DEF TailInv, FlagInv
<1>1. PICK t \in Sessions : t = target /\ view[t] \in View /\ Known(t)
  BY <1>0 DEF tailSession, CopyChunk, updateNextSessionTmp, PlaceInv, TailTypes, Known
<1>2. target' = t
  BY <1>1, CopyEffect DEF tailSession, CopyChunk, updateNextSessionTmp, locals
<1>3. ASSUME NEW v \in View, view' = [view EXCEPT ![t] = v]
      PROVE  view'[t] = v
  BY <1>0, <1>3 DEF TailTypes
<1>4. view[t].file \in Nat
  BY <1>1 DEF View
<1>5. CASE tailSession
  <2> DEFINE v == [view[target] EXCEPT !.tailed = TRUE]
  <2>1. v \in View /\ v.tailed
    BY <1>1 DEF View
  <2>2. pc' = "tailed" \/ (pc' = "copy" /\ view' = [view EXCEPT ![t] = v])
    BY <1>1, <1>5 DEF tailSession, Goto
  <2> HIDE DEF v
  <2>3. view' = [view EXCEPT ![t] = v] => view'[t] = v
    BY <1>3, <2>1
  <2> QED
    BY <1>2, <2>1, <2>2, <2>3 DEF ReadInv
<1>6. CASE CopyChunk
  <2>1. pc = "copy" /\ (view[t].file <= 1 => view[t].tailed)
    BY <1>0, <1>1, <1>6, CopyEffect DEF ReadInv
  <2>2. CASE view[target].open
    <3> DEFINE size == files[target][view[target].file]
               v == [view[target] EXCEPT !.cursor = size]
    <3>1. size \in Nat /\ view' = [view EXCEPT ![t] = v] /\ pc' = "next"
      BY <1>1, <1>6, <2>2, CopyEffect, CopyMoves
    <3>2. v \in View /\ v.file = view[t].file /\ v.open /\ v.tailed = view[t].tailed
      <4> HIDE DEF size
      <4> QED
        BY <1>1, <2>2, <3>1 DEF View
    <3> HIDE DEF v, size
    <3>3. view'[t] = v
      BY <1>3, <3>1, <3>2
    <3> QED
      BY <1>2, <2>1, <3>1, <3>2, <3>3 DEF ReadInv
  <2>3. CASE ~view[target].open
    <3>1. pc' \in {"idle", "panicked"}
      BY <1>6, <2>3, CopyEffect DEF Return
    <3> QED
      BY <3>1 DEF ReadInv
  <2> QED
    BY <2>2, <2>3
<1>7. CASE updateNextSessionTmp
  <2>1. view[t].file <= 1 => view[t].tailed
    BY <1>0, <1>1, <1>7 DEF updateNextSessionTmp, ReadInv
  <2>2. \/ pc' = "tailed"
        \/ pc' = "copy" /\ view' = view
        \/ pc' = "copy" /\ hasNextSessionTmp(t) /\ view' = [view EXCEPT ![t] = NextTmp(view[t])]
    BY <1>0, <1>1, <1>7, UpdateEffect DEF TailTypes
  <2>3. CASE pc' = "tailed" \/ (pc' = "copy" /\ view' = view)
    BY <1>2, <2>1, <2>3 DEF ReadInv
  <2>4. ASSUME pc' = "copy", hasNextSessionTmp(t), view' = [view EXCEPT ![t] = NextTmp(view[t])]
        PROVE  ReadInv'
    <3>1. NextTmp(view[t]) \in View /\ NextTmp(view[t]).file = view[t].file + 1
      BY <1>1, NextTmpType
    <3>2. view'[t] = NextTmp(view[t])
      BY <1>3, <2>4, <3>1
    <3>3. ~(view[t].file + 1 <= 1)
      <4>1. removed[t] \in Nat
        BY <1>0 DEF SinkTypes
      <4> QED
        BY <1>4, <2>4, <4>1 DEF hasNextSessionTmp
    <3> QED
      BY <1>2, <2>4, <3>1, <3>2, <3>3 DEF ReadInv
  <2> QED
    BY <2>2, <2>3, <2>4
<1> QED
  BY <1>5, <1>6, <1>7

\* The other steps read no chunk.
LEMMA ReadOther ==
  ASSUME TailInv, FlagInv, [Next]_vars, ~(tailSession \/ CopyChunk \/ updateNextSessionTmp)
  PROVE  ReadInv'
<1>0. SinkTypes /\ TailTypes /\ PlaceInv /\ ViewInv /\ SerInv /\ ClosedInv /\ ReadInv
  BY DEF TailInv, FlagInv
<1>1. CASE Sink \/ Quiet \/ UNCHANGED vars
  <2>1. UNCHANGED <<view, pc, target>>
    BY <1>1 DEF Sink, Quiet, vars, locals
  <2> QED
    BY <1>0, <2>1 DEF ReadInv
<1>2. ASSUME NEW op \in Calls, NEW names \in Names(op), Call(op, names)
      PROVE  pc' \notin {"copy", "next"}
  BY <1>2 DEF Call, Goto
<1>3. CASE Timeout \/ tailedAll \/ ClearReturns \/ clearSession \/ clearSessionsMap
  BY <1>3 DEF Timeout, tailedAll, ClearReturns, clearSession, clearSessionsMap, Goto, Return, ReadInv
<1>4. CASE Loop
  <2>1. call.op \in {"TailOnlyBlocking", "TailSuppliedBlocking", "TailBlocking", "TailAllBlocking"}
    BY <1>0, <1>4, CallsAssumption DEF Loop, PlaceInv, Calling, Methods, Clearing
  <2>2. CASE call.op \in {"TailOnlyBlocking", "TailSuppliedBlocking"}
    BY <1>4, <2>2 DEF Loop, Scan, Goto, ReadInv
  <2>3. CASE call.op = "TailBlocking"
    BY <1>4, <2>3 DEF Loop, Goto, ReadInv
  <2>4. CASE call.op = "TailAllBlocking"
    BY <1>4, <2>4 DEF Loop, Scan, Goto, ReadInv
  <2> QED
    BY <2>1, <2>2, <2>3, <2>4
<1>5. CASE scanSessions
  <2>1. pc' \in {"scan", "tailOnce", "pick", "tailNext", "test", "found"}
    BY <1>0, <1>5 DEF scanSessions, Goto, PlaceInv
  <2> QED
    BY <2>1 DEF ReadInv
<1>6. CASE tailOnce \/ electSession \/ tailedNext \/ tailedOne
  BY <1>6 DEF tailOnce, electSession, tailedNext, tailedOne, Scan, Goto, ReadInv
<1>7. CASE electNext
  BY <1>7 DEF electNext, Elect, Goto, ReadInv
<1>8. CASE TestEnded \/ TestFound \/ tailedSupplied
  BY <1>8 DEF TestEnded, TestFound, tailedSupplied, Goto, Return, ReadInv
<1> QED
  BY <1>1, <1>2, <1>3, <1>4, <1>5, <1>6, <1>7, <1>8 DEF Next, Work, ReadInv

\* Initially no session is known.
LEMMA FlagInit ==
  ASSUME Init
  PROVE  FlagInv
<1>1. ClosedInv
  BY DEF Init, ClosedInv, Known
<1>2. pc = "idle"
  BY DEF Init
<1> QED
  BY <1>1, <1>2 DEF FlagInv, ReadInv

-----------------------------------------------------------------------------
(* TailBlocking and TailAllBlocking tail the sessions in turn.             *)

\* No step of a tailer that clears nothing forgets a session.
LEMMA StaysKnown ==
  ASSUME TailInv, [Next]_vars, Clearing \cap Calls = {}, NEW s \in Sessions, Known(s)
  PROVE  Known(s)' /\ ~clearSession /\ ~clearSessionsMap /\ ~ClearReturns
<1>0. SinkTypes /\ TailTypes /\ PlaceInv /\ ViewInv /\ SerInv
  BY DEF TailInv
<1>1. pc \notin {"clear", "cleared"}
  BY <1>0 DEF PlaceInv, Calling
<1>2. ~clearSession /\ ~clearSessionsMap /\ ~ClearReturns
  BY <1>1 DEF clearSession, clearSessionsMap, ClearReturns
<1>3. CASE Sink \/ Quiet \/ UNCHANGED vars
  <2>1. view' = view
    BY <1>3 DEF Sink, Quiet, vars
  <2> QED
    BY <1>2, <2>1 DEF Known
<1>4. ASSUME NEW op \in Calls, NEW names \in Names(op), Call(op, names)
      PROVE  Known(s)'
  BY <1>4 DEF Call, Known
<1>5. CASE CopyChunk
  <2>1. \A r \in Sessions : Known(r) <=> Known(r)'
    BY <1>5, CopyMoves
  <2> QED
    BY <1>2, <2>1
<1>6. CASE Work \/ Timeout
  BY <1>2, <1>5, <1>6, TailMoves, EndMoves DEF Work
<1> QED
  BY <1>2, <1>3, <1>4, <1>6 DEF Next

\* The invariant that is kept, without calls that clear.
TurnsInv == TailInv /\ FlagInv /\ TurnInv

\* A step that leaves the place, the session and the flags it depends on.
LEMMA ElectedSame ==
  ASSUME ElectedInv, UNCHANGED <<view, pc, ret, call, target, electedSession>>
  PROVE  ElectedInv'
  BY DEF ElectedInv, At, ElectedEnded

\* The steps of a call that do not tail.
LEMMA ElectedCall ==
  ASSUME TailInv, ElectedInv,
         \/ Timeout \/ Loop \/ scanSessions \/ tailOnce \/ electSession \/ electNext
         \/ tailedNext \/ tailedAll \/ tailedOne \/ TestEnded \/ TestFound \/ tailedSupplied
  PROVE  ElectedInv'
<1>0. SinkTypes /\ TailTypes /\ PlaceInv /\ ViewInv /\ SerInv
  BY DEF TailInv
<1>1. ASSUME ~At("pick")', pc' \notin {"tailSession", "copy", "next", "tailed"}
      PROVE  ElectedInv'
  BY <1>1 DEF ElectedInv, At
<1>2. CASE Timeout \/ tailedAll
  BY <1>1, <1>2 DEF Timeout, tailedAll, Return, Goto, At
<1>3. CASE Loop
  <2>1. call.op \in {"TailOnlyBlocking", "TailSuppliedBlocking", "TailBlocking", "TailAllBlocking"}
    BY <1>0, <1>3, CallsAssumption DEF Loop, PlaceInv, Calling, Methods, Clearing
  <2>2. CASE call.op \in {"TailOnlyBlocking", "TailSuppliedBlocking"}
    BY <1>1, <1>3, <2>2 DEF Loop, Scan, Goto, At
  <2>3. CASE call.op = "TailBlocking"
    BY <1>1, <1>3, <2>3 DEF Loop, Goto, At
  <2>4. CASE call.op = "TailAllBlocking"
    BY <1>1, <1>3, <2>4 DEF Loop, Scan, Goto, At
  <2> QED
    BY <2>1, <2>2, <2>3, <2>4
<1>4. CASE scanSessions
  <2>1. pc = "scan" /\ pc' \in {"scan", ret} /\ ret \in {"tailOnce", "pick", "tailNext", "test", "found"}
        /\ UNCHANGED <<ret, electedSession>>
    BY <1>0, <1>4 DEF scanSessions, Goto, PlaceInv
  <2>2. At("pick")' => At("pick")
    BY <2>1 DEF At
  <2> QED
    BY <2>1, <2>2 DEF ElectedInv
<1>5. CASE tailOnce
  <2>1. pc = "tailOnce" /\ call' = call /\ call.op \notin Elections /\ pc' \in {"tailSession", "tailed"}
    BY <1>0, <1>5 DEF tailOnce, PlaceInv, At, Elections, control, Goto
  <2> QED
    BY <2>1 DEF ElectedInv, At
<1>6. CASE electSession
  <2>1. CASE electedSession = None
    <3>1. pc' = "scan" /\ electedSession' = None
      BY <1>6, <2>1 DEF electSession, Scan, Goto, elected
    <3> QED
      BY <3>1 DEF ElectedInv
  <2>2. CASE electedSession # None
    <3>1. pc' = "tailSession" /\ target' = electedSession /\ electedSession' = electedSession
      BY <1>6, <2>2 DEF electSession, Goto, elected
    <3> QED
      BY <3>1 DEF ElectedInv, At
  <2> QED
    BY <2>1, <2>2
<1>7. CASE electNext
  <2>1. electedSession = None
    BY <1>7 DEF electNext, ElectedInv, At
  <2>2. \/ pc' = "tailSession" /\ target' = electedSession'
        \/ pc' = "tailed" /\ electedSession' = None
    BY <1>7, <2>1 DEF electNext, Elect, Goto
  <2> QED
    BY <2>2 DEF ElectedInv, At, ElectedEnded
<1>8. CASE tailedNext
  BY <1>1, <1>8 DEF tailedNext, Goto, At
<1>9. CASE tailedOne
  <2>1. pc' = "test" \/ (pc' = "scan" /\ ret' \in {"test", "found"})
    BY <1>9 DEF tailedOne, Scan, Goto
  <2> QED
    BY <1>1, <2>1 DEF At
<1>10. CASE TestEnded \/ TestFound \/ tailedSupplied
  <2>1. pc' \in {"idle", "loop"}
    BY <1>10 DEF TestEnded, TestFound, tailedSupplied, Return, Goto
  <2> QED
    BY <1>1, <2>1 DEF At
<1> QED
  BY <1>2, <1>3, <1>4, <1>5, <1>6, <1>7, <1>8, <1>9, <1>10

\* The steps that tail the elected session.
LEMMA ElectedTail ==
  ASSUME TailInv, ElectedInv, tailSession \/ CopyChunk \/ updateNextSessionTmp
  PROVE  ElectedInv'
<1>0. SinkTypes /\ TailTypes /\ PlaceInv /\ ViewInv /\ SerInv
  BY DEF TailInv
<1>1. PICK t \in Sessions : t = target /\ view[t] \in View /\ Known(t)
  BY <1>0 DEF tailSession, CopyChunk, updateNextSessionTmp, PlaceInv, TailTypes, Known
<1>2. target' = t /\ electedSession' = electedSession /\ pc \in {"tailSession", "copy", "next"}
  BY <1>1, CopyEffect DEF tailSession, CopyChunk, updateNextSessionTmp, locals, elected
<1>3. call.op \in Elections => electedSession = t
  BY <1>1, <1>2 DEF ElectedInv
<1>4. ASSUME pc' \in {"copy", "next"}, UNCHANGED call
      PROVE  ElectedInv'
  BY <1>2, <1>3, <1>4 DEF ElectedInv, At
<1>5. ASSUME pc' = "tailed", UNCHANGED call, view'[t].ended => view'[t].flushed
      PROVE  ElectedInv'
  BY <1>2, <1>3, <1>5 DEF ElectedInv, At, ElectedEnded
<1>6. CASE tailSession
  <2>1. UNCHANGED call /\ (pc' = "copy" \/ (pc' = "tailed" /\ Finished(view[t]) /\ view' = view))
    BY <1>1, <1>6 DEF tailSession, Goto, control
  <2> QED
    BY <1>4, <1>5, <2>1 DEF Finished
<1>7. CASE CopyChunk
  <2>1. (pc' = "next" /\ UNCHANGED call) \/ pc' \in {"idle", "panicked"}
    BY <1>7, CopyEffect DEF Return, control
  <2> QED
    BY <1>4, <2>1 DEF ElectedInv, At
<1>8. CASE updateNextSessionTmp
  <2>1. UNCHANGED call
    BY <1>8 DEF updateNextSessionTmp, control
  <2>2. \/ pc' = "copy"
        \/ pc' = "tailed" /\ view' = view /\ ~view[t].ended
        \/ pc' = "tailed" /\ view' = [view EXCEPT ![target].flushed = TRUE, ![target].open = FALSE]
    BY <1>1, <1>8 DEF updateNextSessionTmp, Goto
  <2>3. ASSUME view' = [view EXCEPT ![target].flushed = TRUE, ![target].open = FALSE]
        PROVE  view'[t].flushed
    <3>1. view'[t] = [view[t] EXCEPT !.flushed = TRUE, !.open = FALSE]
      BY <1>0, <1>1, <2>3 DEF TailTypes
    <3> QED
      BY <1>1, <3>1 DEF View
  <2> QED
    BY <1>4, <1>5, <2>1, <2>2, <2>3
<1> QED
  BY <1>6, <1>7, <1>8

\* The other steps, but those that clear.
LEMMA ElectedStep ==
  ASSUME TurnsInv, [Next]_vars, ~(clearSession \/ clearSessionsMap \/ ClearReturns)
  PROVE  ElectedInv'
<1>0. TailInv /\ ElectedInv
  BY DEF TurnsInv, TurnInv
<1>1. CASE Sink \/ Quiet \/ UNCHANGED vars
  <2>1. UNCHANGED <<view, pc, ret, call, target, electedSession>>
    BY <1>1 DEF Sink, Quiet, vars, elected, control, locals
  <2> QED
    BY <1>0, <2>1, ElectedSame
<1>2. ASSUME NEW op \in Calls, NEW names \in Names(op), Call(op, names)
      PROVE  ElectedInv'
  <2>1. pc' \in {"tailNext", "idle", "clear", "loop"}
    BY <1>2 DEF Call, Goto
  <2> QED
    BY <2>1 DEF ElectedInv, At
<1> QED
  BY <1>0, <1>1, <1>2, ElectedCall, ElectedTail DEF Next, Work

\* What is output next, and of which session.
LEMMA OrderedGrows ==
  ASSUME TurnsInv, [Next]_vars, ~(clearSession \/ clearSessionsMap \/ ClearReturns)
  PROVE  \/ ordered' = ordered
         \/ ordered' = Append(ordered, None) /\ (electedSession # None => view[electedSession].flushed \/ ~view[electedSession].tailed)
         \/ \E s \in Sessions : /\ ordered' = Append(ordered, s) /\ Known(s)
                                /\ electedSession = s /\ electedSession' = electedSession
                                /\ Len(files[s]) <= 1 => view[s].tailed
<1>0. TailInv /\ SinkTypes /\ TailTypes /\ PlaceInv /\ ViewInv /\ ElectedInv /\ ReadInv
  BY DEF TurnsInv, TurnInv, TailInv, FlagInv
<1>1. CASE UNCHANGED output
  BY <1>1 DEF output
<1>2. /\ tailNotifications(FALSE) => ordered' = ordered
      /\ tailNotifications(TRUE) => ordered' = ordered \/ ordered' = Append(ordered, None)
  BY DEF tailNotifications
<1>3. CASE Sink \/ Quiet \/ UNCHANGED vars \/ Timeout \/ scanSessions \/ tailOnce \/ tailSession \/ updateNextSessionTmp
           \/ tailedAll \/ tailedOne
  <2>1. UNCHANGED output
    BY <1>3 DEF Sink, Quiet, vars, Timeout, scanSessions, tailOnce, tailSession, updateNextSessionTmp, tailedAll, tailedOne
  <2> QED
    BY <1>1, <2>1
<1>4. ASSUME NEW op \in Calls, NEW names \in Names(op), Call(op, names)
      PROVE  UNCHANGED output \/ tailNotifications(FALSE)
  BY <1>4 DEF Call
<1>5. CASE Loop \/ TestEnded \/ TestFound \/ tailedSupplied
  <2>1. UNCHANGED output \/ tailNotifications(FALSE)
    BY <1>5 DEF Loop, TestEnded, TestFound, tailedSupplied, output
  <2> QED
    BY <1>1, <1>2, <2>1
<1>6. CASE electSession \/ electNext \/ tailedNext
  <2>1. CASE electSession
    <3>1. UNCHANGED output \/ (tailNotifications(TRUE) /\ (electedSession # None => ~view[electedSession].tailed))
      BY <2>1 DEF electSession, NotTailed, elected
    <3> QED
      BY <1>1, <1>2, <3>1
  <2>2. CASE electNext
    <3>1. electedSession = None /\ (UNCHANGED output \/ tailNotifications(TRUE))
      BY <1>0, <2>2 DEF electNext, ElectedInv, At
    <3> QED
      BY <1>1, <1>2, <3>1
  <2>3. CASE tailedNext
    <3>1. view[electedSession].flushed /\ tailNotifications(TRUE)
      BY <1>0, <2>3 DEF tailedNext, ElectedInv, Elections
    <3> QED
      BY <1>2, <3>1
  <2> QED
    BY <1>6, <2>1, <2>2, <2>3
<1>7. CASE CopyChunk
  <2>1. target \in Sessions /\ Known(target) /\ pc = "copy" /\ UNCHANGED electedSession
    BY <1>0, <1>7, CopyEffect DEF PlaceInv, elected
  <2>2. ordered' = ordered \/ (ordered' = Append(ordered, target) /\ call.op \in Elections)
    BY <1>7 DEF CopyChunk, output
  <2>3. call.op \in Elections => target = electedSession
    BY <1>0, <2>1 DEF ElectedInv
  <2>4. Len(files[target]) <= 1 => view[target].tailed
    <3>1. view[target].file \in Nat /\ Len(files[target]) \in Nat /\ view[target].file <= Len(files[target])
      BY <1>0, <2>1 DEF ViewInv, TailTypes, SinkTypes, View, Known
    <3>2. Len(files[target]) <= 1 => view[target].file <= 1
      BY <3>1
    <3> QED
      BY <1>0, <2>1, <3>2 DEF ReadInv
  <2> QED
    BY <2>1, <2>2, <2>3, <2>4
<1> QED
  BY <1>1, <1>2, <1>3, <1>4, <1>5, <1>6, <1>7 DEF Next, Work

\* A session stops to be elected when nothing is left of it.
LEMMA ElectedUntil ==
  ASSUME TurnsInv, [Next]_vars, ~(clearSession \/ clearSessionsMap \/ ClearReturns), electedSession # None
  PROVE  electedSession' = electedSession \/ (view[electedSession].flushed /\ view' = view)
<1>0. TailInv /\ TailTypes /\ PlaceInv /\ ElectedInv
  BY DEF TurnsInv, TurnInv, TailInv
<1>1. CASE electNext
  BY <1>0, <1>1 DEF electNext, ElectedInv, At
<1>2. CASE tailedNext
  <2>1. pc = "tailed" /\ call.op \in Elections /\ ElectedEnded /\ view' = view
    BY <1>2 DEF tailedNext, Elections
  <2> QED
    BY <1>0, <2>1 DEF ElectedInv
<1>3. CASE CopyChunk
  BY <1>3, CopyEffect DEF elected
<1>4. CASE Sink \/ Quiet \/ UNCHANGED vars \/ Timeout \/ Loop \/ scanSessions \/ tailOnce \/ tailSession \/ updateNextSessionTmp
           \/ electSession \/ tailedAll \/ tailedOne \/ TestEnded \/ TestFound \/ tailedSupplied
  BY <1>4 DEF Sink, Quiet, vars, Timeout, Loop, scanSessions, tailOnce, tailSession, updateNextSessionTmp,
              electSession, tailedAll, tailedOne, TestEnded, TestFound, tailedSupplied, elected
<1>5. ASSUME NEW op \in Calls, NEW names \in Names(op), Call(op, names)
      PROVE  electedSession' = electedSession
  BY <1>5 DEF Call
<1> QED
  BY <1>1, <1>2, <1>3, <1>4, <1>5 DEF Next, Work

\* The order of the outputs is kept, whatever the step, if a session that is
\* output is elected, and stays so until nothing is left of it.
LEMMA OrderedStep ==
  ASSUME SinkTypes, TailTypes, OrderedInv, SessionsNeverInterleave,
         \A s \in Sessions : Len(files[s]) \in Nat /\ Len(files'[s]) \in Nat /\ Len(files[s]) <= Len(files'[s]),
         \A s \in Sessions : Known(s) => Known(s)',
         \A s \in Sessions : Known(s) /\ view[s].flushed => view'[s].flushed,
         \A s \in Sessions : Known(s) /\ view[s].tailed => view'[s].tailed \/ Len(files'[s]) > 1,
         \A s \in Sessions : electedSession = s => electedSession' = s \/ view'[s].flushed,
         NEW x \in Sessions \cup {None}, ordered' = ordered \/ ordered' = Append(ordered, x),
         x # None => Known(x) /\ electedSession = x /\ electedSession' = x /\ (Len(files[x]) <= 1 => view[x].tailed),
         ordered' = ordered \/ x # None \/ (electedSession # None => view[electedSession].flushed \/ ~view[electedSession].tailed)
  PROVE  OrderedInv' /\ SessionsNeverInterleave'
<1>1. ordered \in Seq(Sessions \cup {None}) /\ Len(ordered) \in Nat /\ DOMAIN ordered = 1 .. Len(ordered)
      /\ \A i \in DOMAIN ordered : ordered[i] \in Sessions \cup {None}
  BY DEF TailTypes
<1>2. \A i \in DOMAIN ordered' :
         \/ i \in DOMAIN ordered /\ ordered'[i] = ordered[i]
         \/ i = Len(ordered) + 1 /\ ordered'[i] = x /\ ordered' # ordered
  BY <1>1
<1>3. \A i \in DOMAIN ordered : ordered[i] # None =>
         /\ ordered[i] \in Sessions /\ Known(ordered[i])
         /\ \/ view[ordered[i]].flushed
            \/ ordered[i] = electedSession /\ (Len(files[ordered[i]]) <= 1 => view[ordered[i]].tailed)
  BY <1>1 DEF OrderedInv
<1>4. ASSUME NEW s \in Sessions, Known(s), s = electedSession, Len(files[s]) <= 1 => view[s].tailed
      PROVE  view'[s].flushed \/ (s = electedSession' /\ (Len(files'[s]) <= 1 => view'[s].tailed))
  <2>1. Len(files'[s]) <= 1 => Len(files[s]) <= 1 /\ ~(Len(files'[s]) > 1)
    OBVIOUS
  <2> QED
    BY <1>4, <2>1
<1>5. ASSUME NEW i \in DOMAIN ordered', ordered'[i] # None
      PROVE  ordered'[i] \in Sessions /\ view'[ordered'[i]] # None
             /\ \/ view'[ordered'[i]].flushed
                \/ ordered'[i] = electedSession' /\ (Len(files'[ordered'[i]]) <= 1 => view'[ordered'[i]].tailed)
  <2>1. CASE i \in DOMAIN ordered /\ ordered'[i] = ordered[i]
    BY <1>3, <1>4, <1>5, <2>1 DEF Known
  <2>2. CASE ordered'[i] = x
    BY <1>4, <1>5, <2>2 DEF Known
  <2> QED
    BY <1>2, <2>1, <2>2
<1>6. ASSUME NEW i \in DOMAIN ordered', NEW j \in DOMAIN ordered', i < j, ordered'[i] # ordered'[j], ordered'[i] # None,
             ordered'[j] # None \/ Len(files'[ordered'[i]]) <= 1
      PROVE  view'[ordered'[i]].flushed
  <2>1. i \in DOMAIN ordered /\ ordered'[i] = ordered[i]
    BY <1>1, <1>2, <1>6
  <2>2. ordered[i] \in Sessions /\ Known(ordered[i]) /\ (Len(files'[ordered[i]]) <= 1 => Len(files[ordered[i]]) <= 1)
    BY <1>3, <1>6, <2>1
  <2>3. CASE j \in DOMAIN ordered /\ ordered'[j] = ordered[j]
    <3>1. view[ordered[i]].flushed
      BY <1>6, <2>1, <2>2, <2>3 DEF SessionsNeverInterleave
    <3> QED
      BY <2>1, <2>2, <3>1
  <2>4. CASE ordered'[j] = x /\ x # None
    <3>1. view[ordered[i]].flushed
      BY <1>3, <1>6, <2>1, <2>4
    <3> QED
      BY <2>1, <2>2, <3>1
  <2>5. CASE ordered'[j] = x /\ x = None /\ ordered' # ordered
    <3>1. view[ordered[i]].flushed
      BY <1>3, <1>6, <2>1, <2>2, <2>5
    <3> QED
      BY <2>1, <2>2, <3>1
  <2> QED
    BY <1>2, <2>3, <2>4, <2>5
<1> QED
  BY <1>5, <1>6 DEF OrderedInv, SessionsNeverInterleave, Known

\* Every step of a tailer that clears nothing keeps the invariant.
LEMMA TurnsStep ==
  ASSUME TurnsInv, [Next]_vars, Clearing \cap Calls = {}
  PROVE  TurnsInv'
<1>0. TailInv /\ FlagInv /\ SinkTypes /\ TailTypes /\ PlaceInv /\ OrderedInv /\ SessionsNeverInterleave
  BY DEF TurnsInv, TurnInv, TailInv
<1>1. TailInv' /\ FilesGrow /\ FlagInv' /\ SinkTypes' /\ TailTypes' /\ ViewInv'
  BY <1>0, TailStep, ClosedStep, ReadTail, ReadOther DEF FlagInv, TailInv
<1>2. ~(clearSession \/ clearSessionsMap \/ ClearReturns)
  BY <1>0 DEF clearSession, clearSessionsMap, ClearReturns, PlaceInv, Calling
<1>3. ElectedInv'
  BY <1>2, ElectedStep
<1>4. \A s \in Sessions : Known(s) => Known(s)'
  BY <1>0, StaysKnown
<1>5. \A s \in Sessions : Len(files[s]) \in Nat /\ Len(files'[s]) \in Nat /\ Len(files[s]) <= Len(files'[s])
  BY <1>0, <1>1 DEF SinkTypes, FilesGrow
<1>6. \A s \in Sessions : Known(s) /\ view[s].flushed => view'[s].flushed
  BY <1>0, <1>4, ClosedStep
<1>7. ASSUME NEW s \in Sessions, Known(s), view[s].tailed
      PROVE  view'[s].tailed \/ Len(files'[s]) > 1
  <2>1. Known(s)' /\ (view'[s].tailed \/ view'[s].file > 1)
    BY <1>0, <1>4, <1>7, ClosedStep
  <2>2. view'[s].file <= Len(files'[s]) /\ view'[s].file \in Nat
    BY <1>1, <2>1 DEF ViewInv, TailTypes, View, Known
  <2> QED
    BY <1>5, <2>1, <2>2
<1>8. ASSUME NEW s \in Sessions, electedSession = s
      PROVE  electedSession' = s \/ view'[s].flushed
  BY <1>2, <1>8, ElectedUntil, NoneAssumption
<1>9. OrderedInv' /\ SessionsNeverInterleave'
  <2>1. CASE ordered' = ordered
    BY <1>0, <1>4, <1>5, <1>6, <1>7, <1>8, <2>1, OrderedStep
  <2>2. CASE ordered' = Append(ordered, None) /\ (electedSession # None => view[electedSession].flushed \/ ~view[electedSession].tailed)
    BY <1>0, <1>4, <1>5, <1>6, <1>7, <1>8, <2>2, OrderedStep
  <2>3. ASSUME NEW s \in Sessions, ordered' = Append(ordered, s), Known(s), electedSession = s, electedSession' = electedSession,
               Len(files[s]) <= 1 => view[s].tailed
        PROVE  OrderedInv' /\ SessionsNeverInterleave'
    BY <1>0, <1>4, <1>5, <1>6, <1>7, <1>8, <2>3, OrderedStep, NoneAssumption
  <2> QED
    BY <1>2, <2>1, <2>2, <2>3, OrderedGrows
<1> QED
  BY <1>1, <1>3, <1>9 DEF TurnsInv, TurnInv

\* Initially no session is elected and nothing is output.
LEMMA TurnsInit ==
  ASSUME Init
  PROVE  TurnsInv
<1>1. TailInv /\ FlagInv
  BY TailInit, FlagInit
<1>2. ElectedInv
  BY DEF Init, ElectedInv, At
<1>3. OrderedInv /\ SessionsNeverInterleave
  BY DEF Init, OrderedInv, SessionsNeverInterleave
<1> QED
  BY <1>1, <1>2, <1>3 DEF TurnsInv, TurnInv

\* What TailBlocking and TailAllBlocking output of a session is not cut by
\* another one, nor by a notice if the session went through no restart, over
\* all the calls of a tailer that clears nothing, whatever the sink does.
THEOREM SessionsInTurn ==
  ASSUME Clearing \cap Calls = {}
  PROVE  Spec => []SessionsNeverInterleave
<1>1. Init => TurnsInv
  BY TurnsInit
<1>2. TurnsInv /\ [Next]_vars => TurnsInv'
  BY TurnsStep
<1>3. TurnsInv => SessionsNeverInterleave
  BY DEF TurnsInv, TurnInv
<1> QED
  BY <1>1, <1>2, <1>3, PTL DEF Spec

-----------------------------------------------------------------------------
(* Everything is tailed, with a sink that is restarted at most once and    *)
(* leaves a session that has ended as it is.                               *)

\* Sessions that are not opened again, nor resynced or cleared.
Steady == Reopen = FALSE /\ MaxResyncs = 0 /\ MaxRuns <= 2 /\ Clearing \cap Calls = {}

\* A session that has ended in its .ser file has in the sink, and all its tmp
\* files are there.
SteadyInv ==
  /\ resync = None
  /\ \A s \in Sessions : removed[s] = 0
  /\ \A s \in Sessions : serEnded(s) /\ session[s] # None => session[s].ended

\* A known session is listed; when nothing is left of it, it is ended, and the
\* tailer is at the end of its last tmp file.
LastInv ==
  \A s \in Sessions : Known(s) =>
    /\ Listed(s)
    /\ view[s].ended => serEnded(s)
    /\ view[s].flushed => /\ view[s].ended
                          /\ view[s].file = Len(files[s]) /\ view[s].cursor = files[s][view[s].file]

\* A file of an ended session is copied to its end.
EndReadInv == pc = "next" /\ view[target].ended => view[target].cursor = files[target][view[target].file]

\* TailSuppliedBlocking tails the session of its current name; nothing is left
\* of those of the names before, nor of that one after it is tailed and ended.
SuppliedInv ==
  pc # "idle" /\ call.op = "TailSuppliedBlocking" =>
    /\ ~At("tailNext") /\ ~At("pick")
    /\ pc \in {"tailSession", "copy", "next"} => target = Name
    /\ pc = "tailed" /\ KnownEnded(Name) => view[Name].flushed
    /\ \A i \in 1 .. pos - 1 : Known(call.names[i]) /\ view[call.names[i]].flushed

\* TailAllBlocking waits: for the elected session, that is not ended, or for
\* any, when nothing is left of those that it could elect.
AllInv ==
  pc \in {"tailed", "loop"} /\ call.op = "TailAllBlocking" =>
    /\ electedSession = None => \A s \in Sessions : Known(s) /\ view[s].started => view[s].flushed
    /\ pc = "loop" => ~ElectedEnded

EverythingInv == TurnsInv /\ OrderInv /\ SteadyInv /\ LastInv /\ EndReadInv /\ SuppliedInv /\ AllInv

\* The sink opens no ended session and adds nothing to its files.
LEMMA SteadySink ==
  ASSUME SinkTypes, Steady, SteadyInv, Sink
  PROVE  SteadyInv' /\ \A s \in Sessions : serEnded(s) => serEnded(s)' /\ files'[s] = files[s]
<1>1. /\ session \in [Sessions -> Session \cup {None}] /\ ser \in [Sessions -> Serialized \cup {None}]
      /\ files \in [Sessions -> Seq(Nat)] /\ resyncs \in Nat
  BY DEF SinkTypes
<1>2. Reopen = FALSE /\ MaxResyncs = 0 /\ resync = None
  BY DEF Steady, SteadyInv
<1>3. ASSUME UNCHANGED <<ser, files, removed>>, resync' = None,
             \A s \in Sessions : serEnded(s) /\ session'[s] # None => session'[s].ended
      PROVE  SteadyInv' /\ \A s \in Sessions : serEnded(s) => serEnded(s)' /\ files'[s] = files[s]
  BY <1>3 DEF SteadyInv, serEnded
<1>4. CASE Crash
  <2>1. UNCHANGED <<ser, files, removed>> /\ resync' = None /\ session' = [s \in Sessions |-> None]
    BY <1>4 DEF Crash, NewAsyncScreen, disk
  <2> QED
    BY <1>3, <2>1
<1>5. CASE ResyncScan
  BY <1>1, <1>2, <1>5 DEF ResyncScan
<1>6. CASE Resync
  BY <1>2, <1>6 DEF Resync
<1>7. CASE Notify
  BY <1>2, <1>3, <1>7 DEF Notify, SteadyInv, disk
<1>8. ASSUME NEW s \in Sessions, Build(s)
      PROVE  SteadyInv' /\ \A r \in Sessions : serEnded(r) => serEnded(r)' /\ files'[r] = files[r]
  <2>1. ~serEnded(s) /\ UNCHANGED <<ser, removed, resync>> /\ files' = [files EXCEPT ![s] = Append(@, 0)]
    BY <1>2, <1>8 DEF Build
  <2>2. \A r \in Sessions \ {s} : session'[r] = session[r] /\ files'[r] = files[r]
    BY <1>1, <1>8, <2>1 DEF Build
  <2> QED
    BY <1>2, <2>1, <2>2 DEF SteadyInv, serEnded
<1>9. ASSUME NEW s \in Sessions, Start(s)
      PROVE  SteadyInv' /\ \A r \in Sessions : serEnded(r) => serEnded(r)' /\ files'[r] = files[r]
  <2>1. ~serEnded(s) /\ UNCHANGED <<ser, files, removed, resync>>
    BY <1>2, <1>9 DEF Start, SteadyInv, disk
  <2>2. \A r \in Sessions \ {s} : session'[r] = session[r]
    BY <1>1, <1>9 DEF Start
  <2> QED
    BY <1>2, <1>3, <2>1, <2>2 DEF SteadyInv
<1>10. ASSUME NEW s \in Sessions, Write(s)
      PROVE  SteadyInv' /\ \A r \in Sessions : serEnded(r) => serEnded(r)' /\ files'[r] = files[r]
  <2>1. ~serEnded(s) /\ UNCHANGED <<session, ser, removed, resync>>
    BY <1>10 DEF Write, SteadyInv
  <2>2. \A r \in Sessions \ {s} : files'[r] = files[r]
    BY <1>1, <1>10 DEF Write
  <2> QED
    BY <2>1, <2>2 DEF SteadyInv, serEnded
<1>11. ASSUME NEW s \in Sessions, End(s)
      PROVE  SteadyInv' /\ \A r \in Sessions : serEnded(r) => serEnded(r)' /\ files'[r] = files[r]
  <2>1. UNCHANGED <<ser, files, removed, resync>> /\ session[s] \in Session
    BY <1>1, <1>11 DEF End, disk
  <2>2. session' = [session EXCEPT ![s] = [session[s] EXCEPT !.ended = TRUE, !.changed = TRUE]]
    BY <1>11 DEF End
  <2>3. session'[s].ended /\ \A r \in Sessions \ {s} : session'[r] = session[r]
    BY <1>1, <2>1, <2>2 DEF Session
  <2> QED
    BY <1>2, <1>3, <2>1, <2>3 DEF SteadyInv
<1>12. ASSUME NEW s \in Sessions, Serialize(s)
      PROVE  SteadyInv' /\ \A r \in Sessions : serEnded(r) => serEnded(r)' /\ files'[r] = files[r]
  <2>1. UNCHANGED <<files, removed, resync>> /\ session[s] \in Session
    BY <1>1, <1>12 DEF Serialize
  <2>2. /\ ser'[s] = [started |-> session[s].started, ended |-> session[s].ended]
        /\ session'[s] = [session[s] EXCEPT !.changed = FALSE]
        /\ \A r \in Sessions \ {s} : ser'[r] = ser[r] /\ session'[r] = session[r]
    BY <1>1, <1>12, <2>1 DEF Serialize
  <2>3. ser'[s].ended = session[s].ended /\ session'[s].ended = session[s].ended /\ session[s] # None
    BY <2>1, <2>2, NoneAssumption DEF Session
  <2>4. ser'[s] # None
    <3>1. session[s].started \in BOOLEAN /\ session[s].ended \in BOOLEAN
      BY <2>1 DEF Session
    <3> QED
      BY <2>2, <3>1, NoneAssumption DEF Serialized
  <2> QED
    BY <2>1, <2>2, <2>3, <2>4 DEF SteadyInv, serEnded
<1> QED
  BY <1>4, <1>5, <1>6, <1>7, <1>8, <1>9, <1>10, <1>11, <1>12 DEF Sink

\* Nor does a tailer that clears nothing.
LEMMA SteadyStep ==
  ASSUME SinkTypes, Steady, SteadyInv, [Next]_vars, ~(clearSession \/ clearSessionsMap \/ ClearReturns)
  PROVE  SteadyInv' /\ \A s \in Sessions : serEnded(s) => serEnded(s)' /\ files'[s] = files[s]
<1>1. CASE Sink
  BY <1>1, SteadySink
<1>2. CASE UNCHANGED sink
  BY <1>2 DEF sink, disk, SteadyInv, serEnded
<1>3. ASSUME NEW op \in Calls, NEW names \in Names(op), Call(op, names)
      PROVE  UNCHANGED sink
  BY <1>3 DEF Call
<1>4. CASE CopyChunk
  BY <1>2, <1>4, CopyEffect
<1>5. CASE Timeout \/ Loop \/ scanSessions \/ tailOnce \/ tailSession \/ updateNextSessionTmp \/ electSession \/ electNext
           \/ tailedNext \/ tailedAll \/ tailedOne \/ TestEnded \/ TestFound \/ tailedSupplied \/ Quiet \/ UNCHANGED vars
  <2>1. UNCHANGED sink
    BY <1>5 DEF Timeout, Loop, scanSessions, tailOnce, tailSession, updateNextSessionTmp, electSession, electNext,
                tailedNext, tailedAll, tailedOne, TestEnded, TestFound, tailedSupplied, Quiet, vars
  <2> QED
    BY <1>2, <2>1
<1> QED
  BY <1>1, <1>2, <1>3, <1>4, <1>5 DEF Next, Work

\* What a step that clears nothing does to the sessions of the tailer.
LEMMA ViewSteps ==
  ASSUME TailInv, [Next]_vars, ~(clearSession \/ clearSessionsMap \/ ClearReturns)
  PROVE  \/ UNCHANGED <<view, sessionsByPriority>>
         \/ \E s \in Sessions :
              /\ ser[s] # None /\ view' = [view EXCEPT ![s] = Scanned(s)] /\ UNCHANGED disk
              /\ \/ Known(s) /\ sessionsByPriority' = sessionsByPriority
                 \/ sessionsByPriority' = [sessionsByPriority EXCEPT ![Priority[s]] = Append(sessionsByPriority[Priority[s]], s)]
         \/ tailSession \/ CopyChunk \/ updateNextSessionTmp
<1>0. SinkTypes /\ TailTypes /\ PlaceInv /\ ViewInv /\ SerInv
  BY DEF TailInv
<1>1. CASE Sink \/ Timeout \/ Loop \/ tailOnce \/ electNext \/ tailedNext \/ tailedAll \/ tailedOne \/ Quiet \/ UNCHANGED vars
  BY <1>1 DEF Sink, Timeout, Loop, tailOnce, electNext, tailedNext, tailedAll, tailedOne, Quiet, vars, elected
<1>2. ASSUME NEW op \in Calls, NEW names \in Names(op), Call(op, names)
      PROVE  UNCHANGED <<view, sessionsByPriority>>
  BY <1>2 DEF Call
<1>3. CASE scanSessions
  <2>1. \A s \in toScan : s \in Sessions /\ ser[s] # None
    BY <1>0, <1>3 DEF scanSessions, SerInv, TailTypes
  <2>2. \/ UNCHANGED <<view, sessionsByPriority>>
        \/ \E s \in toScan :
             /\ view' = [view EXCEPT ![s] = Scanned(s)]
             /\ \/ Known(s) /\ sessionsByPriority' = sessionsByPriority
                \/ sessionsByPriority' = [sessionsByPriority EXCEPT ![Priority[s]] = Append(sessionsByPriority[Priority[s]], s)]
    BY <1>3 DEF scanSessions
  <2>3. UNCHANGED disk
    BY <1>3 DEF scanSessions, sink
  <2> QED
    BY <2>1, <2>2, <2>3
<1>4. CASE electSession
  <2>1. electedSession # None => electedSession \in Sessions /\ Known(electedSession) /\ ser[electedSession] # None
    BY <1>0 DEF TailTypes, SerInv
  <2>2. UNCHANGED <<disk, sessionsByPriority>>
    BY <1>4 DEF electSession, sink, elected
  <2>3. view' = view \/ (electedSession # None /\ view' = [view EXCEPT ![electedSession] = Scanned(electedSession)])
    BY <1>4 DEF electSession
  <2> QED
    BY <2>1, <2>2, <2>3
<1>5. CASE TestEnded \/ TestFound \/ tailedSupplied
  <2>1. Name \in Sessions
    BY <1>0, <1>5, NameType DEF TestEnded, TestFound, tailedSupplied, PlaceInv, At
  <2>2. KnownEnded(Name) => Known(Name) /\ ser[Name] # None
    BY <1>0, <2>1 DEF SerInv, KnownEnded
  <2>3. UNCHANGED <<disk, sessionsByPriority>>
    BY <1>5 DEF TestEnded, TestFound, tailedSupplied, sink, elected
  <2>4. view' = view \/ (KnownEnded(Name) /\ view' = [view EXCEPT ![Name] = Scanned(Name)])
    BY <1>5 DEF TestEnded, TestFound, tailedSupplied
  <2> QED
    BY <2>1, <2>2, <2>3, <2>4
<1> QED
  BY <1>1, <1>2, <1>3, <1>4, <1>5 DEF Next, Work

\* LastInv of one session.
AtEnd(s) ==
  /\ Listed(s)
  /\ view[s].ended => serEnded(s)
  /\ view[s].flushed => /\ view[s].ended
                        /\ view[s].file = Len(files[s]) /\ view[s].cursor = files[s][view[s].file]

\* A session that the step leaves alone.
LEMMA LastSame ==
  ASSUME NEW s \in Sessions, AtEnd(s), view'[s] = view[s], Listed(s)', serEnded(s) => serEnded(s)' /\ files'[s] = files[s]
  PROVE  AtEnd(s)'
  BY DEF AtEnd

\* A session that the step reads from its .ser file.
LEMMA LastRead ==
  ASSUME TailInv, LastInv, NEW s \in Sessions, ser[s] # None, view' = [view EXCEPT ![s] = Scanned(s)], UNCHANGED disk,
         \/ Known(s) /\ sessionsByPriority' = sessionsByPriority
         \/ sessionsByPriority' = [sessionsByPriority EXCEPT ![Priority[s]] = Append(sessionsByPriority[Priority[s]], s)]
  PROVE  LastInv'
<1>0. SinkTypes /\ TailTypes /\ PlaceInv /\ ViewInv /\ SerInv
  BY DEF TailInv
<1>1. view'[s] = Scanned(s) /\ (\A r \in Sessions \ {s} : view'[r] = view[r]) /\ UNCHANGED <<ser, files>>
  BY <1>0 DEF TailTypes, disk
<1>2. Known(s) \/ Known(s)' => Listed(s)' /\ \A r \in Sessions : Listed(r) => Listed(r)'
  <2>1. CASE Known(s) /\ sessionsByPriority' = sessionsByPriority
    BY <2>1 DEF Listed, LastInv
  <2>2. CASE sessionsByPriority' = [sessionsByPriority EXCEPT ![Priority[s]] = Append(sessionsByPriority[Priority[s]], s)]
    <3> DEFINE list == sessionsByPriority[Priority[s]]
    <3>1. Priority[s] \in Priorities /\ list \in Seq(Sessions)
      BY <1>0 DEF Priorities, TailTypes
    <3>2. Range(Append(list, s)) = Range(list) \cup {s}
      BY <3>1, AppendFacts
    <3>3. \A k \in Priorities : sessionsByPriority'[k] = IF k = Priority[s] THEN Append(list, s) ELSE sessionsByPriority[k]
      BY <1>0, <2>2 DEF TailTypes
    <3>4. \A r \in Sessions : Priority[r] \in Priorities
      BY DEF Priorities
    <3> QED
      BY <3>1, <3>2, <3>3, <3>4 DEF Listed
  <2>3. CASE ~Known(s) /\ sessionsByPriority' = sessionsByPriority
    BY <2>2, <2>3
  <2> QED
    BY <2>1, <2>2
<1>3. Known(s)'
  BY <1>1, <1>0, ScannedType DEF Known
<1>4. Scanned(s).ended = ser[s].ended
  BY <1>0, ScannedType
<1>5. CASE Known(s)
  <2>1. Scanned(s).file = view[s].file /\ Scanned(s).cursor = view[s].cursor /\ Scanned(s).flushed = view[s].flushed
    BY <1>0, <1>5, ScannedType, ScannedFlags
  <2>2. AtEnd(s)
    BY <1>5 DEF LastInv, AtEnd
  <2>3. AtEnd(s)'
    BY <1>1, <1>2, <1>3, <1>4, <2>1, <2>2 DEF AtEnd, serEnded
  <2> QED
    BY <1>1, <1>2, <1>3, <2>3 DEF LastInv, AtEnd, Known, serEnded
<1>6. CASE ~Known(s)
  <2>1. ~Scanned(s).flushed
    BY <1>0, <1>6, ScannedFlags
  <2>2. AtEnd(s)'
    BY <1>1, <1>2, <1>3, <1>4, <2>1 DEF AtEnd, serEnded
  <2> QED
    BY <1>1, <1>2, <1>3, <2>2 DEF LastInv, AtEnd, Known, serEnded
<1> QED
  BY <1>5, <1>6

\* The session that is tailed.
LEMMA LastTail ==
  ASSUME TailInv, FlagInv, SteadyInv, LastInv, EndReadInv, tailSession \/ CopyChunk \/ updateNextSessionTmp
  PROVE  LastInv' /\ EndReadInv'
<1>0. SinkTypes /\ TailTypes /\ PlaceInv /\ ViewInv /\ SerInv /\ ClosedInv /\ ReadInv
  BY DEF TailInv, FlagInv
<1>1. PICK t \in Sessions : t = target /\ view[t] \in View /\ Known(t)
  BY <1>0 DEF tailSession, CopyChunk, updateNextSessionTmp, PlaceInv, TailTypes, Known
<1>2. target' = t /\ UNCHANGED <<ser, files, sessionsByPriority>>
  BY <1>1, CopyEffect DEF tailSession, CopyChunk, updateNextSessionTmp, locals, elected, sink, disk
<1>3. AtEnd(t) /\ view[t].file \in Nat /\ Len(files[t]) \in Nat
  BY <1>0, <1>1 DEF LastInv, AtEnd, View, SinkTypes
<1>4. ASSUME NEW v \in View, view' = [view EXCEPT ![t] = v], v.ended = view[t].ended,
             v.flushed => v.ended /\ v.file = Len(files[t]) /\ v.cursor = files[t][v.file]
      PROVE  LastInv'
  <2>1. view'[t] = v /\ \A r \in Sessions \ {t} : view'[r] = view[r]
    BY <1>0, <1>4 DEF TailTypes
  <2>2. AtEnd(t)'
    BY <1>2, <1>3, <1>4, <2>1 DEF AtEnd, serEnded, Listed
  <2>3. ASSUME NEW r \in Sessions, Known(r)'
        PROVE  AtEnd(r)'
    <3>1. CASE r = t
      BY <2>2, <3>1
    <3>2. CASE r # t
      BY <1>2, <2>1, <2>3, <3>2 DEF AtEnd, LastInv, Known, serEnded, Listed
    <3> QED
      BY <3>1, <3>2
  <2> QED
    BY <2>3 DEF LastInv, AtEnd
<1>5. ASSUME view' = view
      PROVE  LastInv'
  BY <1>2, <1>5 DEF LastInv, Known, serEnded, Listed
<1>6. CASE tailSession
  <2> DEFINE v == [view[target] EXCEPT !.tailed = TRUE]
  <2>1. v \in View /\ v.file = view[t].file /\ v.cursor = view[t].cursor /\ v.flushed = view[t].flushed /\ v.ended = view[t].ended
    BY <1>1 DEF View
  <2>2. pc' \in {"tailed", "copy"} /\ (view' = view \/ view' = [view EXCEPT ![t] = v])
    BY <1>1, <1>6 DEF tailSession, Goto
  <2> HIDE DEF v
  <2>3. LastInv'
    BY <1>3, <1>4, <1>5, <2>1, <2>2 DEF AtEnd
  <2> QED
    BY <2>2, <2>3 DEF EndReadInv
<1>7. CASE CopyChunk
  <2>1. CASE view[target].open
    <3> DEFINE size == files[target][view[target].file]
               v == [view[target] EXCEPT !.cursor = size]
    <3>1. size \in Nat /\ view' = [view EXCEPT ![t] = v] /\ pc' = "next" /\ ~view[t].flushed
      BY <1>0, <1>1, <1>7, <2>1, CopyEffect, CopyMoves DEF ClosedInv
    <3>2. v \in View /\ v.file = view[t].file /\ v.cursor = size /\ v.flushed = view[t].flushed /\ v.ended = view[t].ended
      <4> HIDE DEF size
      <4> QED
        BY <1>1, <3>1 DEF View
    <3>3. size = files[t][view[t].file]
      BY <1>1
    <3> HIDE DEF v, size
    <3>4. LastInv'
      BY <1>3, <1>4, <3>1, <3>2
    <3>5. view'[t] = v
      BY <1>0, <3>1 DEF TailTypes
    <3> QED
      BY <1>2, <3>2, <3>3, <3>4, <3>5 DEF EndReadInv
  <2>2. CASE ~view[target].open
    <3>1. view' = view /\ pc' \in {"idle", "panicked"}
      BY <1>7, <2>2, CopyEffect DEF Return
    <3> QED
      BY <1>5, <3>1 DEF EndReadInv
  <2> QED
    BY <2>1, <2>2
<1>8. CASE updateNextSessionTmp
  <2> DEFINE v == [view[target] EXCEPT !.flushed = TRUE, !.open = FALSE]
  <2>1. v \in View /\ v.file = view[t].file /\ v.cursor = view[t].cursor /\ v.flushed /\ v.ended = view[t].ended
    BY <1>1 DEF View
  <2>2. pc = "next" /\ pc' \in {"copy", "tailed"}
        /\ \/ view' = view
           \/ view[t].ended /\ ~hasNextSessionTmp(t) /\ view' = [view EXCEPT ![t] = v]
           \/ view' = [view EXCEPT ![t] = NextTmp(view[t])]
    BY <1>0, <1>1, <1>8, UpdateEffect DEF TailTypes
  <2> HIDE DEF v
  <2>3. ASSUME view[t].ended, ~hasNextSessionTmp(t), view' = [view EXCEPT ![t] = v]
        PROVE  LastInv'
    <3>1. view[t].cursor = files[t][view[t].file]
      BY <1>1, <2>2, <2>3 DEF EndReadInv
    <3>2. removed[t] = 0 /\ view[t].file # 0 /\ view[t].file <= Len(files[t])
      BY <1>0, <1>1 DEF SteadyInv, ViewInv
    <3>3. view[t].file = Len(files[t])
      BY <1>3, <2>3, <3>2 DEF hasNextSessionTmp
    <3> QED
      BY <1>4, <2>1, <2>3, <3>1, <3>3
  <2>4. ASSUME view' = [view EXCEPT ![t] = NextTmp(view[t])]
        PROVE  LastInv'
    BY <1>1, <1>4, <2>4, NextTmpType, NextTmpFlags
  <2>5. LastInv'
    BY <1>5, <2>2, <2>3, <2>4
  <2> QED
    BY <2>2, <2>5 DEF EndReadInv
<1> QED
  BY <1>6, <1>7, <1>8

\* Every step keeps the ends of the sessions.
LEMMA LastStep ==
  ASSUME TailInv, FlagInv, SteadyInv, LastInv, EndReadInv, [Next]_vars, Steady,
         ~(clearSession \/ clearSessionsMap \/ ClearReturns)
  PROVE  LastInv' /\ EndReadInv'
<1>0. SinkTypes /\ TailTypes /\ PlaceInv /\ ReadInv
  BY DEF TailInv, FlagInv
<1>1. \A s \in Sessions : serEnded(s) => serEnded(s)' /\ files'[s] = files[s]
  BY <1>0, SteadyStep
<1>2. CASE tailSession \/ CopyChunk \/ updateNextSessionTmp
  BY <1>2, LastTail
<1>3. CASE ~(tailSession \/ CopyChunk \/ updateNextSessionTmp)
  <2>1. LastInv'
    <3>1. CASE UNCHANGED <<view, sessionsByPriority>>
      <4>1. ASSUME NEW s \in Sessions, Known(s)'
            PROVE  AtEnd(s)'
        <5>1. Known(s) /\ AtEnd(s) /\ view'[s] = view[s] /\ Listed(s)'
          BY <3>1, <4>1 DEF Known, LastInv, AtEnd, Listed
        <5> QED
          BY <1>1, <5>1, LastSame
      <4> QED
        BY <4>1 DEF LastInv, AtEnd
    <3>2. ASSUME NEW s \in Sessions, ser[s] # None, view' = [view EXCEPT ![s] = Scanned(s)], UNCHANGED disk,
                 \/ Known(s) /\ sessionsByPriority' = sessionsByPriority
                 \/ sessionsByPriority' = [sessionsByPriority EXCEPT ![Priority[s]] = Append(sessionsByPriority[Priority[s]], s)]
          PROVE  LastInv'
      BY <3>2, LastRead
    <3> QED
      BY <1>3, <3>1, <3>2, ViewSteps
  <2>2. EndReadInv'
    <3>1. CASE Sink \/ Quiet \/ UNCHANGED vars
      <4>1. UNCHANGED <<view, pc, target>>
        BY <3>1 DEF Sink, Quiet, vars, locals
      <4>2. ASSUME pc = "next", view[target].ended
            PROVE  files'[target] = files[target] /\ view[target].cursor = files[target][view[target].file]
        <5>1. target \in Sessions /\ Known(target)
          BY <1>0, <4>2 DEF PlaceInv
        <5> QED
          BY <1>1, <4>2, <5>1 DEF LastInv, EndReadInv
      <4> QED
        BY <4>1, <4>2 DEF EndReadInv
    <3>2. ASSUME NEW op \in Calls, NEW names \in Names(op), Call(op, names)
          PROVE  EndReadInv'
      <4>1. pc' # "next"
        BY <3>2 DEF Call, Goto
      <4> QED
        BY <4>1 DEF EndReadInv
    <3>3. CASE Timeout \/ Work
      <4>1. pc' # "next"
        <5>1. CASE Loop
          <6>1. call.op \in {"TailOnlyBlocking", "TailSuppliedBlocking", "TailBlocking", "TailAllBlocking"}
            BY <1>0, <5>1, CallsAssumption DEF Loop, PlaceInv, Calling, Methods, Clearing
          <6> QED
            BY <5>1, <6>1 DEF Loop, Scan, Goto
        <5>2. CASE scanSessions
          BY <1>0, <5>2 DEF scanSessions, Goto, PlaceInv
        <5>3. CASE Timeout \/ tailOnce \/ electSession \/ tailedNext \/ tailedAll \/ tailedOne \/ TestEnded \/ TestFound \/ tailedSupplied
          BY <5>3 DEF Timeout, tailOnce, electSession, tailedNext, tailedAll, tailedOne, TestEnded, TestFound, tailedSupplied, Scan, Goto, Return
        <5>4. CASE electNext
          BY <5>4 DEF electNext, Elect, Goto
        <5> QED
          BY <1>3, <3>3, <5>1, <5>2, <5>3, <5>4 DEF Work
      <4> QED
        BY <4>1 DEF EndReadInv
    <3> QED
      BY <3>1, <3>2, <3>3 DEF Next
  <2> QED
    BY <2>1, <2>2
<1> QED
  BY <1>2, <1>3

\* The names before the current one, in a step of the same call.
LEMMA NamesKept ==
  ASSUME TailInv, FlagInv, SuppliedInv, [Next]_vars, Steady, pc # "idle", UNCHANGED call, call.op = "TailSuppliedBlocking"
  PROVE  \A i \in 1 .. pos - 1 : (Known(call.names[i]) /\ view[call.names[i]].flushed)'
<1>1. call.names \in Seq(Sessions) /\ pos \in 1 .. Len(call.names)
  BY DEF TailInv, PlaceInv, Calling
<1> SUFFICES ASSUME NEW i \in 1 .. pos - 1
             PROVE  (Known(call.names[i]) /\ view[call.names[i]].flushed)'
  OBVIOUS
<1>2. PICK s \in Sessions : s = call.names[i]
  BY <1>1
<1>3. Known(s) /\ view[s].flushed
  BY <1>2 DEF SuppliedInv
<1>4. Known(s)' /\ view'[s].flushed
  BY <1>3, StaysKnown, ClosedStep DEF Steady
<1> QED
  BY <1>2, <1>4 DEF Known

\* The step that ends a round of TailSuppliedBlocking.
LEMMA SuppliedRound ==
  ASSUME TailInv, FlagInv, SuppliedInv, [Next]_vars, Steady, tailedSupplied
  PROVE  SuppliedInv'
<1>1. pc = "tailed" /\ UNCHANGED call /\ call.op = "TailSuppliedBlocking" /\ pos \in Nat
  BY DEF tailedSupplied, control, Return, TailInv, TailTypes
<1>2. pc' \in {"idle", "loop"}
  BY DEF tailedSupplied, Return, Goto
<1>3. \A i \in 1 .. pos - 1 : (Known(call.names[i]) /\ view[call.names[i]].flushed)'
  BY <1>1, NamesKept
<1>4. CASE pos' = pos
  BY <1>1, <1>2, <1>3, <1>4 DEF SuppliedInv, At
<1>5. CASE KnownEnded(Name) /\ pos' = pos + 1
  <2>1. PICK s \in Sessions : s = call.names[pos]
    BY <1>1, NameType DEF TailInv, Name
  <2>2. Known(s) /\ view[s].flushed
    BY <1>1, <1>5, <2>1 DEF SuppliedInv, KnownEnded, Name
  <2>3. Known(s)' /\ view'[s].flushed
    BY <2>2, StaysKnown, ClosedStep DEF Steady
  <2>4. \A i \in 1 .. pos' - 1 : i \in 1 .. pos - 1 \/ i = pos
    BY <1>1, <1>5
  <2>5. \A i \in 1 .. pos' - 1 : (view'[call'.names[i]] # None /\ view'[call'.names[i]].flushed)
    BY <1>1, <1>3, <2>1, <2>3, <2>4 DEF Known
  <2> QED
    BY <1>1, <1>2, <2>5 DEF SuppliedInv, At, Known
<1> QED
  BY <1>4, <1>5 DEF tailedSupplied, Return, control

\* Every step of TailSuppliedBlocking keeps to the session of its name.
LEMMA SuppliedStep ==
  ASSUME TailInv, FlagInv, SuppliedInv, [Next]_vars, Steady
  PROVE  SuppliedInv'
<1>0. SinkTypes /\ TailTypes /\ PlaceInv /\ ViewInv /\ SerInv
  BY DEF TailInv
<1>1. CASE Sink \/ Quiet \/ UNCHANGED vars
  <2>1. UNCHANGED <<view, pc, ret, call, pos, target>>
    BY <1>1 DEF Sink, Quiet, vars, control, locals
  <2> QED
    BY <2>1 DEF SuppliedInv, At, Name, KnownEnded, Known
<1>2. ASSUME NEW op \in Calls, NEW names \in Names(op), Call(op, names)
      PROVE  SuppliedInv'
  <2>1. call'.op = op /\ pos' = 1 /\ (op = "TailSuppliedBlocking" => pc' \in {"idle", "loop"})
    BY <1>2 DEF Call, Goto
  <2> QED
    BY <2>1 DEF SuppliedInv, At
<1>3. ASSUME pc # "idle", UNCHANGED <<call, pos>>, call.op = "TailSuppliedBlocking",
             ~At("tailNext")', ~At("pick")',
             pc' \in {"tailSession", "copy", "next"} => target' = Name,
             pc' = "tailed" /\ KnownEnded(Name)' => view'[Name].flushed
      PROVE  SuppliedInv'
  <2>1. \A i \in 1 .. pos - 1 : (Known(call.names[i]) /\ view[call.names[i]].flushed)'
    BY <1>3, NamesKept
  <2>2. Name' = Name
    BY <1>3 DEF Name
  <2> QED
    BY <1>3, <2>1, <2>2 DEF SuppliedInv
<1>4. ASSUME UNCHANGED call, call.op # "TailSuppliedBlocking"
      PROVE  SuppliedInv'
  BY <1>4 DEF SuppliedInv
<1>5. ASSUME pc' = "idle"
      PROVE  SuppliedInv'
  BY <1>5 DEF SuppliedInv
<1>6. CASE Timeout \/ ClearReturns
  BY <1>5, <1>6 DEF Timeout, ClearReturns, Return
<1>7. CASE Loop
  <2>1. pc = "loop" /\ UNCHANGED <<call, pos>>
    BY <1>7 DEF Loop, control
  <2>2. ASSUME call.op = "TailSuppliedBlocking"
        PROVE  pc' = "scan" /\ ret' = "tailOnce"
    BY <1>7, <2>2 DEF Loop, Scan, Goto
  <2> QED
    BY <1>3, <1>4, <2>1, <2>2 DEF At
<1>8. CASE scanSessions
  <2>1. pc = "scan" /\ pc' \in {"scan", ret} /\ UNCHANGED <<call, pos, ret>> /\ ret \in {"tailOnce", "pick", "tailNext", "test", "found"}
    BY <1>0, <1>8 DEF scanSessions, Goto, control, PlaceInv
  <2>2. call.op = "TailSuppliedBlocking" => ret \notin {"pick", "tailNext"}
    BY <2>1 DEF SuppliedInv, At
  <2> QED
    BY <1>3, <1>4, <2>1, <2>2 DEF At
<1>9. CASE tailOnce
  <2>1. pc = "tailOnce" /\ UNCHANGED <<call, pos, view>> /\ target' = Name
        /\ (pc' = "tailSession" \/ (pc' = "tailed" /\ ~Known(Name)))
    BY <1>9 DEF tailOnce, control, Goto
  <2>2. ~Known(Name) => ~KnownEnded(Name)'
    BY <2>1 DEF KnownEnded, Known, Name
  <2> QED
    BY <1>3, <1>4, <2>1, <2>2 DEF At
<1>10. CASE tailSession
  <2>1. pc = "tailSession" /\ UNCHANGED <<call, pos, target>>
        /\ (pc' = "copy" \/ (pc' = "tailed" /\ Finished(view[target]) /\ view' = view))
    BY <1>10 DEF tailSession, control, Goto
  <2>2. call.op = "TailSuppliedBlocking" => target = Name
    BY <2>1 DEF SuppliedInv
  <2> QED
    BY <1>3, <1>4, <2>1, <2>2 DEF At, Finished
<1>11. CASE CopyChunk
  <2>1. pc = "copy" /\ ((pc' \in {"next", "panicked"} /\ UNCHANGED <<call, pos, target>>) \/ pc' = "idle")
    BY <1>11, CopyEffect DEF Return, control, locals
  <2>2. call.op = "TailSuppliedBlocking" => target = Name
    BY <2>1 DEF SuppliedInv
  <2> QED
    BY <1>3, <1>4, <1>5, <2>1, <2>2 DEF At
<1>12. CASE updateNextSessionTmp
  <2>1. PICK t \in Sessions : t = target /\ view[t] \in View
    BY <1>0, <1>12 DEF updateNextSessionTmp, PlaceInv, TailTypes, Known
  <2>2. pc = "next" /\ UNCHANGED <<call, pos, target>>
        /\ \/ pc' = "copy"
           \/ pc' = "tailed" /\ view' = view /\ ~view[t].ended
           \/ pc' = "tailed" /\ view' = [view EXCEPT ![target].flushed = TRUE, ![target].open = FALSE]
    BY <1>12, <2>1 DEF updateNextSessionTmp, control, Goto
  <2>3. ASSUME view' = [view EXCEPT ![target].flushed = TRUE, ![target].open = FALSE]
        PROVE  view'[t].flushed
    <3>1. view'[t] = [view[t] EXCEPT !.flushed = TRUE, !.open = FALSE]
      BY <1>0, <2>1, <2>3 DEF TailTypes
    <3> QED
      BY <2>1, <3>1 DEF View
  <2>4. call.op = "TailSuppliedBlocking" => target = Name
    BY <2>2 DEF SuppliedInv
  <2>5. call.op = "TailSuppliedBlocking" => Name' = t
    BY <2>1, <2>2, <2>4 DEF Name
  <2>6. call.op = "TailSuppliedBlocking" /\ pc' = "tailed" /\ KnownEnded(Name)' => view'[t].flushed
    BY <2>2, <2>3, <2>5 DEF KnownEnded
  <2> QED
    BY <1>3, <1>4, <2>1, <2>2, <2>4, <2>6 DEF At
<1>13. CASE electSession
  <2>1. pc = "tailNext" /\ UNCHANGED call
    BY <1>13 DEF electSession, control
  <2> QED
    BY <1>4, <2>1 DEF SuppliedInv, At
<1>14. CASE electNext
  <2>1. pc = "pick" /\ UNCHANGED call
    BY <1>14 DEF electNext, control
  <2> QED
    BY <1>4, <2>1 DEF SuppliedInv, At
<1>15. CASE tailedNext \/ tailedAll \/ tailedOne
  <2>1. UNCHANGED call /\ call.op # "TailSuppliedBlocking"
    BY <1>15 DEF tailedNext, tailedAll, tailedOne, Return, control
  <2> QED
    BY <1>4, <2>1
<1>16. CASE TestEnded \/ TestFound
  <2>1. UNCHANGED call /\ call.op # "TailSuppliedBlocking"
    BY <1>0, <1>16 DEF TestEnded, TestFound, Return, control, PlaceInv, At
  <2> QED
    BY <1>4, <2>1
<1>17. CASE tailedSupplied
  BY <1>17, SuppliedRound
<1>18. CASE clearSession \/ clearSessionsMap
  <2>1. UNCHANGED call /\ call.op # "TailSuppliedBlocking"
    BY <1>0, <1>18 DEF clearSession, clearSessionsMap, Return, control, PlaceInv, Clearing
  <2> QED
    BY <1>4, <2>1
<1> QED
  BY <1>1, <1>2, <1>6, <1>7, <1>8, <1>9, <1>10, <1>11, <1>12, <1>13, <1>14, <1>15, <1>16, <1>17, <1>18 DEF Next, Work

\* TailAllBlocking waits for a session that is not ended only.
LEMMA AllStep ==
  ASSUME TailInv, ElectedInv, LastInv, AllInv, [Next]_vars, Steady
  PROVE  AllInv'
<1>0. SinkTypes /\ TailTypes /\ PlaceInv /\ ViewInv /\ SerInv
  BY DEF TailInv
<1>1. CASE Sink \/ Quiet \/ UNCHANGED vars
  <2>1. UNCHANGED <<view, pc, call, electedSession>>
    BY <1>1 DEF Sink, Quiet, vars, control, elected
  <2> QED
    BY <2>1 DEF AllInv, Known, ElectedEnded
<1>2. ASSUME NEW op \in Calls, NEW names \in Names(op), Call(op, names)
      PROVE  AllInv'
  <2>1. call'.op = op /\ (op = "TailAllBlocking" => pc' = "tailNext")
    BY <1>2 DEF Call, Goto
  <2> QED
    BY <2>1 DEF AllInv
<1>3. ASSUME pc' \notin {"tailed", "loop"}
      PROVE  AllInv'
  BY <1>3 DEF AllInv
<1>4. ASSUME UNCHANGED call, call.op # "TailAllBlocking"
      PROVE  AllInv'
  BY <1>4 DEF AllInv
<1>5. CASE Timeout \/ ClearReturns \/ electSession \/ tailedNext \/ clearSession
  <2>1. pc' \notin {"tailed", "loop"}
    BY <1>5 DEF Timeout, ClearReturns, electSession, tailedNext, clearSession, Scan, Return, Goto
  <2> QED
    BY <1>3, <2>1
<1>6. CASE Loop
  <2>1. UNCHANGED call
    BY <1>6 DEF Loop, control
  <2>2. call.op = "TailAllBlocking" => pc' \notin {"tailed", "loop"}
    BY <1>6 DEF Loop, Scan, Goto
  <2> QED
    BY <1>3, <1>4, <2>1, <2>2
<1>7. CASE scanSessions
  BY <1>0, <1>3, <1>7 DEF scanSessions, Goto, PlaceInv
<1>8. CASE tailOnce \/ tailedSupplied \/ TestEnded \/ TestFound
  <2>1. UNCHANGED call /\ call.op # "TailAllBlocking"
    BY <1>0, <1>8 DEF tailOnce, tailedSupplied, TestEnded, TestFound, Return, control, PlaceInv, At
  <2> QED
    BY <1>4, <2>1
<1>9. CASE tailSession \/ CopyChunk \/ updateNextSessionTmp
  <2>1. pc \in {"tailSession", "copy", "next"} /\ pc' # "loop" /\ (pc' = "idle" \/ UNCHANGED call) /\ UNCHANGED electedSession
    BY <1>9, CopyEffect DEF tailSession, updateNextSessionTmp, Goto, Return, control, elected
  <2>2. target \in Sessions
    BY <1>0, <2>1 DEF PlaceInv
  <2>3. call.op = "TailAllBlocking" => electedSession' # None
    BY <2>1, <2>2, NoneAssumption DEF ElectedInv, Elections
  <2> QED
    BY <2>1, <2>3 DEF AllInv
<1>10. CASE electNext
  <2>1. UNCHANGED <<call, view>> /\ pc = "pick"
    BY <1>10 DEF electNext, control
  <2>2. pc' = "tailSession" \/ (pc' = "tailed" /\ \A s \in Sessions : ~Eligible(s))
    BY <1>10 DEF electNext, Elect, Goto
  <2>3. ASSUME NEW s \in Sessions, Known(s), view[s].started, ~Eligible(s)
        PROVE  view[s].flushed
    BY <2>3 DEF Eligible, LastInv
  <2> QED
    BY <2>1, <2>2, <2>3 DEF AllInv, Known
<1>11. CASE tailedAll
  <2>1. pc = "tailed" /\ call.op = "TailAllBlocking" /\ ~ElectedEnded /\ UNCHANGED <<view, call, electedSession>>
    BY <1>11 DEF tailedAll, elected, control, Return
  <2> QED
    BY <2>1 DEF AllInv, Known, ElectedEnded
<1>12. CASE tailedOne
  <2>1. UNCHANGED call /\ call.op # "TailAllBlocking"
    BY <1>12 DEF tailedOne, control
  <2> QED
    BY <1>4, <2>1
<1>13. CASE clearSessionsMap
  <2>1. pc' \notin {"tailed", "loop"}
    BY <1>13 DEF clearSessionsMap, Return, Goto
  <2> QED
    BY <1>3, <2>1
<1> QED
  BY <1>1, <1>2, <1>5, <1>6, <1>7, <1>8, <1>9, <1>10, <1>11, <1>12, <1>13 DEF Next, Work

\* When nothing is left of a session, everything is output of it.
LEMMA AllTailed ==
  ASSUME EverythingInv, NEW s \in Sessions, Known(s), view[s].flushed
  PROVE  Tailed(s)
<1>0. TailInv /\ SinkTypes /\ TailTypes /\ ViewInv /\ CopiedInv /\ SteadyInv /\ LastInv
  BY DEF EverythingInv, TurnsInv, TailInv, OrderInv
<1>1. /\ removed[s] = 0 /\ files[s] \in Seq(Nat)
      /\ view[s].file \in Nat /\ view[s].file # 0
      /\ view[s].file = Len(files[s]) /\ view[s].cursor = files[s][view[s].file]
  BY <1>0 DEF SteadyInv, SinkTypes, TailTypes, ViewInv, View, LastInv, Known
<1>2. ASSUME NEW run \in 1 .. Len(files[s]), NEW n \in 1 .. files[s][run]
      PROVE  Has(out, s, run, n)
  <2>1. CASE run = view[s].file
    BY <1>0, <1>1, <1>2, <2>1 DEF CopiedInv
  <2>2. CASE run # view[s].file
    <3>1. run \in removed[s] + 1 .. view[s].file - 1
      BY <1>1, <1>2, <2>2
    <3>2. view[s].file > 0
      BY <1>1
    <3> QED
      BY <1>0, <1>2, <3>1, <3>2 DEF CopiedInv
  <2> QED
    BY <2>1, <2>2
<1>3. \A run, n : Has(out, s, run, n) => [session |-> s, run |-> run, number |-> n] \in Range(out)
  <2>1. DOMAIN out = 1 .. Len(out)
    BY <1>0 DEF TailTypes
  <2> QED
    BY <2>1 DEF Has, Range
<1>4. DOMAIN files[s] = 1 .. Len(files[s])
  BY <1>1
<1> QED
  BY <1>2, <1>3, <1>4 DEF Tailed

\* Every step of a steady tailer keeps the invariant.
LEMMA EverythingStep ==
  ASSUME EverythingInv, [Next]_vars, Steady
  PROVE  EverythingInv'
<1>0. /\ TurnsInv /\ OrderInv /\ SteadyInv /\ LastInv /\ EndReadInv /\ SuppliedInv /\ AllInv
      /\ TailInv /\ FlagInv /\ ElectedInv /\ SinkTypes /\ PlaceInv
  BY DEF EverythingInv, TurnsInv, TurnInv, TailInv
<1>1. ~(clearSession \/ clearSessionsMap \/ ClearReturns)
  BY <1>0 DEF clearSession, clearSessionsMap, ClearReturns, PlaceInv, Calling, Steady
<1>2. TurnsInv'
  BY <1>0, TurnsStep DEF Steady
<1>3. OrderInv'
  BY <1>0, OrderStep DEF Steady
<1>4. SteadyInv'
  BY <1>0, <1>1, SteadyStep
<1>5. LastInv' /\ EndReadInv'
  BY <1>0, <1>1, LastStep
<1>6. SuppliedInv'
  BY <1>0, SuppliedStep
<1>7. AllInv'
  BY <1>0, AllStep
<1> QED
  BY <1>2, <1>3, <1>4, <1>5, <1>6, <1>7 DEF EverythingInv

\* Initially there is no session.
LEMMA EverythingInit ==
  ASSUME Init
  PROVE  EverythingInv
<1>1. TurnsInv /\ OrderInv
  BY TurnsInit, OrderInit
<1>2. SteadyInv /\ LastInv
  BY DEF Init, SteadyInv, LastInv, serEnded, Known
<1>3. EndReadInv /\ SuppliedInv /\ AllInv
  BY DEF Init, EndReadInv, SuppliedInv, AllInv
<1> QED
  BY <1>1, <1>2, <1>3 DEF EverythingInv

\* TailSuppliedBlocking returns after its last name.
LEMMA SuppliedReturns ==
  ASSUME EverythingInv, [Next]_vars, Steady,
         pc # "idle", pc' = "idle", result' = "ok", call.op = "TailSuppliedBlocking"
  PROVE  \A i \in DOMAIN call.names : Tailed(call.names[i])'
<1>0. /\ TailInv /\ FlagInv /\ SuppliedInv /\ PlaceInv /\ TailTypes
      /\ call.names \in Seq(Sessions) /\ pos \in 1 .. Len(call.names)
  BY DEF EverythingInv, TurnsInv, TailInv, PlaceInv, Calling
<1>1. tailedSupplied
  <2>1. ~(Sink \/ Quiet \/ UNCHANGED vars \/ \E op \in Calls : \E n \in Names(op) : Call(op, n))
    BY DEF Sink, Quiet, vars, Call
  <2>2. ~(Timeout \/ tailedAll \/ tailedOne)
    BY DEF Timeout, tailedAll, tailedOne, Return
  <2>3. ~Loop
    BY DEF Loop, Scan, Goto
  <2>4. ~scanSessions
    BY <1>0 DEF scanSessions, Goto, PlaceInv
  <2>5. ~(tailOnce \/ tailSession \/ updateNextSessionTmp \/ electSession \/ tailedNext)
    BY DEF tailOnce, tailSession, updateNextSessionTmp, electSession, tailedNext, Scan, Goto
  <2>6. ~CopyChunk
    BY CopyEffect DEF Return
  <2>7. ~electNext
    BY DEF electNext, Elect, Goto
  <2>8. ~(TestEnded \/ TestFound \/ clearSession \/ clearSessionsMap \/ ClearReturns)
    BY <1>0 DEF TestEnded, TestFound, clearSession, clearSessionsMap, ClearReturns, PlaceInv, At, Clearing
  <2> QED
    BY <2>1, <2>2, <2>3, <2>4, <2>5, <2>6, <2>7, <2>8 DEF Next, Work
<1>2. KnownEnded(Name) /\ pos = Len(call.names) /\ pc = "tailed"
  <2>1. KnownEnded(Name) /\ pc = "tailed"
    BY <1>1 DEF tailedSupplied, Goto
  <2>2. ~(pos < Len(call.names))
    BY <1>1, <2>1 DEF tailedSupplied, Goto
  <2>3. Len(call.names) \in Nat
    BY <1>0
  <2> QED
    BY <1>0, <2>1, <2>2, <2>3
<1>3. UNCHANGED <<call, files, out>>
  BY <1>1 DEF tailedSupplied, tailNotifications, output, Return, control, sink, disk
<1> SUFFICES ASSUME NEW i \in DOMAIN call.names
             PROVE  Tailed(call.names[i])'
  OBVIOUS
<1>4. PICK s \in Sessions : s = call.names[i]
  BY <1>0
<1>5. i \in 1 .. pos - 1 \/ i = pos
  BY <1>0, <1>2
<1>6. Known(s) /\ view[s].flushed
  <2>1. CASE i \in 1 .. pos - 1
    BY <1>0, <1>4, <2>1 DEF SuppliedInv
  <2>2. CASE i = pos
    BY <1>0, <1>2, <1>4, <2>2 DEF SuppliedInv, Name, KnownEnded
  <2> QED
    BY <1>5, <2>1, <2>2
<1>7. Tailed(s)
  BY <1>6, AllTailed
<1>8. Tailed(s)'
  BY <1>3, <1>7 DEF Tailed
<1> QED
  BY <1>3, <1>4, <1>8 DEF Tailed

\* TailAllBlocking finds that no session is left to wait for.
LEMMA AllReturns ==
  ASSUME EverythingInv, [Next]_vars, notEnded, ~notEnded', call.op = "TailAllBlocking",
         NEW s \in Sessions, Known(s), view[s].started
  PROVE  Tailed(s)
<1>0. TailInv /\ AllInv /\ TailTypes /\ SerInv
  BY DEF EverythingInv, TurnsInv, TailInv
<1>1. Loop
  <2>1. CASE Sink \/ Timeout \/ scanSessions \/ tailOnce \/ tailSession \/ updateNextSessionTmp \/ electSession \/ electNext
             \/ tailedNext \/ tailedAll \/ tailedOne \/ TestEnded \/ TestFound \/ tailedSupplied
             \/ clearSession \/ clearSessionsMap \/ ClearReturns \/ Quiet \/ UNCHANGED vars
    BY <2>1 DEF Sink, Timeout, scanSessions, tailOnce, tailSession, updateNextSessionTmp, electSession, electNext,
                tailedNext, tailedAll, tailedOne, TestEnded, TestFound, tailedSupplied, clearSession, clearSessionsMap, ClearReturns,
                Quiet, vars, locals
  <2>2. ~CopyChunk
    BY CopyEffect DEF locals
  <2>3. ~(\E op \in Calls : \E n \in Names(op) : Call(op, n))
    BY DEF Call
  <2> QED
    BY <2>1, <2>2, <2>3 DEF Next, Work
<1>2. pc = "loop" /\ \A r \in Sessions : Known(r) => view[r].ended
  BY <1>1 DEF Loop
<1>3. electedSession = None
  BY <1>0, <1>2 DEF AllInv, ElectedEnded, SerInv, TailTypes
<1>4. view[s].flushed
  BY <1>0, <1>2, <1>3 DEF AllInv
<1> QED
  BY <1>4, AllTailed

\* When TailSuppliedBlocking returns, everything of its sessions is output;
\* when TailAllBlocking finds that no session is left to wait for, everything
\* of the sessions it knows is output, if they were started: with one restart
\* of the sink, a sink that opens no session again, and no resync nor clear.
THEOREM EverythingIsTailed ==
  ASSUME Steady
  PROVE  Spec => EverythingTailed
<1>1. Init => EverythingInv
  BY EverythingInit
<1>2. EverythingInv /\ [Next]_vars => EverythingInv'
  BY EverythingStep
<1> DEFINE Returns == (pc # "idle" /\ pc' = "idle" /\ result' = "ok" /\ call.op = "TailSuppliedBlocking")
                         => \A i \in DOMAIN call.names : Tailed(call.names[i])'
           Waits   == (notEnded /\ ~notEnded' /\ call.op = "TailAllBlocking")
                         => \A s \in Sessions : (Known(s) /\ view[s].started) => Tailed(s)
<1>3. EverythingInv /\ [Next]_vars => Returns
  BY SuppliedReturns
<1>4. EverythingInv /\ [Next]_vars => Waits
  BY AllReturns
<1>5. EverythingInv /\ [Next]_vars => [Returns /\ Waits]_vars
  BY <1>3, <1>4
<1> QED
  BY <1>1, <1>2, <1>5, PTL DEF Spec, EverythingTailed
=============================================================================
