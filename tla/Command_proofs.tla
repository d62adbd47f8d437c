--------------------------- MODULE Command_proofs ---------------------------
(***************************************************************************)
(* Proofs about Command, for every tree of commands, sequences and pipes,  *)
(* every number of runs and every exit code: an error has a cause, a run   *)
(* that has returned leaves commands running only where a parallel         *)
(* sequence was rejected, one that returns 0 has succeeded everywhere it   *)
(* had to, and the first run puts back the streams it has replaced.        *)
(*                                                                         *)
(* What is computed on a tree is defined by recursion: Recursion says that *)
(* such a function exists, and facts about every node are proved of a node *)
(* that has no child for which they fail.                                  *)
(***************************************************************************)
EXTENDS Command, Recursion, TLAPS

-----------------------------------------------------------------------------
(* The inductive invariant.                                                *)

Labels == {"idle", "called", "feeding", "start", "attempt", "waiting", "draining", "reading", "returned"}

\* what a node returns: a code and an error
IsResult(r) ==
  r = [rc |-> r.rc, err |-> r.err, code |-> r.code] /\ r.err \in {"none", "error", "failure"}

\* The variables have their types, and a node is where its kind can be.
TypeInv ==
  /\ prog \in Programs
  /\ pc \in [Nodes -> Labels \cup {"exited"}]
  /\ res = [n \in Nodes |-> res[n]] /\ \A n \in Nodes : IsResult(res[n])
  /\ next \in [Nodes -> Nat]
  /\ used \in [Nodes -> BOOLEAN] /\ checkpoint \in [Nodes -> BOOLEAN]

Place(n, place, i) ==
  /\ place \in {"start", "attempt"} => Kind(n) = "cmd"
  /\ place = "feeding" => (Kind(n) = "pipe" /\ ~Inner[n]) \/ (Kind(n) = "cmd" /\ Kids(n) # <<>>)
  /\ place = "draining" => Kind(n) = "pipe"
  /\ place = "reading" => Kind(n) = "output"
  /\ place = "waiting" => Kind(n) \in Seqs /\ i \in 1 .. Len(Kids(n))

PlaceInv == \A n \in Nodes : Place(n, pc[n], next[n])

\* When every command can start, and none has a timeout, none is started twice
\* and no error is returned.
Flawless == prog.missing \cup prog.timeout = {}
CauseInv ==
  Flawless =>
    /\ done = {}
    /\ \A n \in Nodes : used[n] = FALSE /\ checkpoint[n] = FALSE /\ res[n].err # "error"

Running(n) == pc[n] \notin {"idle", "returned", "exited"}

\* the children that n waits for, and those it has not called yet, when it is at
\* place with its i-th child
Calling(n, place, i) ==
  {k \in ToSet(Kids(n)) :
    \/ place = "feeding" /\ k = Feeder(n)
    \/ place \in {"draining", "reading"} /\ k = Sink(n)
    \/ place = "waiting" /\ (Kind(n) = "parallel" \/ k = Kids(n)[i])}
Uncalled(n, place, i) ==
  {k \in ToSet(Kids(n)) :
    \/ place \in {"idle", "called"}
    \/ place = "feeding" /\ k # Feeder(n)
    \/ place = "waiting" /\ Kind(n) # "parallel" /\ \E j \in 1 .. Len(Kids(n)) : j > i /\ k = Kids(n)[j]}

\* a promise of n is rejected
Rejects(n)   == Kind(n) = "parallel" /\ \E k \in ToSet(Kids(n)) : Returned(k) /\ res[k].err # "none"
Rejecting(n) == Returned(n) /\ Rejects(n)

\* A node runs when the one above it waits for it, or has given up waiting.
TreeInv ==
  /\ \A n \in Nodes : \A k \in Uncalled(n, pc[n], next[n]) : pc[k] = "idle"
  /\ \A n \in Nodes : \A k \in ToSet(Kids(n)) : Running(k) => k \in Calling(n, pc[n], next[n]) \/ Rejecting(n)
  /\ \A k \in Nodes : Running(k) => k = prog.root \/ \E n \in Nodes : k \in ToSet(Kids(n))

\* The process exits as a whole.
ExitInv == \A m, n \in Nodes : pc[m] = "exited" => pc[n] = "exited"

CommandInv == TypeInv /\ PlaceInv /\ CauseInv /\ TreeInv /\ ExitInv

\* a step of n
Aborts(n) == \E c \in {0, Code[n], -1} : Abort(n, c)
Acts(n) ==
  \/ Feed(n) \/ Fed(n) \/ Start(n) \/ Aborts(n)
  \/ \E c \in {0, Code[n], -1} : Attempt(n, c)
  \/ SerialRun(n) \/ OrRun(n) \/ ParallelRun(n)
  \/ SerialNext(n) \/ OrNext(n) \/ Resolved(n) \/ Rejected(n)
  \/ PipeRun(n) \/ PipeFed(n) \/ SinkRun(n) \/ PipeDrained(n)
  \/ OutputRun(n) \/ OutputReturns(n)

LEMMA InnerSame ==
  ASSUME prog' = prog
  PROVE  Inner' = Inner
BY Zenon DEF Inner, Kind, Kids

LEMMA StepActs == Step => \E n \in Nodes : Acts(n) \/ Exit(n)
BY Zenon DEF Step, Acts, Aborts

-----------------------------------------------------------------------------
(* The trees.                                                              *)

LEMMA SequenceFacts ==
  ASSUME NEW S, NEW s \in Seq(S)
  PROVE  /\ Len(s) \in Nat /\ ToSet(s) = {s[i] : i \in 1 .. Len(s)} /\ ToSet(s) \subseteq S
         /\ \A i \in 1 .. Len(s) : s[i] \in S
         /\ s # <<>> => Len(s) > 0 /\ Head(s) = s[1] /\ Last(s) = s[Len(s)]
         /\ IsInjective(s) => \A i, j \in 1 .. Len(s) : s[i] = s[j] => i = j
  BY DEF ToSet, Last, IsInjective

\* What a node has under it, in its kind.
LEMMA Family ==
  ASSUME NEW p \in Programs, NEW n \in Nodes
  PROVE  /\ p.kids[n] \in Seq(Nodes) /\ Len(p.kids[n]) \in Nat
         /\ ToSet(p.kids[n]) = {p.kids[n][i] : i \in 1 .. Len(p.kids[n])} /\ ToSet(p.kids[n]) \subseteq Nodes
         /\ \A i, j \in 1 .. Len(p.kids[n]) : p.kids[n][i] = p.kids[n][j] => i = j
         /\ p.kids[n] # <<>> => Len(p.kids[n]) > 0
         /\ n \notin ToSet(p.kids[n]) /\ p.root \notin ToSet(p.kids[n])
         /\ p.kind[n] \in Kinds /\ p.root \in Nodes
         /\ p.retries[n] \in Nat
<1>1. p.kids[n] \in Seq(Nodes) /\ p.kind[n] \in Kinds /\ p.root \in Nodes /\ p.retries[n] \in Nat
  BY ProgramsAssumption
<1>2. IsInjective(p.kids[n]) /\ p.root \notin ToSet(p.kids[n])
  BY TreesAssumption
<1>3. n \notin ToSet(p.kids[n])
  <2>0. n \in {n} /\ {n} \subseteq Nodes
    OBVIOUS
  <2>1. {n} \in (SUBSET Nodes) \ {{}}
    BY <2>0, Zenon
  <2>2. \E k \in {n} : \A m \in {n} : k \notin ToSet(p.kids[m])
    BY <2>1, TreesAssumption
  <2> QED
    BY <2>2
<1> QED
  BY <1>1, <1>2, <1>3, SequenceFacts

LEMMA SequenceEnds ==
  ASSUME NEW S, NEW s \in Seq(S), s # <<>>, IsInjective(s)
  PROVE  /\ Head(s) = s[1] /\ Last(s) = s[Len(s)]
         /\ Head(s) \in S /\ Last(s) \in S /\ Head(s) \in ToSet(s) /\ Last(s) \in ToSet(s)
         /\ Len(s) <= 1 => ToSet(s) = {Head(s)} /\ Last(s) = Head(s)
         /\ Len(s) = 2 => ToSet(s) = {Head(s), Last(s)} /\ Head(s) # Last(s)
<1>1. /\ Len(s) \in Nat /\ ToSet(s) = {s[i] : i \in 1 .. Len(s)} /\ Len(s) > 0
      /\ \A i, j \in 1 .. Len(s) : s[i] = s[j] => i = j
      /\ Head(s) = s[1] /\ Last(s) = s[Len(s)] /\ \A i \in 1 .. Len(s) : s[i] \in S
  BY SequenceFacts
<1>2. Len(s) <= 1 => ToSet(s) = {Head(s)} /\ Last(s) = Head(s)
  BY <1>1
<1>3. Len(s) = 2 => ToSet(s) = {Head(s), Last(s)} /\ Head(s) # Last(s)
  <2> SUFFICES ASSUME Len(s) = 2
               PROVE  ToSet(s) = {Head(s), Last(s)} /\ Head(s) # Last(s)
    OBVIOUS
  <2>1. \A i \in 1 .. Len(s) : i = 1 \/ i = 2
    OBVIOUS
  <2> QED
    BY <1>1, <2>1
<1>4. Head(s) \in S /\ Last(s) \in S /\ Head(s) \in ToSet(s) /\ Last(s) \in ToSet(s)
  BY <1>1
<1> QED
  BY <1>1, <1>2, <1>3, <1>4

LEMMA Ends ==
  ASSUME NEW p \in Programs, NEW n \in Nodes, p.kids[n] # <<>>
  PROVE  /\ Head(p.kids[n]) = p.kids[n][1] /\ Last(p.kids[n]) = p.kids[n][Len(p.kids[n])]
         /\ Head(p.kids[n]) \in Nodes /\ Last(p.kids[n]) \in Nodes
         /\ Head(p.kids[n]) \in ToSet(p.kids[n]) /\ Last(p.kids[n]) \in ToSet(p.kids[n])
         /\ p.kind[n] \in {"cmd", "output"} =>
              ToSet(p.kids[n]) = {Head(p.kids[n])} /\ Last(p.kids[n]) = Head(p.kids[n])
         /\ p.kind[n] = "pipe" => /\ ToSet(p.kids[n]) = {Head(p.kids[n]), Last(p.kids[n])}
                                  /\ Head(p.kids[n]) # Last(p.kids[n])
<1>1. p.kids[n] \in Seq(Nodes)
  BY ProgramsAssumption
<1>2. /\ IsInjective(p.kids[n])
      /\ p.kind[n] = "cmd" => Len(p.kids[n]) <= 1
      /\ p.kind[n] = "output" => Len(p.kids[n]) = 1
      /\ p.kind[n] = "pipe" => Len(p.kids[n]) = 2
  BY TreesAssumption
<1>3. Len(p.kids[n]) = 1 => Len(p.kids[n]) <= 1
  OBVIOUS
<1>4. p.kind[n] \in {"cmd", "output"} => Len(p.kids[n]) <= 1
  BY <1>2, <1>3
<1> QED
  BY <1>1, <1>2, <1>4, SequenceEnds, Zenon

\* The kinds that have children.
LEMMA HasKids ==
  ASSUME NEW p \in Programs, NEW n \in Nodes, p.kind[n] \in {"pipe", "output"}
  PROVE  p.kids[n] # <<>>
<1>1. Len(p.kids[n]) = 2 \/ Len(p.kids[n]) = 1
  BY TreesAssumption
<1>2. \A s \in Seq(Nodes) : Len(s) = 2 \/ Len(s) = 1 => s # <<>>
  <2>1. Len(<<>>) = 0
    OBVIOUS
  <2>2. 0 # 1 /\ 0 # 2
    OBVIOUS
  <2> QED
    BY <2>1, <2>2, Zenon
<1>3. p.kids[n] \in Seq(Nodes)
  BY Family
<1> QED
  BY <1>1, <1>2, <1>3, Zenon

\* A node is under one node at most.
LEMMA OneParent ==
  ASSUME NEW p \in Programs, NEW m \in Nodes, NEW n \in Nodes, NEW k \in ToSet(p.kids[m]), k \in ToSet(p.kids[n])
  PROVE  m = n
BY TreesAssumption

-----------------------------------------------------------------------------
(* The steps of a node.                                                    *)

LEMMA ResultFacts ==
  /\ \A rc : IsResult(Ok(rc)) /\ Ok(rc).err = "none"
  /\ \A rc : IsResult(Error(rc)) /\ Error(rc).err = "error"
  /\ \A rc, code : IsResult(Failure(rc, code)) /\ Failure(rc, code).err = "failure"
  /\ \A r : IsResult(r) => IsResult([r EXCEPT !.rc = -1]) /\ [r EXCEPT !.rc = -1].err = r.err
<1>1. \A rc : IsResult(Ok(rc)) /\ Ok(rc).err = "none"
  BY DEF IsResult, Ok
<1>2. \A rc : IsResult(Error(rc)) /\ Error(rc).err = "error"
  BY DEF IsResult, Error
<1>3. \A rc, code : IsResult(Failure(rc, code)) /\ Failure(rc, code).err = "failure"
  BY DEF IsResult, Failure
<1>4. ASSUME NEW r, IsResult(r)
      PROVE  IsResult([r EXCEPT !.rc = -1]) /\ [r EXCEPT !.rc = -1].err = r.err
  <2>1. PICK x, y, z : r = [rc |-> x, err |-> y, code |-> z] /\ y \in {"none", "error", "failure"}
    BY <1>4 DEF IsResult
  <2>2. [r EXCEPT !.rc = -1] = [rc |-> -1, err |-> y, code |-> z] /\ r.err = y
    BY <2>1
  <2> QED
    BY <2>1, <2>2 DEF IsResult
<1> QED
  BY <1>1, <1>2, <1>3, <1>4

\* n goes to place, calls some of its children, and returns r if it returns;
\* the child it waits for is the i-th.
Moves(n, place, called, r, i) ==
  /\ prog' = prog
  /\ pc' = [k \in Nodes |-> IF k = n THEN place ELSE IF k \in called THEN "called" ELSE pc[k]]
  /\ res' = [res EXCEPT ![n] = r]
  /\ next' = [next EXCEPT ![n] = i]

\* n runs, it calls children that it has not called, and does not leave one
\* running unless it is rejected; it returns an error if there is a cause.
Fits(n, place, called, r, i) ==
  /\ Running(n) /\ Place(n, place, i)
  /\ called \subseteq Uncalled(n, pc[n], next[n])
  /\ Uncalled(n, place, i) \subseteq Uncalled(n, pc[n], next[n]) \ called
  /\ \A k \in ToSet(Kids(n)) :
       k \in called \/ Running(k) => k \in Calling(n, place, i) \/ (place = "returned" /\ Rejects(n))
  /\ Flawless => r.err # "error"

StepOf(n) ==
  \E r : \E place \in Labels \ {"idle"}, called \in SUBSET Nodes, i \in Nat :
    IsResult(r) /\ Moves(n, place, called, r, i) /\ Fits(n, place, called, r, i)

-----------------------------------------------------------------------------
(* Types.                                                                  *)

LEMMA InitCommand == Init => CommandInv
<1> SUFFICES ASSUME Init
             PROVE  CommandInv
  OBVIOUS
<1>1. TypeInv
  <2>1. IsResult(Ok(0))
    BY ResultFacts
  <2> QED
    BY <2>1, Zenon DEF Init, TypeInv, Labels
<1>2. PlaceInv
  BY DEF Init, PlaceInv, Place
<1>3. CauseInv
  <2>1. \A n \in Nodes : res[n].err # "error"
    BY ResultFacts DEF Init
  <2> QED
    BY <2>1 DEF Init, CauseInv
<1>4. TreeInv
  <2>1. prog \in Programs /\ \A n \in Nodes : pc[n] = "idle"
    BY DEF Init
  <2>2. \A n \in Nodes : Uncalled(n, pc[n], next[n]) \subseteq Nodes
    BY <2>1, Family DEF Uncalled, Kids
  <2>3. \A n \in Nodes : \A k \in ToSet(Kids(n)) : k \in Nodes
    BY <2>1, Family DEF Kids
  <2> QED
    BY <2>1, <2>2, <2>3 DEF TreeInv, Running
<1>5. ExitInv
  BY DEF Init, ExitInv
<1> QED
  BY <1>1, <1>2, <1>3, <1>4, <1>5 DEF CommandInv

-----------------------------------------------------------------------------
(* What a step of a node keeps.                                            *)

\* The nodes under another node than n are not those that n calls.
LEMMA Others ==
  ASSUME TypeInv, TreeInv, NEW n \in Nodes, Running(n),
         NEW called \in SUBSET Nodes, called \subseteq Uncalled(n, pc[n], next[n])
  PROVE  /\ n \notin called /\ called \subseteq ToSet(Kids(n))
         /\ \A k \in called : pc[k] = "idle" /\ k \in Nodes
         /\ \A m \in Nodes : \A k \in ToSet(Kids(m)) : k \in called => m = n
<1>1. prog \in Programs
  BY DEF TypeInv
<1>2. called \subseteq ToSet(Kids(n))
  BY DEF Uncalled
<1>3. n \notin called
  BY <1>1, <1>2, Family DEF Kids
<1>4. \A m \in Nodes : \A k \in ToSet(Kids(m)) : k \in called => m = n
  BY <1>1, <1>2, OneParent DEF Kids
<1>5. \A k \in called : pc[k] = "idle"
  BY DEF TreeInv
<1> QED
  BY <1>2, <1>3, <1>4, <1>5

LEMMA StepKeepsTypes ==
  ASSUME TypeInv, PlaceInv, NEW n \in Nodes, NEW r, NEW place \in Labels, NEW called \in SUBSET Nodes,
         NEW i \in Nat, IsResult(r), Moves(n, place, called, r, i), Place(n, place, i), n \notin called,
         used' \in [Nodes -> BOOLEAN], checkpoint' \in [Nodes -> BOOLEAN]
  PROVE  TypeInv' /\ PlaceInv'
<1>1. /\ prog' = prog /\ pc' \in [Nodes -> Labels \cup {"exited"}] /\ next' \in [Nodes -> Nat]
      /\ \A k \in Nodes : pc'[k] = IF k = n THEN place ELSE IF k \in called THEN "called" ELSE pc[k]
      /\ \A k \in Nodes : next'[k] = IF k = n THEN i ELSE next[k]
  BY DEF Moves, TypeInv, Labels
<1>2. res' = [k \in Nodes |-> res'[k]] /\ \A k \in Nodes : res'[k] = IF k = n THEN r ELSE res[k]
  BY DEF Moves, TypeInv
<1>3. \A k \in Nodes : IsResult(res'[k])
  BY <1>2, Zenon DEF TypeInv
<1>4. TypeInv'
  <2>1. \A k \in Nodes : IsResult(res[k])'
    BY <1>3 DEF IsResult
  <2> QED
    BY <1>1, <1>2, <2>1 DEF TypeInv
<1>5. ASSUME NEW k \in Nodes
      PROVE  Place(k, pc'[k], next'[k])
  <2>1. CASE k = n
    BY <1>1, <2>1
  <2>2. CASE k # n /\ k \in called
    BY <1>1, <2>2 DEF Place
  <2>3. CASE k # n /\ k \notin called
    BY <1>1, <2>3 DEF PlaceInv
  <2> QED
    BY <2>1, <2>2, <2>3
<1>6. PlaceInv'
  BY <1>1, <1>5, InnerSame DEF PlaceInv, Place, Kind, Kids
<1> QED
  BY <1>4, <1>6

LEMMA StepKeepsTree ==
  ASSUME TypeInv, TreeInv, NEW n \in Nodes, NEW r, NEW place \in Labels \ {"idle"}, NEW called \in SUBSET Nodes,
         NEW i \in Nat, Moves(n, place, called, r, i), Fits(n, place, called, r, i)
  PROVE  TreeInv'
<1>1. /\ prog' = prog
      /\ \A k \in Nodes : /\ pc'[k] = IF k = n THEN place ELSE IF k \in called THEN "called" ELSE pc[k]
                          /\ next'[k] = IF k = n THEN i ELSE next[k]
                          /\ res'[k] = IF k = n THEN r ELSE res[k]
  BY DEF Moves, TypeInv
<1>2. /\ Running(n) /\ called \subseteq Uncalled(n, pc[n], next[n])
      /\ Uncalled(n, place, i) \subseteq Uncalled(n, pc[n], next[n]) \ called
  BY DEF Fits
<1>3. /\ n \notin called /\ called \subseteq ToSet(Kids(n))
      /\ \A k \in called : pc[k] = "idle" /\ k \in Nodes
      /\ \A m \in Nodes : \A k \in ToSet(Kids(m)) : k \in called => m = n
  BY <1>2, Others
<1>4. prog \in Programs /\ \A m \in Nodes : ToSet(Kids(m)) \subseteq Nodes /\ m \notin ToSet(Kids(m))
  BY Family DEF TypeInv, Kids
<1>5. ASSUME NEW m \in Nodes, NEW k \in Uncalled(m, pc'[m], next'[m])
      PROVE  pc'[k] = "idle"
  <2>0. k \in ToSet(Kids(m)) /\ k \in Nodes
    BY <1>4 DEF Uncalled
  <2>1. CASE m = n
    <3>1. k \in Uncalled(n, pc[n], next[n]) /\ k \notin called
      BY <1>1, <1>2, <2>1
    <3>2. pc[k] = "idle" /\ k # n
      BY <1>4, <2>0, <2>1, <3>1 DEF TreeInv
    <3> QED
      BY <1>1, <2>0, <3>1, <3>2
  <2>2. CASE m # n
    <3>1. k \notin called
      BY <1>3, <2>0, <2>2
    <3>2. k \in Uncalled(m, pc[m], next[m])
      <4>1. CASE m \in called
        BY <1>3, <2>0, <4>1 DEF Uncalled
      <4>2. CASE m \notin called
        BY <1>1, <2>2, <4>2
      <4> QED
        BY <4>1, <4>2
    <3>3. pc[k] = "idle"
      BY <3>2 DEF TreeInv
    <3>4. k # n
      BY <1>2, <3>3 DEF Running
    <3> QED
      BY <1>1, <2>0, <3>1, <3>3, <3>4
  <2> QED
    BY <2>1, <2>2
<1>6. ASSUME NEW m \in Nodes, NEW k \in ToSet(Kids(m)), pc'[k] \notin {"idle", "returned", "exited"}
      PROVE  \/ k \in Calling(m, pc'[m], next'[m])
             \/ /\ pc'[m] = "returned" /\ Kind(m) = "parallel"
                /\ \E c \in ToSet(Kids(m)) : pc'[c] = "returned" /\ res'[c].err # "none"
  <2>0. k \in Nodes
    BY <1>4
  <2>1. CASE m = n
    <3>1. k # n /\ (k \in called \/ Running(k))
      BY <1>1, <1>4, <1>6, <2>0, <2>1 DEF Running
    <3>2. k \in Calling(n, place, i) \/ (place = "returned" /\ Rejects(n))
      BY <2>1, <3>1 DEF Fits
    <3>3. Rejects(n) => Kind(n) = "parallel" /\ \E c \in ToSet(Kids(n)) : pc'[c] = "returned" /\ res'[c].err # "none"
      <4>1. ASSUME NEW c \in ToSet(Kids(n)), Returned(c), res[c].err # "none"
            PROVE  pc'[c] = "returned" /\ res'[c].err # "none"
        <5>1. c \in Nodes /\ c # n /\ pc[c] = "returned"
          BY <1>4, <4>1 DEF Returned
        <5>2. c \notin called
          BY <1>3, <5>1
        <5> QED
          BY <1>1, <4>1, <5>1, <5>2
      <4> QED
        BY <4>1 DEF Rejects
    <3> QED
      BY <1>1, <2>1, <3>2, <3>3
  <2>2. CASE m # n
    <3>1. k \notin called
      BY <1>3, <2>2
    <3>2. Running(k)
      <4>1. CASE k = n
        BY <1>2, <4>1
      <4>2. CASE k # n
        BY <1>1, <1>6, <2>0, <3>1, <4>2 DEF Running
      <4> QED
        BY <4>1, <4>2
    <3>3. k \in Calling(m, pc[m], next[m]) \/ Rejecting(m)
      BY <3>2 DEF TreeInv
    <3>4. pc[m] # "idle"
      BY <3>3 DEF Calling, Rejecting, Returned
    <3>5. pc'[m] = pc[m] /\ next'[m] = next[m]
      BY <1>1, <1>3, <2>2, <3>4
    <3>6. ASSUME Rejecting(m)
          PROVE  /\ pc[m] = "returned" /\ Kind(m) = "parallel"
                 /\ \E c \in ToSet(Kids(m)) : pc'[c] = "returned" /\ res'[c].err # "none"
      <4>1. PICK c \in ToSet(Kids(m)) : Returned(c) /\ res[c].err # "none"
        BY <3>6 DEF Rejecting, Rejects
      <4>2. c \in Nodes /\ pc[c] = "returned" /\ c # n /\ c \notin called
        BY <1>2, <1>3, <1>4, <4>1 DEF Returned, Running
      <4>3. pc'[c] = "returned" /\ res'[c].err # "none"
        BY <1>1, <4>1, <4>2
      <4> QED
        BY <3>6, <4>3 DEF Rejecting, Rejects, Returned
    <3> QED
      BY <3>3, <3>5, <3>6
  <2> QED
    BY <2>1, <2>2
<1>7. ASSUME NEW k \in Nodes, pc'[k] \notin {"idle", "returned", "exited"}
      PROVE  k = prog.root \/ \E m \in Nodes : k \in ToSet(Kids(m))
  <2>1. CASE k \in called
    BY <1>3, <2>1
  <2>2. CASE k \notin called
    <3>1. Running(k)
      BY <1>1, <1>2, <1>7, <2>2 DEF Running
    <3> QED
      BY <3>1 DEF TreeInv
  <2> QED
    BY <2>1, <2>2
<1> QED
  BY <1>1, <1>5, <1>6, <1>7 DEF TreeInv, Uncalled, Calling, Rejecting, Rejects, Returned, Running, Kids, Kind, Feeder, Sink

-----------------------------------------------------------------------------
(* Every action of a node is such a step.                                  *)

LEMMA ReturnFits ==
  ASSUME TypeInv, TreeInv, NEW n \in Nodes, NEW r, NEW i \in Nat,
         Running(n), IsResult(r), Flawless => r.err # "error",
         (\A k \in ToSet(Kids(n)) : ~Running(k)) \/ Rejects(n),
         prog' = prog, Returns(n, r), next' = [next EXCEPT ![n] = i]
  PROVE  StepOf(n)
<1>1. Moves(n, "returned", {}, r, i)
  BY DEF Moves, Returns, TypeInv
<1>2. Fits(n, "returned", {}, r, i)
  BY DEF Fits, Place, Uncalled
<1>3. "returned" \in Labels \ {"idle"} /\ {} \in SUBSET Nodes
  BY DEF Labels
<1> QED
  BY <1>1, <1>2, <1>3, Zenon DEF StepOf

LEMMA CallFits ==
  ASSUME TypeInv, CauseInv, NEW n \in Nodes, NEW ks \in SUBSET Nodes, NEW place \in Labels \ {"idle"}, NEW i \in Nat,
         Running(n), Place(n, place, i), ks \subseteq Uncalled(n, pc[n], next[n]),
         Uncalled(n, place, i) \subseteq Uncalled(n, pc[n], next[n]) \ ks,
         \A k \in ToSet(Kids(n)) : k \in ks \/ Running(k) => k \in Calling(n, place, i),
         prog' = prog, Calls(n, ks, place), res' = res, next' = [next EXCEPT ![n] = i]
  PROVE  StepOf(n)
<1> DEFINE r == res[n]
<1>1. Moves(n, place, ks, r, i)
  <2>1. res' = [res EXCEPT ![n] = r]
    BY DEF TypeInv
  <2> QED
    BY <2>1 DEF Moves, Calls
<1>2. IsResult(r) /\ (Flawless => r.err # "error")
  BY DEF TypeInv, CauseInv
<1> HIDE DEF r
<1>3. Fits(n, place, ks, r, i)
  BY <1>2 DEF Fits
<1> QED
  BY <1>1, <1>2, <1>3, Zenon DEF StepOf

\* The children of a running node run only when it waits for them.
LEMMA RunningKids ==
  ASSUME TypeInv, TreeInv, NEW n \in Nodes, Running(n)
  PROVE  /\ \A k \in ToSet(Kids(n)) : k \in Nodes /\ (Running(k) => k \in Calling(n, pc[n], next[n]))
         /\ prog \in Programs /\ next = [next EXCEPT ![n] = next[n]] /\ next[n] \in Nat
<1>1. ~Rejecting(n)
  BY DEF Rejecting, Running, Returned
<1>2. prog \in Programs /\ next = [next EXCEPT ![n] = next[n]] /\ next[n] \in Nat
  BY DEF TypeInv
<1> QED
  BY <1>1, <1>2, Family DEF TreeInv, Kids

\* What a child has returned.
LEMMA KidResult ==
  ASSUME TypeInv, CauseInv, NEW k \in Nodes
  PROVE  IsResult(res[k]) /\ (Flawless => res[k].err # "error") /\ res[k].err \in {"none", "error", "failure"}
  BY DEF TypeInv, CauseInv, IsResult

LEMMA CommandSteps ==
  ASSUME TypeInv, PlaceInv, CauseInv, TreeInv, NEW n \in Nodes,
         Feed(n) \/ Fed(n) \/ Start(n)
  PROVE  StepOf(n)
<1>0. prog \in Programs
  BY DEF TypeInv
<1>1. CASE Feed(n)
  <2>1. /\ pc[n] = "called" /\ Kind(n) = "cmd" /\ Kids(n) # <<>> /\ prog' = prog /\ res' = res /\ next' = next
        /\ Calls(n, {Feeder(n)}, "feeding")
    BY <1>1 DEF Feed, Called, control
  <2>2. ToSet(Kids(n)) = {Feeder(n)} /\ Feeder(n) \in Nodes
    BY <1>0, <2>1, Ends DEF Kids, Kind, Feeder
  <2>3. Running(n)
    BY <2>1 DEF Running
  <2>4. /\ {Feeder(n)} \subseteq Uncalled(n, pc[n], next[n])
        /\ Uncalled(n, "feeding", next[n]) = {}
        /\ \A k \in ToSet(Kids(n)) : k \in Calling(n, "feeding", next[n])
    BY <2>1, <2>2 DEF Uncalled, Calling
  <2>5. Place(n, "feeding", next[n]) /\ "feeding" \in Labels \ {"idle"}
    BY <2>1 DEF Place, Labels
  <2>6. PICK ks : ks = {Feeder(n)}
    OBVIOUS
  <2>7. next' = [next EXCEPT ![n] = next[n]] /\ next[n] \in Nat
    BY <2>1, <2>3, RunningKids
  <2> QED
    BY <2>1, <2>2, <2>3, <2>4, <2>5, <2>6, <2>7, CallFits
<1>2. CASE Fed(n)
  <2>1. /\ pc[n] = "feeding" /\ Kind(n) = "cmd" /\ pc[Feeder(n)] = "returned" /\ prog' = prog /\ next' = next
        /\ \/ Returns(n, res[Feeder(n)])
           \/ Calls(n, {}, "start") /\ res' = res
    BY <1>2 DEF Fed, Returned
  <2>2. ToSet(Kids(n)) = {Feeder(n)} /\ Feeder(n) \in Nodes
    BY <1>0, <2>1, Ends DEF Kids, Kind, Feeder, PlaceInv, Place
  <2>3. Running(n) /\ \A k \in ToSet(Kids(n)) : ~Running(k)
    BY <2>1, <2>2 DEF Running
  <2>4. next' = [next EXCEPT ![n] = next[n]] /\ next[n] \in Nat
    BY <2>1, <2>3, RunningKids
  <2>5. CASE Returns(n, res[Feeder(n)])
    BY <2>1, <2>2, <2>3, <2>4, <2>5, KidResult, ReturnFits
  <2>6. CASE Calls(n, {}, "start") /\ res' = res
    <3>1. Uncalled(n, "start", next[n]) = {} /\ Place(n, "start", next[n]) /\ "start" \in Labels \ {"idle"}
      BY <2>1 DEF Uncalled, Place, Labels
    <3> QED
      BY <2>1, <2>3, <2>4, <2>6, <3>1, CallFits
  <2> QED
    BY <2>1, <2>5, <2>6
<1>3. CASE Start(n)
  <2>1. /\ Kind(n) = "cmd" /\ prog' = prog /\ res' = res /\ next' = next /\ Calls(n, {}, "attempt")
        /\ pc[n] = "start" \/ (pc[n] = "called" /\ Kids(n) = <<>>)
    BY <1>3 DEF Start, Called
  <2>2. Running(n)
    BY <2>1 DEF Running
  <2>3. Uncalled(n, "attempt", next[n]) = {} /\ Place(n, "attempt", next[n]) /\ "attempt" \in Labels \ {"idle"}
    BY <2>1 DEF Uncalled, Place, Labels
  <2>4. \A k \in ToSet(Kids(n)) : ~Running(k)
    BY <2>1, <2>2, RunningKids DEF Calling
  <2>5. next' = [next EXCEPT ![n] = next[n]] /\ next[n] \in Nat
    BY <2>1, <2>2, RunningKids
  <2> QED
    BY <2>1, <2>2, <2>3, <2>4, <2>5, CallFits
<1> QED
  BY <1>1, <1>2, <1>3

LEMMA AttemptSteps ==
  ASSUME TypeInv, PlaceInv, CauseInv, TreeInv, NEW n \in Nodes,
         Aborts(n) \/ \E c \in {0, Code[n], -1} : Attempt(n, c)
  PROVE  StepOf(n)
<1>1. pc[n] = "attempt" /\ prog' = prog /\ next' = next
  BY DEF Aborts, Abort, Attempt
<1>2. Running(n) /\ \A k \in ToSet(Kids(n)) : ~Running(k)
  BY <1>1, RunningKids DEF Running, Calling
<1>3. next' = [next EXCEPT ![n] = next[n]] /\ next[n] \in Nat
  BY <1>1, <1>2, RunningKids
<1>4. CASE Aborts(n)
  <2>0. PICK c : Abort(n, c)
    BY <1>4 DEF Aborts
  <2>1. Returns(n, Error(c)) /\ (n \in prog.missing \cup done \cup prog.timeout \/ used[n])
    BY <2>0 DEF Abort, StartFails, WaitFails
  <2>2. ~Flawless
    BY <2>1 DEF Flawless, CauseInv
  <2>3. IsResult(Error(c))
    BY ResultFacts
  <2> QED
    BY <1>1, <1>2, <1>3, <2>1, <2>2, <2>3, ReturnFits
<1>5. ASSUME NEW c \in {0, Code[n], -1}, Attempt(n, c)
      PROVE  StepOf(n)
  <2>1. Returns(n, Outcome(n, c)) \/ (pc' = pc /\ res' = res)
    BY <1>5 DEF Attempt
  <2>2. CASE Returns(n, Outcome(n, c))
    <3>1. IsResult(Outcome(n, c)) /\ Outcome(n, c).err # "error"
      BY ResultFacts, Zenon DEF Outcome
    <3> QED
      BY <1>1, <1>2, <1>3, <2>2, <3>1, ReturnFits
  <2>3. CASE pc' = pc /\ res' = res
    <3>1. Uncalled(n, "attempt", next[n]) = {} /\ Place(n, "attempt", next[n]) /\ "attempt" \in Labels \ {"idle"}
      BY <1>1 DEF Uncalled, Place, Labels, PlaceInv
    <3>2. Calls(n, {}, "attempt")
      BY <1>1, <2>3 DEF Calls, TypeInv
    <3> QED
      BY <1>1, <1>2, <1>3, <2>3, <3>1, <3>2, CallFits
  <2> QED
    BY <2>1, <2>2, <2>3
<1> QED
  BY <1>4, <1>5

LEMMA SeqRunSteps ==
  ASSUME TypeInv, PlaceInv, CauseInv, TreeInv, NEW n \in Nodes,
         SerialRun(n) \/ OrRun(n) \/ ParallelRun(n)
  PROVE  StepOf(n)
<1>0. prog \in Programs
  BY DEF TypeInv
<1> DEFINE first == IF Kind(n) = "parallel" THEN ToSet(Kids(n)) ELSE {Head(Kids(n))}
<1>1. /\ pc[n] = "called" /\ Kind(n) \in Seqs /\ prog' = prog /\ next' = [next EXCEPT ![n] = 1]
      /\ \/ ToSet(Kids(n)) = {} /\ Returns(n, Ok(0))
         \/ ToSet(Kids(n)) # {} /\ Calls(n, first, "waiting") /\ res' = res
  BY DEF SerialRun, OrRun, ParallelRun, SeqRun, Called, Seqs
<1>2. Running(n) /\ \A k \in ToSet(Kids(n)) : k \in Nodes /\ ~Running(k)
  BY <1>1, RunningKids DEF Running, Calling
<1>3. CASE ToSet(Kids(n)) = {} /\ Returns(n, Ok(0))
  BY <1>1, <1>2, <1>3, ResultFacts, ReturnFits
<1>4. CASE ToSet(Kids(n)) # {} /\ Calls(n, first, "waiting") /\ res' = res
  <2>1. /\ Len(Kids(n)) \in Nat /\ ToSet(Kids(n)) = {Kids(n)[j] : j \in 1 .. Len(Kids(n))}
        /\ \A i, j \in 1 .. Len(Kids(n)) : Kids(n)[i] = Kids(n)[j] => i = j
    BY <1>0, Family DEF Kids
  <2>2. 1 \in 1 .. Len(Kids(n)) /\ Kids(n) # <<>>
    <3>1. Len(Kids(n)) # 0
      BY <1>4, <2>1
    <3> QED
      BY <2>1, <3>1
  <2>3. Head(Kids(n)) = Kids(n)[1] /\ Head(Kids(n)) \in ToSet(Kids(n))
    BY <1>0, <2>2, Ends DEF Kids
  <2>4. Uncalled(n, pc[n], next[n]) = ToSet(Kids(n))
    BY <1>1 DEF Uncalled
  <2>5. PICK ks : ks = first
    OBVIOUS
  <2>6. ks \in SUBSET Nodes /\ ks \subseteq Uncalled(n, pc[n], next[n])
    BY <1>2, <2>3, <2>4, <2>5
  <2>7. Uncalled(n, "waiting", 1) \subseteq Uncalled(n, pc[n], next[n]) \ ks
    <3>1. ASSUME NEW k \in Uncalled(n, "waiting", 1)
          PROVE  k \in ToSet(Kids(n)) /\ Kind(n) # "parallel" /\ k # Kids(n)[1]
      <4>1. /\ k \in ToSet(Kids(n)) /\ Kind(n) # "parallel"
            /\ \E j \in 1 .. Len(Kids(n)) : j > 1 /\ k = Kids(n)[j]
        BY <3>1 DEF Uncalled
      <4> QED
        BY <2>1, <2>2, <4>1
    <3> QED
      BY <2>3, <2>4, <2>5, <3>1
  <2>8. \A k \in ToSet(Kids(n)) : k \in ks \/ Running(k) => k \in Calling(n, "waiting", 1)
    BY <1>2, <2>3, <2>5 DEF Calling
  <2>9. Place(n, "waiting", 1) /\ "waiting" \in Labels \ {"idle"}
    BY <1>1, <2>2 DEF Place, Labels
  <2>10. Calls(n, ks, "waiting")
    BY <1>4, <2>5
  <2> QED
    BY <1>1, <1>2, <1>4, <2>6, <2>7, <2>8, <2>9, <2>10, CallFits
<1> QED
  BY <1>1, <1>3, <1>4

\* the next child of a serial or of an or
LEMMA SeqNextSteps ==
  ASSUME TypeInv, PlaceInv, CauseInv, TreeInv, NEW n \in Nodes, SerialNext(n) \/ OrNext(n)
  PROVE  StepOf(n)
<1>0. prog \in Programs
  BY DEF TypeInv
<1> DEFINE k1 == Kids(n)[next[n]]
           k2 == Kids(n)[next[n] + 1]
<1>1. /\ pc[n] = "waiting" /\ Kind(n) \in {"serial", "or"} /\ prog' = prog /\ pc[k1] = "returned"
      /\ \/ next' = next /\ Returns(n, [res[k1] EXCEPT !.rc = -1])
         \/ next' = next /\ Returns(n, res[k1])
         \/ /\ next[n] # Len(Kids(n)) /\ Calls(n, {k2}, "waiting")
            /\ next' = [next EXCEPT ![n] = next[n] + 1] /\ res' = res
  <2>1. ASSUME NEW stops, SeqNext(n, stops)
        PROVE  /\ pc[n] = "waiting" /\ prog' = prog /\ pc[k1] = "returned"
               /\ \/ next' = next /\ Returns(n, [res[k1] EXCEPT !.rc = -1])
                  \/ next' = next /\ Returns(n, res[k1])
                  \/ /\ next[n] # Len(Kids(n)) /\ Calls(n, {k2}, "waiting")
                     /\ next' = [next EXCEPT ![n] = next[n] + 1] /\ res' = res
    BY <2>1 DEF SeqNext, Returned
  <2>2. CASE SerialNext(n)
    <3>1. SeqNext(n, FailsFast(n)) /\ Kind(n) = "serial"
      BY <2>2 DEF SerialNext
    <3> QED
      BY <2>1, <3>1
  <2>3. CASE OrNext(n)
    <3>1. SeqNext(n, rcNext(n) = 0) /\ Kind(n) = "or"
      BY <2>3 DEF OrNext
    <3> QED
      BY <2>1, <3>1
  <2> QED
    BY <2>2, <2>3
<1>2. /\ Len(Kids(n)) \in Nat /\ ToSet(Kids(n)) = {Kids(n)[j] : j \in 1 .. Len(Kids(n))}
      /\ \A i, j \in 1 .. Len(Kids(n)) : Kids(n)[i] = Kids(n)[j] => i = j
      /\ next[n] \in 1 .. Len(Kids(n))
  BY <1>0, <1>1, Family DEF Kids, PlaceInv, Place
<1>3. k1 \in ToSet(Kids(n)) /\ next[n] \in Nat
  BY <1>2
<1>4. Running(n)
  BY <1>1 DEF Running
<1>5. \A k \in ToSet(Kids(n)) : k \in Nodes /\ ~Running(k)
  BY <1>1, <1>4, RunningKids DEF Calling, Running
<1>6. CASE next' = next /\ (Returns(n, [res[k1] EXCEPT !.rc = -1]) \/ Returns(n, res[k1]))
  <2>1. PICK r : /\ r = [res[k1] EXCEPT !.rc = -1] \/ r = res[k1]
                 /\ Returns(n, r)
    BY <1>6
  <2>2. IsResult(r) /\ (Flawless => r.err # "error")
    <3>1. IsResult(res[k1]) /\ (Flawless => res[k1].err # "error")
      BY <1>3, <1>5, KidResult
    <3>2. IsResult([res[k1] EXCEPT !.rc = -1]) /\ [res[k1] EXCEPT !.rc = -1].err = res[k1].err
      BY <3>1, ResultFacts, Zenon
    <3> QED
      BY <2>1, <3>1, <3>2, Zenon
  <2>3. next' = [next EXCEPT ![n] = next[n]]
    BY <1>4, <1>6, RunningKids
  <2> QED
    BY <1>1, <1>3, <1>4, <1>5, <2>1, <2>2, <2>3, ReturnFits
<1>7. CASE /\ next[n] # Len(Kids(n)) /\ Calls(n, {k2}, "waiting")
           /\ next' = [next EXCEPT ![n] = next[n] + 1] /\ res' = res
  <2>1. PICK i \in Nat : i = next[n] + 1
    BY <1>3
  <2>2. i \in 1 .. Len(Kids(n)) /\ i > next[n] /\ k2 = Kids(n)[i]
    BY <1>2, <1>7, <2>1
  <2>3. PICK ks : ks = {k2}
    OBVIOUS
  <2>4. k2 \in ToSet(Kids(n)) /\ ks \in SUBSET Nodes /\ ks \subseteq Uncalled(n, pc[n], next[n])
    <3>1. k2 \in ToSet(Kids(n))
      BY <1>2, <2>2
    <3> QED
      BY <1>1, <1>5, <2>2, <2>3, <3>1 DEF Uncalled
  <2>5. Uncalled(n, "waiting", i) \subseteq Uncalled(n, pc[n], next[n]) \ ks
    <3>1. ASSUME NEW k \in Uncalled(n, "waiting", i)
          PROVE  k \in Uncalled(n, "waiting", next[n]) /\ k # k2
      <4>1. PICK j \in 1 .. Len(Kids(n)) : j > i /\ k = Kids(n)[j]
        BY <3>1 DEF Uncalled
      <4>2. j > next[n] /\ j # i
        BY <1>3, <2>1, <4>1
      <4>3. k # k2
        BY <1>2, <2>2, <4>1, <4>2
      <4> QED
        BY <3>1, <4>1, <4>2, <4>3 DEF Uncalled
    <3> QED
      BY <1>1, <2>3, <3>1
  <2>6. \A k \in ToSet(Kids(n)) : k \in ks \/ Running(k) => k \in Calling(n, "waiting", i)
    BY <1>5, <2>2, <2>3 DEF Calling
  <2>7. Place(n, "waiting", i) /\ "waiting" \in Labels \ {"idle"}
    BY <1>1, <2>2 DEF Place, Labels, Seqs
  <2> QED
    BY <1>1, <1>4, <1>7, <2>1, <2>3, <2>4, <2>5, <2>6, <2>7, CallFits
<1> QED
  BY <1>1, <1>6, <1>7

\* all promises are resolved, or one is rejected
LEMMA ParallelSteps ==
  ASSUME TypeInv, PlaceInv, CauseInv, TreeInv, NEW n \in Nodes, Resolved(n) \/ Rejected(n)
  PROVE  StepOf(n)
<1>1. pc[n] = "waiting" /\ prog' = prog /\ next' = next
  BY DEF Resolved, Rejected
<1>2. Running(n) /\ next' = [next EXCEPT ![n] = next[n]] /\ next[n] \in Nat
  BY <1>1, RunningKids DEF Running
<1>3. CASE Resolved(n)
  <2>1. Returns(n, Ok(FirstFailure(n))) /\ \A k \in ToSet(Kids(n)) : pc[k] = "returned"
    BY <1>3 DEF Resolved, Returned
  <2>2. PICK r : r = Ok(FirstFailure(n)) /\ IsResult(r) /\ r.err # "error"
    BY ResultFacts
  <2> QED
    BY <1>1, <1>2, <2>1, <2>2, ReturnFits DEF Running
<1>4. CASE Rejected(n)
  <2>1. PICK k \in ToSet(Kids(n)) :
          /\ Returned(k) /\ res[k].err # "none" /\ Kind(n) = "parallel"
          /\ Returns(n, Ok(res[k].code)) \/ Returns(n, [res[k] EXCEPT !.rc = -1])
    BY <1>4 DEF Rejected
  <2>2. Rejects(n)
    BY <2>1 DEF Rejects
  <2>3. k \in Nodes
    BY <1>2, <2>1, RunningKids
  <2>4. PICK r : /\ r = Ok(res[k].code) \/ r = [res[k] EXCEPT !.rc = -1]
                 /\ Returns(n, r)
    BY <2>1
  <2>5. IsResult(r) /\ (Flawless => r.err # "error")
    <3>1. IsResult(res[k]) /\ (Flawless => res[k].err # "error")
      BY <2>3, KidResult
    <3>2. IsResult([res[k] EXCEPT !.rc = -1]) /\ [res[k] EXCEPT !.rc = -1].err = res[k].err
      BY <3>1, ResultFacts, Zenon
    <3>3. IsResult(Ok(res[k].code)) /\ Ok(res[k].code).err = "none"
      BY ResultFacts
    <3>4. CASE r = Ok(res[k].code)
      BY <3>3, <3>4
    <3>5. CASE r = [res[k] EXCEPT !.rc = -1]
      BY <3>1, <3>2, <3>5, Zenon
    <3> QED
      BY <2>4, <3>4, <3>5
  <2> QED
    BY <1>1, <1>2, <2>2, <2>4, <2>5, ReturnFits
<1> QED
  BY <1>3, <1>4

LEMMA PipeSteps ==
  ASSUME TypeInv, PlaceInv, CauseInv, TreeInv, NEW n \in Nodes, PipeRun(n) \/ PipeFed(n) \/ SinkRun(n) \/ PipeDrained(n)
  PROVE  StepOf(n)
<1>1. Kind(n) = "pipe" /\ pc[n] \in {"called", "feeding", "draining"} /\ prog' = prog /\ next' = next
  BY DEF PipeRun, PipeFed, SinkRun, PipeDrained, Called, PlaceInv, Place
<1>2. /\ ToSet(Kids(n)) = {Feeder(n), Sink(n)} /\ Feeder(n) # Sink(n)
      /\ Feeder(n) \in Nodes /\ Sink(n) \in Nodes
  BY <1>1, HasKids, Ends DEF TypeInv, Kids, Kind, Feeder, Sink
<1>3. /\ Running(n) /\ next' = [next EXCEPT ![n] = next[n]] /\ next[n] \in Nat
      /\ \A k \in ToSet(Kids(n)) : Running(k) => k \in Calling(n, pc[n], next[n])
  BY <1>1, RunningKids DEF Running
<1>4. CASE PipeRun(n)
  <2>1. pc[n] = "called" /\ Calls(n, {Feeder(n)}, "feeding") /\ res' = res
    BY <1>4 DEF PipeRun, Called
  <2>2. PICK ks : ks = {Feeder(n)}
    OBVIOUS
  <2>3. /\ ks \in SUBSET Nodes /\ ks \subseteq Uncalled(n, pc[n], next[n])
        /\ Uncalled(n, "feeding", next[n]) \subseteq Uncalled(n, pc[n], next[n]) \ ks
        /\ \A k \in ToSet(Kids(n)) : k \in ks \/ Running(k) => k \in Calling(n, "feeding", next[n])
    BY <1>2, <1>3, <2>1, <2>2 DEF Uncalled, Calling
  <2>4. Place(n, "feeding", next[n]) /\ "feeding" \in Labels \ {"idle"}
    BY <1>1, <1>4 DEF Place, Labels, PipeRun
  <2> QED
    BY <1>1, <1>3, <2>1, <2>2, <2>3, <2>4, CallFits
<1>5. CASE PipeFed(n)
  <2>1. /\ pc[n] = "feeding" /\ pc[Feeder(n)] = "returned"
        /\ \/ Returns(n, res[Feeder(n)])
           \/ Calls(n, {Sink(n)}, "draining") /\ res' = res
    BY <1>5 DEF PipeFed, PipeReturns, Returned
  <2>2. \A k \in ToSet(Kids(n)) : ~Running(k)
    BY <1>3, <2>1 DEF Calling, Running
  <2>3. CASE Returns(n, res[Feeder(n)])
    BY <1>1, <1>2, <1>3, <2>2, <2>3, KidResult, ReturnFits
  <2>4. CASE Calls(n, {Sink(n)}, "draining") /\ res' = res
    <3>1. PICK ks : ks = {Sink(n)}
      OBVIOUS
    <3>2. /\ ks \in SUBSET Nodes /\ ks \subseteq Uncalled(n, pc[n], next[n])
          /\ Uncalled(n, "draining", next[n]) = {}
          /\ \A k \in ToSet(Kids(n)) : k \in ks \/ Running(k) => k \in Calling(n, "draining", next[n])
      BY <1>2, <2>1, <2>2, <3>1 DEF Uncalled, Calling
    <3>3. Place(n, "draining", next[n]) /\ "draining" \in Labels \ {"idle"}
      BY <1>1 DEF Place, Labels
    <3> QED
      BY <1>1, <1>3, <2>4, <3>1, <3>2, <3>3, CallFits
  <2> QED
    BY <2>1, <2>3, <2>4
<1>7. CASE SinkRun(n)
  <2>1. pc[n] = "called" /\ Calls(n, {Sink(n)}, "draining") /\ res' = res
    BY <1>7 DEF SinkRun, Called
  <2>2. PICK ks : ks = {Sink(n)}
    OBVIOUS
  <2>3. /\ ks \in SUBSET Nodes /\ ks \subseteq Uncalled(n, pc[n], next[n])
        /\ Uncalled(n, "draining", next[n]) = {}
        /\ \A k \in ToSet(Kids(n)) : k \in ks \/ Running(k) => k \in Calling(n, "draining", next[n])
    BY <1>2, <1>3, <2>1, <2>2 DEF Uncalled, Calling
  <2>4. Place(n, "draining", next[n]) /\ "draining" \in Labels \ {"idle"}
    BY <1>1 DEF Place, Labels
  <2> QED
    BY <1>1, <1>3, <2>1, <2>2, <2>3, <2>4, CallFits
<1>6. CASE PipeDrained(n)
  <2>1. pc[n] = "draining" /\ pc[Sink(n)] = "returned" /\ Returns(n, res[Sink(n)])
    BY <1>6 DEF PipeDrained, PipeReturns, Returned
  <2>2. \A k \in ToSet(Kids(n)) : ~Running(k)
    BY <1>3, <2>1 DEF Calling, Running
  <2> QED
    BY <1>1, <1>2, <1>3, <2>1, <2>2, KidResult, ReturnFits
<1> QED
  BY <1>4, <1>5, <1>6, <1>7

LEMMA OutputSteps ==
  ASSUME TypeInv, PlaceInv, CauseInv, TreeInv, NEW n \in Nodes, OutputRun(n) \/ OutputReturns(n)
  PROVE  StepOf(n)
<1>1. Kind(n) = "output" /\ pc[n] \in {"called", "reading"} /\ prog' = prog /\ next' = next
  BY DEF OutputRun, OutputReturns, Called, PlaceInv, Place
<1>2. ToSet(Kids(n)) = {Sink(n)} /\ Sink(n) \in Nodes
  <2>1. prog \in Programs /\ prog.kind[n] = "output"
    BY <1>1 DEF TypeInv, Kind
  <2>2. prog.kids[n] # <<>>
    BY <2>1, HasKids
  <2>3. ToSet(prog.kids[n]) = {Head(prog.kids[n])} /\ Last(prog.kids[n]) = Head(prog.kids[n]) /\ Last(prog.kids[n]) \in Nodes
    BY <2>1, <2>2, Ends
  <2> QED
    BY <2>3 DEF Kids, Sink
<1>3. /\ Running(n) /\ next' = [next EXCEPT ![n] = next[n]] /\ next[n] \in Nat
      /\ \A k \in ToSet(Kids(n)) : Running(k) => k \in Calling(n, pc[n], next[n])
  BY <1>1, RunningKids DEF Running
<1>4. CASE OutputRun(n)
  <2>1. pc[n] = "called" /\ Calls(n, {Sink(n)}, "reading") /\ res' = res
    BY <1>4 DEF OutputRun, Called
  <2>2. PICK ks : ks = {Sink(n)}
    OBVIOUS
  <2>3. /\ ks \in SUBSET Nodes /\ ks \subseteq Uncalled(n, pc[n], next[n])
        /\ Uncalled(n, "reading", next[n]) = {}
        /\ \A k \in ToSet(Kids(n)) : k \in Calling(n, "reading", next[n])
    BY <1>2, <2>1, <2>2 DEF Uncalled, Calling
  <2>4. Place(n, "reading", next[n]) /\ "reading" \in Labels \ {"idle"}
    BY <1>1 DEF Place, Labels
  <2> QED
    BY <1>1, <1>3, <2>1, <2>2, <2>3, <2>4, CallFits
<1>5. CASE OutputReturns(n)
  <2>1. /\ pc[n] = "reading" /\ pc[Sink(n)] = "returned"
        /\ \/ Returns(n, Failure(-1, res[Sink(n)].rc))
           \/ Returns(n, res[Sink(n)])
    BY <1>5 DEF OutputReturns, Returned
  <2>2. \A k \in ToSet(Kids(n)) : ~Running(k)
    BY <1>3, <2>1 DEF Calling, Running
  <2>3. CASE Returns(n, Failure(-1, res[Sink(n)].rc))
    <3>1. PICK r : r = Failure(-1, res[Sink(n)].rc) /\ IsResult(r) /\ r.err # "error"
      BY ResultFacts
    <3> QED
      BY <1>1, <1>3, <2>2, <2>3, <3>1, ReturnFits
  <2>4. CASE Returns(n, res[Sink(n)])
    BY <1>1, <1>2, <1>3, <2>2, <2>4, KidResult, ReturnFits
  <2> QED
    BY <2>1, <2>3, <2>4
<1> QED
  BY <1>4, <1>5

-----------------------------------------------------------------------------
(* exec.Cmd and contexts.                                                  *)

\* No exec.Cmd is started twice unless one was aborted, and no context ends
\* without a timeout.
LEMMA NodeKeepsProcess ==
  ASSUME TypeInv, CauseInv, NEW n \in Nodes, prog' = prog, Acts(n)
  PROVE  /\ used' \in [Nodes -> BOOLEAN] /\ checkpoint' \in [Nodes -> BOOLEAN]
         /\ Flawless => done' = {} /\ \A k \in Nodes : used'[k] = FALSE /\ checkpoint'[k] = FALSE
<1> DEFINE Q == /\ used' \in [Nodes -> BOOLEAN] /\ checkpoint' \in [Nodes -> BOOLEAN]
                /\ Flawless => done' = {} /\ \A k \in Nodes : used'[k] = FALSE /\ checkpoint'[k] = FALSE
<1>0. used \in [Nodes -> BOOLEAN] /\ checkpoint \in [Nodes -> BOOLEAN]
  BY DEF TypeInv
<1>1. ASSUME UNCHANGED process
      PROVE  Q
  BY <1>0, <1>1 DEF process, CauseInv
<1>2. ASSUME NEW ns, Reset(ns), UNCHANGED <<checkpoint, done>>
      PROVE  Q
  <2>1. used' = [k \in Nodes |-> IF k \in ns THEN checkpoint[k] ELSE used[k]]
    BY <1>2 DEF Reset
  <2> QED
    BY <1>0, <1>2, <2>1 DEF CauseInv
<1>3. CASE Aborts(n)
  <2>0. PICK c : Abort(n, c)
    BY <1>3 DEF Aborts
  <2>1. n \in prog.missing \cup done \cup prog.timeout \/ used[n] = TRUE
    BY <1>0, <2>0 DEF Abort, StartFails, WaitFails
  <2>2. ~Flawless
    BY <2>1 DEF Flawless, CauseInv
  <2>3. used' = [used EXCEPT ![n] = TRUE] /\ checkpoint' = checkpoint
    BY <2>0 DEF Abort
  <2> QED
    BY <1>0, <2>2, <2>3
<1>4. CASE \E c \in {0, Code[n], -1} : Attempt(n, c)
  <2>1. used' = [used EXCEPT ![n] = checkpoint[n]] /\ checkpoint' = checkpoint /\ (done' = done \/ Cancelled(n))
    BY <1>4 DEF Attempt, Rollback
  <2>2. Flawless => done' = {}
    BY <2>1 DEF CauseInv, Flawless, Cancelled
  <2> QED
    BY <1>0, <2>1, <2>2 DEF CauseInv
<1>5. CASE Start(n) \/ SerialRun(n) \/ OrRun(n) \/ ParallelRun(n)
  <2>1. \E ns : Reset(ns) /\ UNCHANGED <<checkpoint, done>>
    BY <1>5 DEF Start, SerialRun, OrRun, ParallelRun, SeqRun
  <2> QED
    BY <1>2, <2>1
<1>6. CASE \/ Feed(n) \/ Fed(n) \/ SerialNext(n) \/ OrNext(n) \/ Resolved(n) \/ Rejected(n)
           \/ PipeRun(n) \/ PipeFed(n) \/ SinkRun(n) \/ PipeDrained(n) \/ OutputRun(n) \/ OutputReturns(n)
  <2>1. UNCHANGED process
    BY <1>6 DEF Feed, Fed, SerialNext, OrNext, SeqNext, Resolved, Rejected, PipeRun, PipeFed, SinkRun, PipeDrained,
                OutputRun, OutputReturns
  <2> QED
    BY <1>1, <2>1
<1> QED
  BY <1>3, <1>4, <1>5, <1>6 DEF Acts

-----------------------------------------------------------------------------
(* The invariant.                                                          *)

LEMMA NodeKeepsCommand ==
  ASSUME CommandInv, NEW n \in Nodes, Acts(n)
  PROVE  CommandInv'
<1>0. TypeInv /\ PlaceInv /\ CauseInv /\ TreeInv
  BY DEF CommandInv
<1>1. StepOf(n)
  BY <1>0, CommandSteps, AttemptSteps, SeqRunSteps, SeqNextSteps, ParallelSteps, PipeSteps, OutputSteps, Zenon DEF Acts
<1>2. PICK r : \E place \in Labels \ {"idle"}, called \in SUBSET Nodes, i \in Nat :
        IsResult(r) /\ Moves(n, place, called, r, i) /\ Fits(n, place, called, r, i)
  BY <1>1, Zenon DEF StepOf
<1>3. PICK place \in Labels \ {"idle"}, called \in SUBSET Nodes, i \in Nat :
        IsResult(r) /\ Moves(n, place, called, r, i) /\ Fits(n, place, called, r, i)
  BY <1>2, Zenon
<1>4. prog' = prog
  BY <1>3 DEF Moves
<1>5. /\ used' \in [Nodes -> BOOLEAN] /\ checkpoint' \in [Nodes -> BOOLEAN]
      /\ Flawless => done' = {} /\ \A k \in Nodes : used'[k] = FALSE /\ checkpoint'[k] = FALSE
  BY <1>0, <1>4, NodeKeepsProcess, Zenon
<1>6. /\ Running(n) /\ Place(n, place, i) /\ called \subseteq Uncalled(n, pc[n], next[n])
      /\ (Flawless => r.err # "error")
  BY <1>3 DEF Fits
<1>7. n \notin called
  BY <1>0, <1>6, Others
<1>8. place \in Labels
  OBVIOUS
<1>9. TypeInv' /\ PlaceInv'
  BY <1>0, <1>3, <1>5, <1>6, <1>7, <1>8, StepKeepsTypes, Zenon
<1>10. TreeInv'
  BY <1>0, <1>3, StepKeepsTree, Zenon
<1>11. CauseInv'
  <2>1. \A k \in Nodes : res'[k] = IF k = n THEN r ELSE res[k]
    BY <1>0, <1>3 DEF Moves, TypeInv
  <2>2. Flawless' = Flawless
    BY <1>4 DEF Flawless
  <2>3. Flawless => \A k \in Nodes : res'[k].err # "error"
    BY <1>0, <1>6, <2>1 DEF CauseInv
  <2> QED
    BY <1>5, <2>2, <2>3 DEF CauseInv
<1>12. ExitInv'
  <2>1. place # "exited" /\ \A k \in Nodes : pc[k] # "exited"
    BY <1>6 DEF CommandInv, ExitInv, Running, Labels
  <2>2. \A k \in Nodes : pc'[k] = IF k = n THEN place ELSE IF k \in called THEN "called" ELSE pc[k]
    BY <1>3 DEF Moves
  <2> QED
    BY <2>1, <2>2 DEF ExitInv
<1> QED
  BY <1>9, <1>10, <1>11, <1>12 DEF CommandInv

\* The process exits: nothing runs, nothing is said.
LEMMA ExitKeepsCommand ==
  ASSUME CommandInv, NEW m \in Nodes, Exit(m)
  PROVE  CommandInv'
<1>0. TypeInv /\ PlaceInv /\ CauseInv /\ TreeInv
  BY DEF CommandInv
<1>1. /\ prog' = prog /\ res' = res /\ next' = next /\ UNCHANGED <<used, checkpoint, done>>
      /\ pc' = [n \in Nodes |-> "exited"]
  BY DEF Exit, process
<1>2. TypeInv'
  <2>1. \A n \in Nodes : IsResult(res[n])'
    BY <1>0, <1>1 DEF TypeInv, IsResult
  <2> QED
    BY <1>0, <1>1, <2>1 DEF TypeInv
<1>3. PlaceInv'
  BY <1>1 DEF PlaceInv, Place
<1>4. CauseInv'
  BY <1>0, <1>1 DEF CauseInv, Flawless
<1>5. TreeInv'
  <2>1. prog \in Programs
    BY <1>0 DEF TypeInv
  <2>2. \A n \in Nodes : ToSet(Kids(n)) \subseteq Nodes
    BY <2>1, Family DEF Kids
  <2>3. \A n \in Nodes : \A i : Uncalled(n, "exited", i) = {}
    BY DEF Uncalled
  <2>4. \A n \in Nodes : Uncalled(n, pc[n], next[n])' = {}
    BY <1>1, <2>3 DEF Uncalled, Kids, Kind, Feeder
  <2>5. \A n \in Nodes : ~Running(n)'
    BY <1>1 DEF Running
  <2> QED
    BY <1>1, <2>2, <2>4, <2>5 DEF TreeInv, Kids
<1>6. ExitInv'
  BY <1>1 DEF ExitInv
<1> QED
  BY <1>2, <1>3, <1>4, <1>5, <1>6 DEF CommandInv

\* A new run: only the root runs.
LEMMA RunKeepsCommand ==
  ASSUME CommandInv, Run
  PROVE  CommandInv'
<1>0. TypeInv /\ PlaceInv /\ CauseInv /\ TreeInv
  BY DEF CommandInv
<1>1. /\ pc' = [n \in Nodes |-> IF n = prog.root THEN "called" ELSE "idle"]
      /\ prog' = prog /\ res' = res /\ next' = next /\ UNCHANGED <<used, checkpoint, done>>
  BY DEF Run, process
<1>2. prog \in Programs /\ \A n \in Nodes : ToSet(Kids(n)) \subseteq Nodes /\ prog.root \notin ToSet(Kids(n))
  BY <1>0, Family DEF TypeInv, Kids
<1>3. TypeInv'
  <2>1. pc' \in [Nodes -> Labels]
    BY <1>1 DEF Labels
  <2>2. \A n \in Nodes : IsResult(res[n])'
    BY <1>0, <1>1 DEF TypeInv, IsResult
  <2> QED
    BY <1>0, <1>1, <2>1, <2>2 DEF TypeInv
<1>4. PlaceInv'
  BY <1>1 DEF PlaceInv, Place
<1>5. CauseInv'
  BY <1>0, <1>1 DEF CauseInv, Flawless
<1>6. TreeInv'
  <2>1. \A n \in Nodes : \A k \in ToSet(Kids(n)) : pc'[k] = "idle"
    BY <1>1, <1>2
  <2>2. \A k \in Nodes : pc'[k] # "idle" => k = prog.root
    BY <1>1
  <2> QED
    BY <1>1, <2>1, <2>2 DEF TreeInv, Running, Uncalled, Kids
<1>7. ExitInv'
  BY <1>1 DEF ExitInv
<1> QED
  BY <1>3, <1>4, <1>5, <1>6, <1>7 DEF CommandInv

LEMMA AddArgsKeepsCommand ==
  ASSUME CommandInv, NEW m \in Nodes, AddArgs(m)
  PROVE  CommandInv'
<1>0. TypeInv /\ PlaceInv /\ CauseInv /\ TreeInv
  BY DEF CommandInv
<1>1. prog' = prog /\ pc' = pc /\ res' = res /\ next' = next /\ used' = used /\ done' = done
  BY DEF AddArgs, control
<1>2. PICK ns : checkpoint' = [n \in Nodes |-> IF n \in ns THEN used[n] ELSE checkpoint[n]]
  BY DEF AddArgs, Checkpoint
<1>3. TypeInv'
  <2>1. \A n \in Nodes : IsResult(res[n])'
    BY <1>0, <1>1 DEF TypeInv, IsResult
  <2>2. checkpoint' \in [Nodes -> BOOLEAN]
    BY <1>0, <1>2 DEF TypeInv
  <2> QED
    BY <1>0, <1>1, <2>1, <2>2 DEF TypeInv
<1>4. PlaceInv'
  BY <1>0, <1>1, InnerSame DEF PlaceInv, Place, Kind, Kids
<1>5. CauseInv'
  BY <1>0, <1>1, <1>2 DEF CauseInv, Flawless
<1>6. TreeInv'
  BY <1>0, <1>1 DEF TreeInv, Running, Uncalled, Calling, Rejecting, Rejects, Returned, Kids, Kind, Feeder, Sink
<1>7. ExitInv'
  BY <1>1 DEF CommandInv, ExitInv
<1> QED
  BY <1>3, <1>4, <1>5, <1>6, <1>7 DEF CommandInv

LEMMA NextKeepsCommand ==
  ASSUME CommandInv, [Next]_vars
  PROVE  CommandInv'
<1>1. CASE Run
  BY <1>1, RunKeepsCommand
<1>2. CASE Step
  BY <1>2, StepActs, NodeKeepsCommand, ExitKeepsCommand, Zenon
<1>3. CASE \E n \in Nodes : AddArgs(n)
  BY <1>3, AddArgsKeepsCommand
<1>4. CASE UNCHANGED vars
  <2>1. UNCHANGED <<prog, pc, res, next, used, checkpoint, done>>
    BY <1>4 DEF vars, control, process
  <2>2. TypeInv' /\ PlaceInv'
    BY <2>1, InnerSame DEF CommandInv, TypeInv, PlaceInv, Place, Kind, Kids, IsResult
  <2>3. CauseInv'
    BY <2>1 DEF CommandInv, CauseInv, Flawless
  <2>4. TreeInv'
    BY <2>1 DEF CommandInv, TreeInv, Running, Uncalled, Calling, Rejecting, Rejects, Returned, Kids, Kind, Feeder, Sink
  <2>5. ExitInv'
    BY <2>1 DEF CommandInv, ExitInv
  <2> QED
    BY <2>2, <2>3, <2>4, <2>5 DEF CommandInv
<1> QED
  BY <1>1, <1>2, <1>3, <1>4 DEF Next

\* In every state of every tree a node runs when the one above waits for it, or
\* has given up waiting for it, and what is started once is not started again.
THEOREM CommandInvariant == Spec => []CommandInv
<1>1. CommandInv /\ [Next]_vars => CommandInv'
  BY NextKeepsCommand
<1> QED
  BY InitCommand, <1>1, PTL DEF Spec

\* BlockRun returns an error that is no failure only in a tree with a command
\* that cannot start or has a timeout: whatever the retries, runs and
\* checkpoints, no exec.Cmd is started a second time.
THEOREM ErrorsAreCaused == Spec => []ErrorsHaveCause
<1>1. CommandInv => ErrorsHaveCause
  BY DEF CommandInv, CauseInv, Flawless, ErrorsHaveCause
<1> QED
  BY CommandInvariant, <1>1, PTL

\* When the root of a tree has returned, every command has, unless a parallel
\* sequence has given up at a rejected promise.
THEOREM NothingIsLeftRunning == Spec => []NothingLeftRunning
<1>1. ASSUME CommandInv, Returned(prog.root), ~AtRest,
             \A n \in Nodes : ~Rejecting(n)
      PROVE  FALSE
  <2>0. TypeInv /\ TreeInv /\ ExitInv
    BY <1>1 DEF CommandInv
  <2> DEFINE S == {n \in Nodes : Running(n)}
  <2>1. S \in (SUBSET Nodes) \ {{}}
    <3>1. \E n \in Nodes : Running(n)
      <4>1. prog.root \in Nodes
        BY <2>0, ProgramsAssumption DEF TypeInv
      <4> QED
        BY <1>1, <2>0, <4>1 DEF AtRest, Running, Returned, ExitInv
    <3> QED
      BY <3>1
  <2>2. prog \in Programs
    BY <2>0 DEF TypeInv
  <2>3. PICK k \in S : \A n \in S : k \notin ToSet(prog.kids[n])
    <3> HIDE DEF S
    <3> QED
      BY <2>1, <2>2, TreesAssumption, Zenon
  <2>4. k # prog.root
    BY <1>1 DEF Running, Returned
  <2>5. PICK n \in Nodes : k \in ToSet(Kids(n))
    BY <2>0, <2>3, <2>4 DEF TreeInv
  <2>6. k \in Calling(n, pc[n], next[n])
    BY <1>1, <2>0, <2>3, <2>5 DEF TreeInv
  <2>7. n \in S
    BY <2>6 DEF Calling, Running
  <2> QED
    BY <2>3, <2>5, <2>7 DEF Kids
<1>2. CommandInv => NothingLeftRunning
  <2> SUFFICES ASSUME CommandInv, Returned(prog.root), ~AtRest
               PROVE  \E n \in Nodes : Rejecting(n)
    BY DEF NothingLeftRunning, Rejecting, Rejects
  <2> QED
    BY <1>1
<1> QED
  BY CommandInvariant, <1>2, PTL

-----------------------------------------------------------------------------
(* What is defined by recursion on a tree.                                 *)

\* A claim that fails for some node fails for one under which it does not.
LEMMA LeastNode ==
  ASSUME prog \in Programs, NEW T \in SUBSET Nodes, T # {}
  PROVE  \E n \in T : ToSet(Kids(n)) \cap T = {}
<1>1. T \in (SUBSET Nodes) \ {{}}
  OBVIOUS
<1> QED
  BY <1>1, TreesAssumption, Zenon DEF Kids

\* The greatest and the least of a set of indices.
LEMMA MaxIn ==
  ASSUME NEW T, NEW n \in Nat, T \subseteq 1 .. n, T # {}
  PROVE  Max(T) \in T /\ \A i \in T : i <= Max(T)
<1> DEFINE U == {n - i : i \in T}
<1>1. U \subseteq Nat /\ U # {}
  <2>1. \A i \in T : i \in 1 .. n
    OBVIOUS
  <2>2. \A i \in T : n - i \in Nat
    BY <2>1
  <2> QED
    BY <2>2
<1>2. PICK m \in U : \A k \in U : m <= k
  BY <1>1, LeastNatural, Zenon
<1>3. PICK i \in T : m = n - i
  OBVIOUS
<1>4. \A j \in T : n - j \in U
  OBVIOUS
<1>5. \A j \in T : j <= i
  <2> HIDE DEF U
  <2> QED
    BY <1>2, <1>3, <1>4
<1>6. \E x \in T : \A y \in T : x >= y
  BY <1>5
<1>7. Max(T) \in T /\ \A y \in T : Max(T) >= y
  BY <1>6, Zenon DEF Max
<1> QED
  BY <1>7

LEMMA MinIn ==
  ASSUME NEW T, NEW n \in Nat, T \subseteq 1 .. n, T # {}
  PROVE  Min(T) \in T /\ \A i \in T : Min(T) <= i
<1>1. T \subseteq Nat
  OBVIOUS
<1>2. \E x \in T : \A y \in T : x <= y
  BY <1>1, LeastNatural, Zenon
<1> QED
  BY <1>2, Zenon DEF Min

Under == [n \in Nodes |-> ToSet(Kids(n))]

LEMMA KidsFacts ==
  ASSUME prog \in Programs, NEW n \in Nodes
  PROVE  /\ Kids(n) \in Seq(Nodes) /\ Len(Kids(n)) \in Nat /\ (Kids(n) # <<>> => Len(Kids(n)) > 0)
         /\ ToSet(Kids(n)) = {Kids(n)[i] : i \in 1 .. Len(Kids(n))} /\ ToSet(Kids(n)) \subseteq Nodes
         /\ \A i \in 1 .. Len(Kids(n)) : Kids(n)[i] \in ToSet(Kids(n)) /\ Kids(n)[i] \in Nodes
         /\ \A k \in ToSet(Kids(n)) : k \in Nodes /\ \E i \in 1 .. Len(Kids(n)) : k = Kids(n)[i]
<1>1. /\ Kids(n) \in Seq(Nodes) /\ Len(Kids(n)) \in Nat /\ (Kids(n) # <<>> => Len(Kids(n)) > 0)
      /\ ToSet(Kids(n)) = {Kids(n)[i] : i \in 1 .. Len(Kids(n))} /\ ToSet(Kids(n)) \subseteq Nodes
  BY Family, Zenon DEF Kids
<1>2. \A i \in 1 .. Len(Kids(n)) : Kids(n)[i] \in ToSet(Kids(n))
  BY <1>1
<1>3. \A k \in ToSet(Kids(n)) : \E i \in 1 .. Len(Kids(n)) : k = Kids(n)[i]
  BY <1>1
<1> QED
  BY <1>1, <1>2, <1>3, Zenon

LEMMA TreeFounded ==
  ASSUME prog \in Programs
  PROVE  Founded(Nodes, Under)
<1>1. Under \in [Nodes -> SUBSET Nodes]
  BY Family DEF Under, Kids
<1>2. ASSUME NEW T \in SUBSET Nodes, T # {}
      PROVE  \E n \in T : Under[n] \cap T = {}
  BY <1>2, LeastNode DEF Under
<1> QED
  BY <1>1, <1>2 DEF Founded

LEMMA HeirsUnder ==
  ASSUME prog \in Programs, NEW n \in Nodes
  PROVE  Heirs(n) \subseteq ToSet(Kids(n)) /\ Heirs(n) \subseteq Nodes
<1>1. ToSet(Kids(n)) \subseteq Nodes /\ prog.kids[n] = Kids(n) /\ prog.kind[n] = Kind(n)
  BY Family DEF Kids, Kind
<1>2. Kind(n) \in {"pipe", "output"} => Last(Kids(n)) \in ToSet(Kids(n))
  BY <1>1, HasKids, Ends
<1> QED
  BY <1>1, <1>2 DEF Heirs, Seqs

LEMMA ReachedDefined ==
  ASSUME prog \in Programs
  PROVE  \A n \in Nodes : /\ Reached[n] = {n} \cup UNION {Reached[k] : k \in Heirs(n)}
                          /\ Reached[n] \subseteq Nodes
<1> DEFINE V     == SUBSET Nodes
           Value == [n \in Nodes |-> [f \in [Nodes -> V] |-> {n} \cup UNION {f[k] : k \in Heirs(n)}]]
<1>1. DependsBelow(Nodes, V, Under, Value)
  <2>1. ASSUME NEW n \in Nodes, NEW f \in [Nodes -> V]
        PROVE  ({n} \cup UNION {f[k] : k \in Heirs(n)}) \in V
    BY HeirsUnder
  <2>2. Value \in [Nodes -> [[Nodes -> V] -> V]]
    BY <2>1
  <2>3. ASSUME NEW n \in Nodes, NEW f \in [Nodes -> V], NEW g \in [Nodes -> V], \A k \in Under[n] : f[k] = g[k]
        PROVE  Value[n][f] = Value[n][g]
    <3>1. \A k \in Heirs(n) : f[k] = g[k]
      BY <2>3, HeirsUnder DEF Under
    <3>2. {f[k] : k \in Heirs(n)} = {g[k] : k \in Heirs(n)}
      BY <3>1
    <3> QED
      BY <3>2
  <2> HIDE DEF Value, V
  <2> QED
    BY <2>2, <2>3 DEF DependsBelow
<1>2. PICK f \in [Nodes -> V] : \A n \in Nodes : f[n] = Value[n][f]
  <2> HIDE DEF Value
  <2>1. V # {}
    OBVIOUS
  <2> HIDE DEF V
  <2>2. Defined(Nodes, V, Value)
    BY <1>1, <2>1, TreeFounded, RecursionExists, Zenon
  <2> QED
    BY <2>2, Zenon DEF Defined
<1>3. f = [n \in Nodes |-> {n} \cup UNION {f[k] : k \in Heirs(n)}]
  <2>1. \A n \in Nodes : f[n] = {n} \cup UNION {f[k] : k \in Heirs(n)}
    BY <1>2
  <2> QED
    BY <2>1
<1>4. Reached = [n \in Nodes |-> {n} \cup UNION {Reached[k] : k \in Heirs(n)}]
  BY <1>3, Zenon DEF Reached
<1>5. Reached \in [Nodes -> SUBSET Nodes]
  <2> DEFINE T == {n \in Nodes : ~(Reached[n] \subseteq Nodes)}
  <2> SUFFICES ASSUME T # {}
               PROVE  FALSE
    BY <1>4
  <2>1. PICK n \in T : ToSet(Kids(n)) \cap T = {}
    BY LeastNode
  <2>2. \A k \in Heirs(n) : k \in Nodes /\ k \notin T
    BY <2>1, HeirsUnder
  <2>3. Reached[n] = {n} \cup UNION {Reached[k] : k \in Heirs(n)}
    BY <1>4, <2>1
  <2> QED
    BY <2>1, <2>2, <2>3
<1> QED
  BY <1>4, <1>5

LEMMA ReachedSame ==
  ASSUME prog' = prog
  PROVE  Reached' = Reached
BY Zenon DEF Reached, Heirs, Kind, Kids

LEMMA SucceededDefined ==
  ASSUME prog \in Programs
  PROVE  \A n \in Nodes : Succeeded[n] =
           /\ Kind(n) = "cmd" => /\ codes[n] # <<>> /\ Last(codes[n]) = 0
                                 /\ \A f \in ToSet(Kids(n)) : f \in prog.pipeFail => Succeeded[f]
           /\ Kind(n) = "serial" =>
                \A k \in ToSet(Kids(n)) : n \in prog.failFast \/ k = Last(Kids(n)) => Succeeded[k]
           /\ Kind(n) = "or" /\ Kids(n) # <<>> => \E k \in ToSet(Kids(n)) : Succeeded[k]
           /\ Kind(n) = "parallel" => \A k \in ToSet(Kids(n)) : Succeeded[k]
           /\ Kind(n) = "pipe" /\ ~Inner[n] /\ n \in prog.pipeFail => Succeeded[Feeder(n)]
           /\ Kind(n) \in {"pipe", "output"} => Succeeded[Sink(n)]
<1> DEFINE Right(n, f) ==
             /\ Kind(n) = "cmd" => /\ codes[n] # <<>> /\ Last(codes[n]) = 0
                                   /\ \A k \in ToSet(Kids(n)) : k \in prog.pipeFail => f[k]
             /\ Kind(n) = "serial" =>
                  \A k \in ToSet(Kids(n)) : n \in prog.failFast \/ k = Last(Kids(n)) => f[k]
             /\ Kind(n) = "or" /\ Kids(n) # <<>> => \E k \in ToSet(Kids(n)) : f[k]
             /\ Kind(n) = "parallel" => \A k \in ToSet(Kids(n)) : f[k]
             /\ Kind(n) = "pipe" /\ ~Inner[n] /\ n \in prog.pipeFail => f[Feeder(n)]
             /\ Kind(n) \in {"pipe", "output"} => f[Sink(n)]
           V     == BOOLEAN
           Value == [n \in Nodes |-> [f \in [Nodes -> V] |-> Right(n, f)]]
<1>1. DependsBelow(Nodes, V, Under, Value)
  <2>1. ASSUME NEW n \in Nodes, NEW f \in [Nodes -> V]
        PROVE  Right(n, f) \in V
    BY Zenon
  <2>2. Value \in [Nodes -> [[Nodes -> V] -> V]]
    <3> HIDE DEF Right
    <3> QED
      BY <2>1
  <2>3. ASSUME NEW n \in Nodes, NEW f \in [Nodes -> V], NEW g \in [Nodes -> V], \A k \in Under[n] : f[k] = g[k]
        PROVE  Value[n][f] = Value[n][g]
    <3>1. \A k \in ToSet(Kids(n)) : f[k] = g[k]
      BY <2>3 DEF Under
    <3>2. Kind(n) \in {"pipe", "output"} => Feeder(n) \in ToSet(Kids(n)) /\ Sink(n) \in ToSet(Kids(n))
      BY HasKids, Ends DEF Kids, Kind, Feeder, Sink
    <3>3. Right(n, f) = Right(n, g)
      BY <3>1, <3>2
    <3> QED
      BY <3>3, Zenon
  <2> HIDE DEF Value, V
  <2> QED
    BY <2>2, <2>3 DEF DependsBelow
<1>2. PICK f \in [Nodes -> V] : \A n \in Nodes : f[n] = Value[n][f]
  <2> HIDE DEF Value
  <2>1. V # {}
    OBVIOUS
  <2> HIDE DEF V
  <2>2. Defined(Nodes, V, Value)
    BY <1>1, <2>1, TreeFounded, RecursionExists, Zenon
  <2> QED
    BY <2>2, Zenon DEF Defined
<1>3. f = [n \in Nodes |-> Right(n, f)]
  <2>1. \A n \in Nodes : f[n] = Right(n, f)
    BY <1>2, Zenon
  <2> HIDE DEF Right
  <2> QED
    BY <2>1
<1>4. Succeeded = [n \in Nodes |-> Right(n, Succeeded)]
  BY <1>3, Zenon DEF Succeeded
<1> QED
  BY <1>4, Zenon

LEMMA ExitCodeDefined ==
  ASSUME prog \in Programs, \A n \in Nodes : codes[n] \in Seq(Int)
  PROVE  \A n \in Nodes : ExitCode[n] = LastCode(n, ExitCode)
<1> DEFINE Coded(n, f) == {i \in 1 .. Len(Kids(n)) : Kids(n)[i] \in Heirs(n) /\ f[Kids(n)[i]] # None}
           V     == Int \cup {None}
           Value == [n \in Nodes |-> [f \in [Nodes -> V] |-> LastCode(n, f)]]
<1>1. DependsBelow(Nodes, V, Under, Value)
  <2>0. ASSUME NEW n \in Nodes, NEW f, Coded(n, f) # {}
        PROVE  Kids(n)[Max(Coded(n, f))] \in ToSet(Kids(n)) /\ Kids(n)[Max(Coded(n, f))] \in Nodes
    <3>1. Len(Kids(n)) \in Nat /\ ToSet(Kids(n)) = {Kids(n)[i] : i \in 1 .. Len(Kids(n))} /\ ToSet(Kids(n)) \subseteq Nodes
      BY Family DEF Kids
    <3>2. Max(Coded(n, f)) \in Coded(n, f)
      BY <2>0, <3>1, MaxIn, Zenon
    <3> QED
      BY <3>1, <3>2
  <2>1. ASSUME NEW n \in Nodes, NEW f \in [Nodes -> V]
        PROVE  LastCode(n, f) \in V
    <3>1. codes[n] # <<>> => Last(codes[n]) \in Int
      BY SequenceEnds, SequenceFacts
    <3>2. Coded(n, f) # {} => f[Kids(n)[Max(Coded(n, f))]] \in V
      <4> HIDE DEF V, Coded
      <4> QED
        BY <2>0
    <3> QED
      BY <3>1, <3>2 DEF LastCode
  <2>2. Value \in [Nodes -> [[Nodes -> V] -> V]]
      BY <2>1
  <2>3. ASSUME NEW n \in Nodes, NEW f \in [Nodes -> V], NEW g \in [Nodes -> V], \A k \in Under[n] : f[k] = g[k]
        PROVE  Value[n][f] = Value[n][g]
    <3>1. \A k \in ToSet(Kids(n)) : f[k] = g[k]
      BY <2>3 DEF Under
    <3>2. Coded(n, f) = Coded(n, g)
      <4>1. \A i \in 1 .. Len(Kids(n)) : Kids(n)[i] \in ToSet(Kids(n))
        BY KidsFacts
      <4>2. \A i \in 1 .. Len(Kids(n)) : f[Kids(n)[i]] = g[Kids(n)[i]]
        BY <3>1, <4>1
      <4> QED
        BY <4>2
    <3>3. LastCode(n, f) = LastCode(n, g)
      <4>1. Coded(n, f) # {} => f[Kids(n)[Max(Coded(n, f))]] = g[Kids(n)[Max(Coded(n, f))]]
        <5> HIDE DEF Coded
        <5> QED
          BY <2>0, <3>1
      <4> QED
        BY <3>2, <4>1 DEF LastCode
    <3> QED
      BY <3>3
  <2> HIDE DEF Value, V
  <2> QED
    BY <2>2, <2>3 DEF DependsBelow
<1>2. PICK f \in [Nodes -> V] : \A n \in Nodes : f[n] = Value[n][f]
  <2> HIDE DEF Value
  <2>1. V # {}
    OBVIOUS
  <2> HIDE DEF V
  <2>2. Defined(Nodes, V, Value)
    BY <1>1, <2>1, TreeFounded, RecursionExists, Zenon
  <2> QED
    BY <2>2, Zenon DEF Defined
<1>3. f = [n \in Nodes |-> LastCode(n, f)]
  <2>1. \A n \in Nodes : f[n] = LastCode(n, f)
    BY <1>2, Zenon
  <2> QED
    BY <2>1
<1>4. ExitCode = [n \in Nodes |-> LastCode(n, ExitCode)]
  BY <1>3, Zenon DEF ExitCode
<1> QED
  BY <1>4, Zenon

-----------------------------------------------------------------------------
(* What a node that has returned says of those under it.                   *)

\* Exit codes and results are numbers, a failure has a positive code.
IsNumbered(r) == r.rc \in Int /\ r.code \in Int /\ (r.err = "failure" => r.code > 0)
NumbersInv ==
  /\ codes \in [Nodes -> Seq(Nat \cup {-1})]
  /\ \A n \in Nodes : IsNumbered(res[n])

FedWhole(n) == Kids(n) # <<>> => Returned(Feeder(n)) /\ ~CutShort(n)

\* A command that has returned was aborted, or cut short by its feeder, or
\* returned its last exit code; its feeder has returned before it starts.
CommandSays(n) ==
  /\ pc[n] \in {"start", "attempt"} => FedWhole(n)
  /\ Returned(n) =>
       \/ res[n].err = "error"
       \/ Kids(n) # <<>> /\ Returned(Feeder(n)) /\ CutShort(n) /\ res[n] = res[Feeder(n)]
       \/ /\ FedWhole(n) /\ codes[n] # <<>>
          /\ res[n] = Ok(Last(codes[n])) \/ res[n].err = "failure"

\* the child k has returned no error; it is the last that n calls
Clean(k)     == Returned(k) /\ res[k].err = "none"
Stops(n, k)  == IF Kind(n) = "serial" THEN n \in prog.failFast /\ res[k].rc > 0 ELSE res[k].rc = 0
Passed(n, i) == \A j \in 1 .. Len(Kids(n)) : j < i => Clean(Kids(n)[j]) /\ ~Stops(n, Kids(n)[j])

\* A serial or an or that has returned no error returns what the child returned
\* that stopped it, or the last one; it has passed those before, the others are idle.
EndsAt(n, i) ==
  /\ Passed(n, i) /\ Clean(Kids(n)[i]) /\ res[n].rc = res[Kids(n)[i]].rc
  /\ i = Len(Kids(n)) \/ Stops(n, Kids(n)[i])
  /\ \A j \in 1 .. Len(Kids(n)) : j > i => pc[Kids(n)[j]] = "idle"
LineSays(n) ==
  /\ pc[n] = "waiting" => Passed(n, next[n])
  /\ Clean(n) => \/ Kids(n) = <<>> /\ res[n] = Ok(0)
                 \/ \E i \in 1 .. Len(Kids(n)) : EndsAt(n, i)

\* A parallel sequence that has returned 0 has waited for every child.
ParallelSays(n) ==
  Clean(n) => \/ res[n].rc > 0
              \/ res[n].rc = 0 /\ \A k \in ToSet(Kids(n)) : Clean(k) /\ res[k].rc <= 0

\* A pipe returns what its sink does, unless its feeder, if it is run, cuts it short.
PipeCut(n) == Cut(res[Feeder(n)], n \in prog.pipeFail)
PipeSays(n) ==
  /\ pc[n] = "draining" /\ ~Inner[n] => Returned(Feeder(n)) /\ ~PipeCut(n)
  /\ Returned(n) /\ ~Inner[n] =>
       /\ Returned(Feeder(n))
       /\ PipeCut(n) => res[n] = res[Feeder(n)]
       /\ ~PipeCut(n) => Returned(Sink(n)) /\ res[n] = res[Sink(n)]
  /\ Returned(n) /\ Inner[n] => Returned(Sink(n)) /\ res[n] = res[Sink(n)]

\* An outputter returns what its sink does, a failure as an error.
OutputSays(n) ==
  Returned(n) => /\ Returned(Sink(n))
                 /\ \/ res[n].err = "failure"
                    \/ res[n] = res[Sink(n)] /\ ~(res[n].err = "none" /\ res[n].rc > 0)

Says(n) ==
  /\ Kind(n) = "cmd" => CommandSays(n)
  /\ Kind(n) \in {"serial", "or"} => LineSays(n)
  /\ Kind(n) = "parallel" => ParallelSays(n)
  /\ Kind(n) = "pipe" => PipeSays(n)
  /\ Kind(n) = "output" => OutputSays(n)
  /\ Kind(n) = "unused" => ~Returned(n)
SaysInv == \A n \in Nodes : Says(n)

\* What a sequence has not called yet has no exit codes.
ResetInv ==
  \A n \in Nodes : Kind(n) \in Seqs /\ pc[n] \notin {"idle", "called"} =>
    \A x \in Reached[n] : pc[x] = "idle" => codes[x] = <<>>

ResultsInv == CommandInv /\ NumbersInv /\ SaysInv /\ ResetInv

\* What the other nodes see of a step of n.
Frame(n) ==
  /\ prog' = prog /\ Running(n) /\ pc'[n] # "idle"
  /\ \A k \in Nodes \ {n} :
       /\ res'[k] = res[k] /\ next'[k] = next[k]
       /\ pc'[k] = pc[k] \/ (pc[k] = "idle" /\ pc'[k] = "called" /\ k \in ToSet(Kids(n)))
       /\ codes'[k] = codes[k] \/ (pc[k] = "idle" /\ codes'[k] = <<>>)

\* Under a node that has called none, all are idle.
LEMMA IdleBelow ==
  ASSUME CommandInv, NEW n \in Nodes, pc[n] \in {"idle", "called"}
  PROVE  \A x \in Reached[n] : x \in Nodes /\ (x # n => pc[x] = "idle")
<1> DEFINE T == {m \in Nodes : pc[m] \in {"idle", "called"} /\ \E x \in Reached[m] : x # m /\ pc[x] # "idle"}
<1>0. prog \in Programs /\ TreeInv
  BY DEF CommandInv, TypeInv
<1>1. T = {}
  <2> SUFFICES ASSUME T # {}
               PROVE  FALSE
    OBVIOUS
  <2>1. PICK m \in T : ToSet(Kids(m)) \cap T = {}
    <3>1. T \in SUBSET Nodes
      OBVIOUS
    <3> HIDE DEF T
    <3> QED
      BY <1>0, <3>1, LeastNode, Zenon
  <2>2. PICK x \in Reached[m] : x # m /\ pc[x] # "idle"
    BY <2>1
  <2>3. PICK k \in Heirs(m) : x \in Reached[k]
    BY <1>0, <2>1, <2>2, ReachedDefined
  <2>4. k \in ToSet(Kids(m)) /\ k \in Nodes
    BY <1>0, <2>1, <2>3, HeirsUnder
  <2>5. pc[k] = "idle"
    BY <1>0, <2>1, <2>4 DEF TreeInv, Uncalled
  <2>6. k \in T
    BY <2>2, <2>3, <2>4, <2>5
  <2> QED
    BY <2>1, <2>4, <2>6
<1> QED
  BY <1>0, <1>1, ReachedDefined

LEMMA ActsOnCodes ==
  ASSUME CommandInv, NumbersInv, NEW n \in Nodes, Acts(n)
  PROVE  /\ codes' \in [Nodes -> Seq(Nat \cup {-1})]
         /\ \A k \in Nodes \ {n} : codes'[k] = codes[k] \/ (pc[k] = "idle" /\ codes'[k] = <<>>)
         /\ Kind(n) \in Seqs /\ pc[n] = "called" => \A x \in Reached[n] : codes'[x] = <<>>
<1>0. codes \in [Nodes -> Seq(Nat \cup {-1})]
  BY DEF NumbersInv
<1> DEFINE Q == /\ codes' \in [Nodes -> Seq(Nat \cup {-1})]
                /\ \A k \in Nodes \ {n} : codes'[k] = codes[k] \/ (pc[k] = "idle" /\ codes'[k] = <<>>)
                /\ Kind(n) \in Seqs /\ pc[n] = "called" => \A x \in Reached[n] : codes'[x] = <<>>
<1>1. ASSUME NEW ns \in SUBSET Nodes, Reset(ns)
      PROVE  /\ codes' \in [Nodes -> Seq(Nat \cup {-1})]
             /\ \A k \in Nodes : codes'[k] = IF k \in ns THEN <<>> ELSE codes[k]
  BY <1>0, <1>1 DEF Reset
<1>2. CASE SerialRun(n) \/ OrRun(n) \/ ParallelRun(n)
  <2>1. Reset(Reached[n]) /\ pc[n] = "called"
    BY <1>2 DEF SerialRun, OrRun, ParallelRun, SeqRun, Called
  <2>2. \A x \in Reached[n] : x \in Nodes /\ (x # n => pc[x] = "idle")
    BY <2>1, IdleBelow
  <2>3. PICK ns : ns = Reached[n]
    OBVIOUS
  <2>4. ns \in SUBSET Nodes /\ Reset(ns)
    BY <2>1, <2>2, <2>3
  <2> QED
    BY <1>1, <2>2, <2>3, <2>4
<1>3. CASE Start(n)
  <2>1. Reset({n}) /\ Kind(n) \notin Seqs
    BY <1>3 DEF Start, Seqs
  <2>2. PICK ns : ns = {n}
    OBVIOUS
  <2>3. ns \in SUBSET Nodes /\ Reset(ns)
    BY <2>1, <2>2
  <2> QED
    BY <1>1, <2>1, <2>2, <2>3
<1>4. CASE \E c \in {0, Code[n], -1} : Attempt(n, c)
  <2>1. PICK c \in {0, Code[n], -1} : codes' = [codes EXCEPT ![n] = Append(codes[n], c)] /\ pc[n] = "attempt"
    BY <1>4 DEF Attempt
  <2>2. c \in Nat \cup {-1}
    BY <2>1, CodeAssumption
  <2>3. codes[n] \in Seq(Nat \cup {-1})
    BY <1>0
  <2>4. Append(codes[n], c) \in Seq(Nat \cup {-1})
    BY <2>2, <2>3
  <2>5. PICK s : s = Append(codes[n], c)
    OBVIOUS
  <2>6. codes' = [codes EXCEPT ![n] = s] /\ s \in Seq(Nat \cup {-1})
    BY <2>1, <2>4, <2>5, Zenon
  <2> QED
    BY <1>0, <2>1, <2>6
<1>5. CASE \/ Feed(n) \/ Fed(n) \/ Aborts(n)
           \/ SerialNext(n) \/ OrNext(n) \/ Resolved(n) \/ Rejected(n)
           \/ PipeRun(n) \/ PipeFed(n) \/ SinkRun(n) \/ PipeDrained(n)
           \/ OutputRun(n) \/ OutputReturns(n)
  <2>1. codes' = codes
    BY <1>5 DEF Feed, Fed, Aborts, Abort, SerialNext, OrNext, SeqNext, Resolved, Rejected, PipeRun, PipeFed, SinkRun, PipeDrained,
                OutputRun, OutputReturns
  <2>2. ~(Kind(n) \in Seqs /\ pc[n] = "called")
    BY <1>5 DEF Feed, Fed, Aborts, Abort, SerialNext, OrNext, SeqNext, Resolved, Rejected, PipeRun, PipeFed, SinkRun, PipeDrained,
                OutputRun, OutputReturns, Seqs
  <2> QED
    BY <1>0, <2>1, <2>2
<1> QED
  BY <1>2, <1>3, <1>4, <1>5 DEF Acts

LEMMA ActsFrame ==
  ASSUME CommandInv, NumbersInv, NEW n \in Nodes, Acts(n)
  PROVE  Frame(n)
<1>0. TypeInv /\ PlaceInv /\ CauseInv /\ TreeInv
  BY DEF CommandInv
<1>1. StepOf(n)
  BY <1>0, CommandSteps, AttemptSteps, SeqRunSteps, SeqNextSteps, ParallelSteps, PipeSteps, OutputSteps, Zenon DEF Acts
<1>2. PICK r : \E place \in Labels \ {"idle"}, called \in SUBSET Nodes, i \in Nat :
        IsResult(r) /\ Moves(n, place, called, r, i) /\ Fits(n, place, called, r, i)
  BY <1>1, Zenon DEF StepOf
<1>3. PICK place \in Labels \ {"idle"}, called \in SUBSET Nodes, i \in Nat :
        IsResult(r) /\ Moves(n, place, called, r, i) /\ Fits(n, place, called, r, i)
  BY <1>2, Zenon
<1>4. /\ prog' = prog
      /\ \A k \in Nodes : /\ pc'[k] = IF k = n THEN place ELSE IF k \in called THEN "called" ELSE pc[k]
                          /\ next'[k] = IF k = n THEN i ELSE next[k]
                          /\ res'[k] = IF k = n THEN r ELSE res[k]
  BY <1>0, <1>3 DEF Moves, TypeInv
<1>5. Running(n) /\ called \subseteq Uncalled(n, pc[n], next[n])
  BY <1>3 DEF Fits
<1>6. /\ n \notin called /\ called \subseteq ToSet(Kids(n))
      /\ \A k \in called : pc[k] = "idle" /\ k \in Nodes
  BY <1>0, <1>5, Others
<1>7. \A k \in Nodes \ {n} : codes'[k] = codes[k] \/ (pc[k] = "idle" /\ codes'[k] = <<>>)
  BY ActsOnCodes
<1> QED
  BY <1>4, <1>5, <1>6, <1>7 DEF Frame

\* Nodes that have returned stay as they are in a step of another.
LEMMA ReturnedStay ==
  ASSUME CommandInv, NEW n \in Nodes, Frame(n)
  PROVE  \A k \in Nodes : Returned(k) =>
           k # n /\ pc'[k] = "returned" /\ res'[k] = res[k] /\ codes'[k] = codes[k]
BY DEF Frame, Running, Returned

\* What another node says of those under it stays true.
LEMMA OthersSay ==
  ASSUME CommandInv, NEW n \in Nodes, Frame(n), NEW m \in Nodes \ {n}, Says(m)
  PROVE  Says(m)'
<1>0. prog \in Programs /\ prog' = prog
  BY DEF CommandInv, TypeInv, Frame
<1>1. CASE pc'[m] # pc[m]
  <2>1. pc'[m] = "called"
    BY <1>1 DEF Frame
  <2> QED
    BY <2>1 DEF Says, CommandSays, LineSays, ParallelSays, PipeSays, OutputSays, Returned, Clean
<1>2. CASE pc'[m] = pc[m]
  <2>1. res'[m] = res[m] /\ next'[m] = next[m] /\ (Returned(m) => codes'[m] = codes[m])
    BY DEF Frame, Returned
  <2>2. ASSUME NEW k \in ToSet(Kids(m))
        PROVE  /\ Returned(k) => pc'[k] = "returned" /\ res'[k] = res[k]
               /\ pc[k] = "idle" => pc'[k] = "idle"
    <3>1. k \in Nodes
      BY <1>0, KidsFacts
    <3>2. k \notin ToSet(Kids(n))
      BY <1>0, OneParent DEF Kids
    <3> QED
      BY <3>1, <3>2, ReturnedStay DEF Frame, Running
  <2>3. CASE Kind(m) = "cmd"
    <3>1. Kids(m) # <<>> => Feeder(m) \in ToSet(Kids(m))
      BY <1>0, Ends DEF Kids, Feeder
    <3>2. CommandSays(m)
      BY <2>3 DEF Says
    <3>3. FedWhole(m) => FedWhole(m)'
      BY <1>0, <2>2, <3>1 DEF FedWhole, CutShort, Feeder, Kids, Returned
    <3>4. CommandSays(m)'
      <4>1. pc[m] \in {"start", "attempt"} => FedWhole(m)'
        BY <3>2, <3>3 DEF CommandSays
      <4>2. ASSUME Returned(m)
            PROVE  \/ res'[m].err = "error"
                   \/ Kids(m) # <<>> /\ pc'[Feeder(m)] = "returned" /\ CutShort(m)' /\ res'[m] = res'[Feeder(m)]
                   \/ /\ FedWhole(m)' /\ codes'[m] # <<>>
                      /\ res'[m] = Ok(Last(codes'[m])) \/ res'[m].err = "failure"
        <5>1. CASE res[m].err = "error"
          BY <2>1, <5>1
        <5>2. CASE Kids(m) # <<>> /\ Returned(Feeder(m)) /\ CutShort(m) /\ res[m] = res[Feeder(m)]
          <6>1. pc'[Feeder(m)] = "returned" /\ res'[Feeder(m)] = res[Feeder(m)]
            BY <2>2, <3>1, <5>2
          <6>2. CutShort(m)'
            BY <1>0, <5>2, <6>1 DEF CutShort, Feeder, Kids
          <6> QED
            BY <2>1, <5>2, <6>1, <6>2
        <5>3. CASE /\ FedWhole(m) /\ codes[m] # <<>>
                   /\ res[m] = Ok(Last(codes[m])) \/ res[m].err = "failure"
          BY <2>1, <3>3, <4>2, <5>3, Zenon
        <5> QED
          BY <3>2, <4>2, <5>1, <5>2, <5>3 DEF CommandSays
      <4> QED
        BY <1>0, <1>2, <4>1, <4>2 DEF CommandSays, Returned, Feeder, Kids, Ok
    <3> QED
      BY <1>0, <2>3, <3>4 DEF Says, Kind
  <2>4. CASE Kind(m) \in {"serial", "or"}
    <3>0. /\ \A i \in 1 .. Len(Kids(m)) : Kids(m)[i] \in ToSet(Kids(m))
          /\ Len(Kids(m)) \in Nat
      BY <1>0, KidsFacts
    <3>1. LineSays(m)
      BY <2>4 DEF Says
    <3>2. ASSUME NEW i, Passed(m, i)
          PROVE  Passed(m, i)'
      BY <1>0, <2>2, <3>0, <3>2 DEF Passed, Clean, Returned, Stops, Kids, Kind
    <3>3. ASSUME NEW i \in 1 .. Len(Kids(m)), EndsAt(m, i)
          PROVE  EndsAt(m, i)'
      <4>1. Passed(m, i)'
        BY <3>2, <3>3 DEF EndsAt
      <4>2. Clean(Kids(m)[i])' /\ (Stops(m, Kids(m)[i]) => Stops(m, Kids(m)[i])') /\ res'[m].rc = res'[Kids(m)[i]].rc
        BY <1>0, <2>1, <2>2, <3>0, <3>3 DEF EndsAt, Clean, Returned, Stops, Kids, Kind
      <4>3. \A j \in 1 .. Len(Kids(m)) : j > i => pc'[Kids(m)[j]] = "idle"
        BY <2>2, <3>0, <3>3 DEF EndsAt
      <4>4. i = Len(Kids(m)) \/ Stops(m, Kids(m)[i])
        BY <3>3 DEF EndsAt
      <4> QED
        BY <1>0, <4>1, <4>2, <4>3, <4>4 DEF EndsAt, Kids
    <3>4. LineSays(m)'
      <4>2. Clean(m) => \/ Kids(m) = <<>> /\ res'[m] = Ok(0)
                        \/ \E i \in 1 .. Len(Kids(m)) : EndsAt(m, i)'
        BY <2>1, <3>1, <3>3 DEF LineSays
      <4>3. Clean(m)' => Clean(m)
        BY <1>2, <2>1 DEF Clean, Returned
      <4>4. Kids(m)' = Kids(m) /\ Ok(0)' = Ok(0)
        BY <1>0 DEF Kids, Ok
      <4>5. PICK i : i = next[m]
        OBVIOUS
      <4>6. pc'[m] = "waiting" => Passed(m, i)'
        BY <1>2, <3>1, <3>2, <4>5 DEF LineSays
      <4>7. pc'[m] = "waiting" => Passed(m, next[m])'
        BY <2>1, <4>5, <4>6 DEF Passed
      <4> QED
        BY <4>2, <4>3, <4>4, <4>7 DEF LineSays
    <3> QED
      BY <1>0, <2>4, <3>4 DEF Says, Kind
  <2>5. CASE Kind(m) = "parallel"
    <3>1. ParallelSays(m)
      BY <2>5 DEF Says
    <3>2. ParallelSays(m)'
      BY <1>0, <1>2, <2>1, <2>2, <3>1 DEF ParallelSays, Clean, Returned, Kids
    <3> QED
      BY <1>0, <2>5, <3>2 DEF Says, Kind
  <2>6. CASE Kind(m) = "pipe"
    <3>1. Feeder(m) \in ToSet(Kids(m)) /\ Sink(m) \in ToSet(Kids(m))
      BY <1>0, <2>6, HasKids, Ends DEF Kids, Kind, Feeder, Sink
    <3>2. PipeSays(m)
      BY <2>6 DEF Says
    <3>3. Feeder(m)' = Feeder(m) /\ Sink(m)' = Sink(m)
      BY <1>0 DEF Feeder, Sink, Kids
    <3>4. Returned(Feeder(m)) => pc'[Feeder(m)] = "returned" /\ res'[Feeder(m)] = res[Feeder(m)]
      BY <2>2, <3>1
    <3>5. Returned(Sink(m)) => pc'[Sink(m)] = "returned" /\ res'[Sink(m)] = res[Sink(m)]
      BY <2>2, <3>1
    <3>6. Returned(Feeder(m)) => (PipeCut(m)' <=> PipeCut(m))
      BY <1>0, <3>3, <3>4 DEF PipeCut
    <3>8. Inner' = Inner
      BY <1>0, InnerSame
    <3>7. PipeSays(m)'
      BY <1>2, <2>1, <3>2, <3>3, <3>4, <3>5, <3>6, <3>8 DEF PipeSays, Returned
    <3> QED
      BY <1>0, <2>6, <3>7 DEF Says, Kind
  <2>7. CASE Kind(m) = "output"
    <3>1. Sink(m) \in ToSet(Kids(m))
      BY <1>0, <2>7, HasKids, Ends DEF Kids, Kind, Sink
    <3>2. OutputSays(m)
      BY <2>7 DEF Says
    <3>3. OutputSays(m)'
      BY <1>0, <1>2, <2>1, <2>2, <3>1, <3>2 DEF OutputSays, Returned, Sink, Kids
    <3> QED
      BY <1>0, <2>7, <3>3 DEF Says, Kind
  <2>8. CASE Kind(m) = "unused"
    BY <1>0, <1>2, <2>8 DEF Says, Kind, Returned
  <2>9. Kind(m) \in Kinds
    BY <1>0, Family DEF Kind
  <2> QED
    BY <2>3, <2>4, <2>5, <2>6, <2>7, <2>8, <2>9 DEF Kinds
<1> QED
  BY <1>1, <1>2

LEMMA ReturnsAndCalls ==
  ASSUME CommandInv, NEW n \in Nodes
  PROVE  /\ \A r : Returns(n, r) => pc'[n] = "returned" /\ res'[n] = r
         /\ \A ks, place : Calls(n, ks, place) => pc'[n] = place
         /\ res' = res => res'[n] = res[n]
BY DEF CommandInv, TypeInv, Returns, Calls

LEMMA NumberedFacts ==
  /\ \A rc \in Int : IsNumbered(Ok(rc)) /\ Ok(rc).rc = rc /\ Ok(rc).err = "none"
  /\ \A rc \in Int : IsNumbered(Error(rc)) /\ Error(rc).err = "error"
  /\ \A rc, code \in Int : code > 0 => IsNumbered(Failure(rc, code)) /\ Failure(rc, code).err = "failure"
  /\ \A r : IsResult(r) /\ IsNumbered(r) =>
       IsNumbered([r EXCEPT !.rc = -1]) /\ [r EXCEPT !.rc = -1].err = r.err
<1>1. \A rc \in Int : IsNumbered(Ok(rc)) /\ Ok(rc).rc = rc /\ Ok(rc).err = "none"
  BY DEF IsNumbered, Ok
<1>2. \A rc \in Int : IsNumbered(Error(rc)) /\ Error(rc).err = "error"
  BY DEF IsNumbered, Error
<1>3. \A rc, code \in Int : code > 0 => IsNumbered(Failure(rc, code)) /\ Failure(rc, code).err = "failure"
  BY DEF IsNumbered, Failure
<1>4. ASSUME NEW r, IsResult(r), IsNumbered(r)
      PROVE  IsNumbered([r EXCEPT !.rc = -1]) /\ [r EXCEPT !.rc = -1].err = r.err
  <2>1. PICK x, y, z : r = [rc |-> x, err |-> y, code |-> z]
    BY <1>4 DEF IsResult
  <2>2. [r EXCEPT !.rc = -1] = [rc |-> -1, err |-> y, code |-> z] /\ r.err = y
    BY <2>1
  <2>3. z \in Int /\ (y = "failure" => z > 0)
    BY <1>4, <2>1 DEF IsNumbered
  <2>4. PICK q : q = [rc |-> -1, err |-> y, code |-> z]
    OBVIOUS
  <2>5. IsNumbered(q) /\ q.err = y
    BY <2>3, <2>4 DEF IsNumbered
  <2> QED
    BY <2>2, <2>4, <2>5, Zenon
<1> QED
  BY <1>1, <1>2, <1>3, <1>4

\* What a command says after a step of its own.
LEMMA CommandOwn ==
  ASSUME CommandInv, NumbersInv, NEW n \in Nodes, Says(n), Frame(n),
         \/ Feed(n) \/ Fed(n) \/ Start(n) \/ Aborts(n)
         \/ \E c \in {0, Code[n], -1} : Attempt(n, c)
  PROVE  Says(n)' /\ IsNumbered(res'[n])
<1>0. /\ prog \in Programs /\ prog' = prog /\ IsNumbered(res[n])
      /\ Kids(n)' = Kids(n) /\ Kind(n)' = Kind(n) /\ Feeder(n)' = Feeder(n)
  BY DEF CommandInv, TypeInv, Frame, NumbersInv, Kids, Kind, Feeder
<1>1. Kind(n) = "cmd"
  BY DEF Feed, Fed, Start, Aborts, Abort, Attempt, CommandInv, PlaceInv, Place
<1>2. SUFFICES CommandSays(n)' /\ IsNumbered(res'[n])
  BY <1>0, <1>1 DEF Says
<1>3. CommandSays(n)
  BY <1>1 DEF Says
<1>4. Kids(n) # <<>> /\ Returned(Feeder(n)) =>
        /\ Feeder(n) \in Nodes
        /\ pc'[Feeder(n)] = "returned" /\ res'[Feeder(n)] = res[Feeder(n)] /\ (CutShort(n)' <=> CutShort(n))
  <2>1. Kids(n) # <<>> => Feeder(n) \in Nodes
    BY <1>0, Ends DEF Kids, Feeder
  <2> QED
    BY <1>0, <2>1, ReturnedStay DEF CutShort
<1>5. FedWhole(n) => FedWhole(n)'
  BY <1>0, <1>4 DEF FedWhole, Returned
<1>6. CASE Feed(n)
  <2>1. pc'[n] = "feeding" /\ res'[n] = res[n]
    BY <1>6, ReturnsAndCalls DEF Feed
  <2> QED
    BY <1>0, <2>1 DEF CommandSays, Returned
<1>7. CASE Fed(n)
  <2>1. Kids(n) # <<>> /\ Returned(Feeder(n))
    BY <1>1, <1>7 DEF Fed, CommandInv, PlaceInv, Place
  <2>2. CASE CutShort(n)
    <3>1. pc'[n] = "returned" /\ res'[n] = res[Feeder(n)]
      BY <1>7, <2>2, ReturnsAndCalls DEF Fed
    <3> QED
      BY <1>0, <1>4, <2>1, <2>2, <3>1 DEF CommandSays, Returned, NumbersInv
  <2>3. CASE ~CutShort(n)
    <3>1. pc'[n] = "start" /\ res'[n] = res[n]
      BY <1>7, <2>3, ReturnsAndCalls DEF Fed
    <3>2. FedWhole(n)'
      BY <1>5, <2>1, <2>3 DEF FedWhole
    <3> QED
      BY <1>0, <3>1, <3>2 DEF CommandSays, Returned
  <2> QED
    BY <2>2, <2>3
<1>8. CASE Start(n)
  <2>1. pc'[n] = "attempt" /\ res'[n] = res[n] /\ (pc[n] = "start" \/ Kids(n) = <<>>)
    BY <1>8, ReturnsAndCalls DEF Start
  <2>2. FedWhole(n)
    BY <1>3, <2>1 DEF CommandSays, FedWhole
  <2> QED
    BY <1>0, <1>5, <2>1, <2>2 DEF CommandSays, Returned
<1>9. CASE Aborts(n)
  <2>0. PICK c \in {0, Code[n], -1} : Abort(n, c)
    BY <1>9 DEF Aborts
  <2>1. pc'[n] = "returned" /\ res'[n] = Error(c)
    BY <2>0, ReturnsAndCalls DEF Abort
  <2>2. IsNumbered(Error(c)) /\ Error(c).err = "error"
    <3>1. c \in Int
      BY CodeAssumption
    <3> QED
      BY <3>1, NumberedFacts
  <2>3. res'[n].err = "error" /\ IsNumbered(res'[n])
    BY <2>1, <2>2, Zenon
  <2> QED
    BY <2>1, <2>3 DEF CommandSays
<1>10. ASSUME NEW c \in {0, Code[n], -1}, Attempt(n, c)
       PROVE  CommandSays(n)' /\ IsNumbered(res'[n])
  <2>1. /\ pc[n] = "attempt" /\ codes' = [codes EXCEPT ![n] = Append(codes[n], c)]
        /\ (Returns(n, Outcome(n, c)) \/ (pc' = pc /\ res' = res))
    BY <1>10 DEF Attempt
  <2>2. FedWhole(n)'
    BY <1>3, <1>5, <2>1 DEF CommandSays
  <2>3. CASE pc' = pc /\ res' = res
    BY <1>0, <2>1, <2>2, <2>3, ReturnsAndCalls DEF CommandSays, Returned
  <2>4. CASE Returns(n, Outcome(n, c))
    <3>1. pc'[n] = "returned" /\ res'[n] = Outcome(n, c)
      BY <2>4, ReturnsAndCalls
    <3>2. c \in Int
      BY <1>10, CodeAssumption
    <3>3. codes[n] \in Seq(Nat \cup {-1}) /\ codes'[n] = Append(codes[n], c)
      BY <2>1 DEF NumbersInv
    <3>4. codes'[n] # <<>> /\ Last(codes'[n]) = c
      BY <3>2, <3>3 DEF Last
    <3>5. (res'[n] = Ok(c) \/ res'[n].err = "failure") /\ IsNumbered(res'[n])
      <4>1. CASE n \in errorOnFailure /\ c > 0
        <5>1. res'[n] = Failure(-1, c)
          BY <3>1, <4>1, Zenon DEF Outcome
        <5>2. IsNumbered(Failure(-1, c)) /\ Failure(-1, c).err = "failure"
          BY <3>2, <4>1, NumberedFacts
        <5> QED
          BY <5>1, <5>2, Zenon
      <4>2. CASE ~(n \in errorOnFailure /\ c > 0)
        <5>1. res'[n] = Ok(c)
          BY <3>1, <4>2, Zenon DEF Outcome
        <5> QED
          BY <3>2, <5>1, NumberedFacts, Zenon
      <4> QED
        BY <4>1, <4>2
    <3>6. res'[n] = Ok(Last(codes'[n])) \/ res'[n].err = "failure"
      BY <3>4, <3>5, Zenon
    <3> QED
      BY <2>2, <3>1, <3>4, <3>5, <3>6, Zenon DEF CommandSays, Ok
  <2> QED
    BY <2>1, <2>3, <2>4
<1> QED
  BY <1>6, <1>7, <1>8, <1>9, <1>10

\* What a sequence says when it is run.
LEMMA SeqRunOwn ==
  ASSUME CommandInv, NumbersInv, NEW n \in Nodes, Frame(n),
         SerialRun(n) \/ OrRun(n) \/ ParallelRun(n)
  PROVE  Says(n)' /\ IsNumbered(res'[n])
<1>0. /\ prog \in Programs /\ prog' = prog /\ IsNumbered(res[n])
      /\ Kids(n)' = Kids(n) /\ Kind(n)' = Kind(n)
  BY DEF CommandInv, TypeInv, Frame, NumbersInv, Kids, Kind
<1>1. Kind(n) \in Seqs /\ \E first : SeqRun(n, Retries(n), first) \/ SeqRun(n, prog.retries[n], first)
  BY DEF SerialRun, OrRun, ParallelRun, Seqs
<1>2. /\ next' = [next EXCEPT ![n] = 1]
      /\ \/ ToSet(Kids(n)) = {} /\ pc'[n] = "returned" /\ res'[n] = Ok(0)
         \/ pc'[n] = "waiting" /\ res'[n] = res[n]
  BY <1>1, ReturnsAndCalls, Zenon DEF SeqRun
<1>3. next'[n] = 1
  BY <1>2 DEF CommandInv, TypeInv
<1>4. CASE pc'[n] = "waiting" /\ res'[n] = res[n]
  <2>1. Passed(n, next[n])'
    BY <1>3, <1>0, KidsFacts DEF Passed
  <2> QED
    BY <1>0, <1>1, <1>4, <2>1 DEF Says, LineSays, ParallelSays, Clean, Returned, Seqs
<1>5. CASE ToSet(Kids(n)) = {} /\ pc'[n] = "returned" /\ res'[n] = Ok(0)
  <2>1. Kids(n) = <<>>
    <3>1. Len(Kids(n)) = 0
      BY <1>0, <1>5, KidsFacts
    <3> QED
      BY <1>0, <3>1, KidsFacts
  <2>2. IsNumbered(Ok(0)) /\ Ok(0).rc = 0
    BY NumberedFacts
  <2>3. IsNumbered(res'[n]) /\ res'[n].rc = 0
    BY <1>5, <2>2, Zenon
  <2>4. LineSays(n)' /\ ParallelSays(n)'
    BY <1>0, <1>5, <2>1, <2>3 DEF LineSays, ParallelSays, Ok
  <2> QED
    BY <1>0, <1>1, <2>3, <2>4 DEF Says, Seqs
<1> QED
  BY <1>2, <1>4, <1>5

\* What a serial or an or says when a child has returned.
LEMMA SeqNextOwn ==
  ASSUME CommandInv, NumbersInv, NEW n \in Nodes, Says(n), Frame(n),
         SerialNext(n) \/ OrNext(n)
  PROVE  Says(n)' /\ IsNumbered(res'[n])
<1>0. /\ prog \in Programs /\ prog' = prog /\ IsNumbered(res[n]) /\ next[n] \in Nat
      /\ Kids(n)' = Kids(n) /\ Kind(n)' = Kind(n)
  BY DEF CommandInv, TypeInv, Frame, NumbersInv, Kids, Kind
<1>1. PICK i : i = next[n]
  OBVIOUS
<1> DEFINE k == Kids(n)[i]
<1>2. /\ Kind(n) \in {"serial", "or"} /\ pc[n] = "waiting" /\ Returned(k)
      /\ \/ res[k].err # "none" /\ Returns(n, [res[k] EXCEPT !.rc = -1])
         \/ res[k].err = "none" /\ (Stops(n, k) \/ i = Len(Kids(n))) /\ Returns(n, res[k])
         \/ /\ res[k].err = "none" /\ ~Stops(n, k) /\ i # Len(Kids(n))
            /\ Calls(n, {Kids(n)[i + 1]}, "waiting") /\ next' = [next EXCEPT ![n] = @ + 1] /\ res' = res
  <2>1. CASE SerialNext(n)
    <3>1. Kind(n) = "serial" /\ (FailsFast(n) <=> Stops(n, k))
      BY <1>1, <2>1 DEF SerialNext, FailsFast, rcNext, Stops
    <3> QED
      BY <1>1, <2>1, <3>1 DEF SerialNext, SeqNext
  <2>2. CASE OrNext(n)
    <3>1. Kind(n) = "or" /\ (rcNext(n) = 0 <=> Stops(n, k))
      BY <1>1, <2>2 DEF OrNext, rcNext, Stops
    <3> QED
      BY <1>1, <2>2, <3>1 DEF OrNext, SeqNext
  <2> QED
    BY <2>1, <2>2
<1>3. /\ i \in 1 .. Len(Kids(n)) /\ k \in Nodes /\ Len(Kids(n)) \in Nat
      /\ \A j \in 1 .. Len(Kids(n)) : Kids(n)[j] \in ToSet(Kids(n)) /\ Kids(n)[j] \in Nodes
  BY <1>0, <1>1, <1>2, KidsFacts DEF CommandInv, PlaceInv, Place, Seqs
<1>4. Passed(n, i)
  BY <1>1, <1>2 DEF Says, LineSays
<1>5. Passed(n, i)' /\ Returned(k)' /\ res'[k] = res[k] /\ (Stops(n, k)' <=> Stops(n, k))
  <2>1. \A j \in 1 .. Len(Kids(n)) : Returned(Kids(n)[j]) =>
          pc'[Kids(n)[j]] = "returned" /\ res'[Kids(n)[j]] = res[Kids(n)[j]]
    BY <1>3, ReturnedStay
  <2>2. Passed(n, i)'
    BY <1>0, <1>4, <2>1 DEF Passed, Clean, Returned, Stops
  <2> QED
    BY <1>0, <1>2, <1>3, <2>1, <2>2 DEF Returned, Stops
<1> SUFFICES LineSays(n)' /\ IsNumbered(res'[n])
  BY <1>0, <1>2 DEF Says
<1>6. CASE res[k].err # "none" /\ Returns(n, [res[k] EXCEPT !.rc = -1])
  <2>1. IsResult(res[k]) /\ IsNumbered(res[k])
    BY <1>3 DEF CommandInv, TypeInv, NumbersInv
  <2>2. pc'[n] = "returned" /\ res'[n] = [res[k] EXCEPT !.rc = -1]
    BY <1>6, ReturnsAndCalls
  <2>3. IsNumbered(res'[n]) /\ res'[n].err # "none"
    BY <1>6, <2>1, <2>2, NumberedFacts, Zenon
  <2> QED
    BY <2>2, <2>3 DEF LineSays, Clean
<1>7. CASE res[k].err = "none" /\ (Stops(n, k) \/ i = Len(Kids(n))) /\ Returns(n, res[k])
  <2>1. pc'[n] = "returned" /\ res'[n] = res[k] /\ IsNumbered(res[k])
    BY <1>3, <1>7, ReturnsAndCalls DEF NumbersInv
  <2>2. \A j \in 1 .. Len(Kids(n)) : j > i => pc'[Kids(n)[j]] = "idle"
    <3>1. ASSUME NEW j \in 1 .. Len(Kids(n)), j > i
          PROVE  pc'[Kids(n)[j]] = "idle"
      <4>1. Kids(n)[j] \in Uncalled(n, pc[n], next[n])
        BY <1>1, <1>2, <1>3, <3>1 DEF Uncalled
      <4>2. pc[Kids(n)[j]] = "idle"
        BY <4>1 DEF CommandInv, TreeInv
      <4>3. pc' = [pc EXCEPT ![n] = "returned"]
        BY <1>7 DEF Returns
      <4> QED
        BY <1>2, <1>3, <4>2, <4>3 DEF CommandInv, TypeInv
    <3> QED
      BY <3>1
  <2>3. Clean(k)'
    BY <1>0, <1>5, <1>7 DEF Clean
  <2>4. EndsAt(n, i)'
    BY <1>0, <1>5, <1>7, <2>1, <2>2, <2>3 DEF EndsAt
  <2> QED
    BY <1>0, <1>3, <2>1, <2>4 DEF LineSays
<1>8. CASE /\ res[k].err = "none" /\ ~Stops(n, k) /\ i # Len(Kids(n))
           /\ Calls(n, {Kids(n)[i + 1]}, "waiting") /\ next' = [next EXCEPT ![n] = @ + 1] /\ res' = res
  <2>1. pc'[n] = "waiting" /\ res'[n] = res[n] /\ next'[n] = i + 1
    BY <1>0, <1>1, <1>8, ReturnsAndCalls DEF CommandInv, TypeInv
  <2>2. Clean(k)' /\ ~Stops(n, k)'
    BY <1>0, <1>5, <1>8 DEF Clean
  <2>3. \A j \in 1 .. Len(Kids(n)) : j < i + 1 => j < i \/ j = i
    BY <1>3
  <2>4. Passed(n, next[n])'
    BY <1>0, <1>5, <2>1, <2>2, <2>3 DEF Passed
  <2> QED
    BY <1>0, <2>1, <2>4 DEF LineSays, Clean, Returned
<1> QED
  BY <1>2, <1>6, <1>7, <1>8

\* What a parallel sequence says when its promises are resolved, or one is rejected.
LEMMA ParallelOwn ==
  ASSUME CommandInv, NumbersInv, NEW n \in Nodes, Frame(n),
         Resolved(n) \/ Rejected(n)
  PROVE  Says(n)' /\ IsNumbered(res'[n])
<1>0. /\ prog \in Programs /\ prog' = prog
      /\ Kids(n)' = Kids(n) /\ Kind(n)' = Kind(n) /\ Kind(n) = "parallel"
  BY DEF CommandInv, TypeInv, Frame, Kids, Kind, Resolved, Rejected
<1> SUFFICES ParallelSays(n)' /\ IsNumbered(res'[n])
  BY <1>0 DEF Says
<1>1. CASE Resolved(n)
  <2> DEFINE failed == {i \in 1 .. Len(Kids(n)) : res[Kids(n)[i]].rc > 0}
  <2>1. /\ pc'[n] = "returned" /\ res'[n] = Ok(FirstFailure(n))
        /\ \A k \in ToSet(Kids(n)) : Clean(k)
    BY <1>1, ReturnsAndCalls DEF Resolved, Clean
  <2>2. \A k \in ToSet(Kids(n)) : k \in Nodes /\ Clean(k)' /\ res'[k] = res[k]
    <3>1. \A k \in ToSet(Kids(n)) : k \in Nodes
      BY <1>0, KidsFacts
    <3> QED
      BY <2>1, <3>1, ReturnedStay DEF Clean, Returned
  <2>3. \A k \in Nodes : res[k].rc \in Int
    BY DEF NumbersInv, IsNumbered
  <2>4. \/ FirstFailure(n) \in Int /\ FirstFailure(n) > 0
        \/ FirstFailure(n) = 0 /\ \A k \in ToSet(Kids(n)) : res[k].rc <= 0
    <3>1. CASE failed = {}
      <4>1. FirstFailure(n) = 0
        BY <3>1 DEF FirstFailure
      <4>2. \A k \in ToSet(Kids(n)) : \E i \in 1 .. Len(Kids(n)) : k = Kids(n)[i]
        BY <1>0, KidsFacts
      <4>3. ASSUME NEW k \in ToSet(Kids(n))
            PROVE  res[k].rc <= 0
        <5>1. PICK i \in 1 .. Len(Kids(n)) : k = Kids(n)[i]
          BY <4>2
        <5>2. ~(res[k].rc > 0)
          BY <3>1, <5>1
        <5>3. res[k].rc \in Int
          BY <2>2, <2>3
        <5> QED
          BY <5>2, <5>3
      <4> QED
        BY <4>1, <4>3
    <3>2. CASE failed # {}
      <4>1. Min(failed) \in failed
        <5>1. failed \subseteq 1 .. Len(Kids(n)) /\ Len(Kids(n)) \in Nat
          BY <1>0, KidsFacts
        <5> HIDE DEF failed
        <5> QED
          BY <3>2, <5>1, MinIn, Zenon
      <4>2. FirstFailure(n) = res[Kids(n)[Min(failed)]].rc
        BY <3>2 DEF FirstFailure
      <4>3. Kids(n)[Min(failed)] \in Nodes
        BY <1>0, <4>1, KidsFacts
      <4> QED
        BY <2>3, <4>1, <4>2, <4>3
    <3> QED
      BY <3>1, <3>2
  <2>5. FirstFailure(n) \in Int
    BY <2>4
  <2>6. IsNumbered(res'[n]) /\ res'[n].rc = FirstFailure(n)
    BY <2>1, <2>5, NumberedFacts, Zenon
  <2> QED
    BY <1>0, <2>2, <2>4, <2>6 DEF ParallelSays
<1>2. CASE Rejected(n)
  <2>1. PICK k \in ToSet(Kids(n)) :
          /\ res[k].err # "none"
          /\ \/ res[k].err = "failure" /\ Returns(n, Ok(res[k].code))
             \/ Returns(n, [res[k] EXCEPT !.rc = -1])
    BY <1>2 DEF Rejected
  <2>2. IsResult(res[k]) /\ IsNumbered(res[k])
    <3>1. k \in Nodes
      BY <1>0, KidsFacts
    <3> QED
      BY <3>1 DEF CommandInv, TypeInv, NumbersInv
  <2>3. CASE res[k].err = "failure" /\ Returns(n, Ok(res[k].code))
    <3>1. res[k].code \in Int /\ res[k].code > 0
      BY <2>2, <2>3 DEF IsNumbered
    <3>2. pc'[n] = "returned" /\ res'[n] = Ok(res[k].code)
      BY <2>3, ReturnsAndCalls
    <3>3. IsNumbered(res'[n]) /\ res'[n].rc = res[k].code
      BY <3>1, <3>2, NumberedFacts, Zenon
    <3> QED
      BY <3>1, <3>3 DEF ParallelSays
  <2>4. CASE Returns(n, [res[k] EXCEPT !.rc = -1])
    <3>1. pc'[n] = "returned" /\ res'[n] = [res[k] EXCEPT !.rc = -1]
      BY <2>4, ReturnsAndCalls
    <3>2. IsNumbered(res'[n]) /\ res'[n].err # "none"
      BY <2>1, <2>2, <3>1, NumberedFacts, Zenon
    <3> QED
      BY <3>2 DEF ParallelSays, Clean
  <2> QED
    BY <2>1, <2>3, <2>4
<1> QED
  BY <1>1, <1>2

\* What a pipe says after a step of its own.
LEMMA PipeOwn ==
  ASSUME CommandInv, NumbersInv, NEW n \in Nodes, Says(n), Frame(n),
         PipeRun(n) \/ PipeFed(n) \/ SinkRun(n) \/ PipeDrained(n)
  PROVE  Says(n)' /\ IsNumbered(res'[n])
<1>0. /\ prog \in Programs /\ prog' = prog /\ IsNumbered(res[n])
      /\ Kids(n)' = Kids(n) /\ Kind(n)' = Kind(n) /\ Feeder(n)' = Feeder(n) /\ Sink(n)' = Sink(n)
  BY DEF CommandInv, TypeInv, Frame, NumbersInv, Kids, Kind, Feeder, Sink
<1>1. Kind(n) = "pipe"
  BY DEF PipeRun, PipeFed, SinkRun, PipeDrained, CommandInv, PlaceInv, Place
<1>2. Feeder(n) \in Nodes /\ Sink(n) \in Nodes
  BY <1>0, <1>1, HasKids, Ends DEF Kids, Kind, Feeder, Sink
<1>3. /\ Returned(Feeder(n)) => Returned(Feeder(n))' /\ res'[Feeder(n)] = res[Feeder(n)] /\ (PipeCut(n)' <=> PipeCut(n))
      /\ Returned(Sink(n)) => Returned(Sink(n))' /\ res'[Sink(n)] = res[Sink(n)]
      /\ IsNumbered(res[Feeder(n)]) /\ IsNumbered(res[Sink(n)])
  BY <1>0, <1>2, ReturnedStay DEF PipeCut, Returned, NumbersInv
<1> SUFFICES PipeSays(n)' /\ IsNumbered(res'[n])
  BY <1>0, <1>1 DEF Says
<1>7. Inner' = Inner
  BY <1>0, InnerSame
<1>4. CASE PipeRun(n)
  <2>1. pc'[n] = "feeding" /\ res'[n] = res[n]
    BY <1>4, ReturnsAndCalls DEF PipeRun
  <2> QED
    BY <1>0, <2>1 DEF PipeSays, Returned
<1>5. CASE PipeFed(n)
  <2>1. Returned(Feeder(n)) /\ ~Inner[n]
    BY <1>1, <1>5 DEF PipeFed, CommandInv, PlaceInv, Place
  <2>2. CASE PipeCut(n)
    <3>1. pc'[n] = "returned" /\ res'[n] = res[Feeder(n)]
      BY <1>5, <2>2, ReturnsAndCalls DEF PipeFed, PipeReturns, PipeCut
    <3> QED
      BY <1>0, <1>3, <1>7, <2>1, <2>2, <3>1 DEF PipeSays
  <2>3. CASE ~PipeCut(n)
    <3>1. pc'[n] = "draining" /\ res'[n] = res[n]
      BY <1>5, <2>3, ReturnsAndCalls DEF PipeFed, PipeCut
    <3> QED
      BY <1>0, <1>3, <1>7, <2>1, <2>3, <3>1 DEF PipeSays, Returned
  <2> QED
    BY <2>2, <2>3
<1>6. CASE PipeDrained(n)
  <2>1. pc[n] = "draining" /\ Returned(Sink(n)) /\ pc'[n] = "returned" /\ res'[n] = res[Sink(n)]
    BY <1>6, ReturnsAndCalls DEF PipeDrained, PipeReturns
  <2>2. ~Inner[n] => Returned(Feeder(n)) /\ ~PipeCut(n)
    BY <1>1, <2>1 DEF Says, PipeSays
  <2> QED
    BY <1>0, <1>3, <1>7, <2>1, <2>2 DEF PipeSays
<1>8. CASE SinkRun(n)
  <2>1. pc'[n] = "draining" /\ res'[n] = res[n] /\ Inner[n]
    BY <1>8, ReturnsAndCalls DEF SinkRun
  <2> QED
    BY <1>0, <1>7, <2>1 DEF PipeSays, Returned
<1> QED
  BY <1>4, <1>5, <1>6, <1>8

\* What an outputter says after a step of its own.
LEMMA OutputOwn ==
  ASSUME CommandInv, NumbersInv, NEW n \in Nodes, Frame(n),
         OutputRun(n) \/ OutputReturns(n)
  PROVE  Says(n)' /\ IsNumbered(res'[n])
<1>0. /\ prog \in Programs /\ prog' = prog /\ IsNumbered(res[n])
      /\ Kids(n)' = Kids(n) /\ Kind(n)' = Kind(n) /\ Sink(n)' = Sink(n)
  BY DEF CommandInv, TypeInv, Frame, NumbersInv, Kids, Kind, Sink
<1>1. Kind(n) = "output"
  BY DEF OutputRun, OutputReturns, CommandInv, PlaceInv, Place
<1>2. Sink(n) \in Nodes
  BY <1>0, <1>1, HasKids, Ends DEF Kids, Kind, Sink
<1> SUFFICES OutputSays(n)' /\ IsNumbered(res'[n])
  BY <1>0, <1>1 DEF Says
<1>3. CASE OutputRun(n)
  <2>1. pc'[n] = "reading" /\ res'[n] = res[n]
    BY <1>3, ReturnsAndCalls DEF OutputRun
  <2> QED
    BY <1>0, <2>1 DEF OutputSays, Returned
<1>4. CASE OutputReturns(n)
  <2>1. Returned(Sink(n)) /\ Returned(Sink(n))' /\ res'[Sink(n)] = res[Sink(n)] /\ IsNumbered(res[Sink(n)])
    BY <1>0, <1>2, <1>4, ReturnedStay DEF OutputReturns, Returned, NumbersInv
  <2> DEFINE r == res[Sink(n)]
  <2>2. CASE r.err = "none" /\ r.rc > 0
    <3>1. pc'[n] = "returned" /\ res'[n] = Failure(-1, r.rc)
      BY <1>4, <2>2, ReturnsAndCalls DEF OutputReturns
    <3>2. r.rc \in Int
      BY <2>1 DEF IsNumbered
    <3>3. IsNumbered(res'[n]) /\ res'[n].err = "failure"
      <4> HIDE DEF r
      <4> QED
        BY <2>2, <3>1, <3>2, NumberedFacts
    <3> QED
      BY <2>1, <3>3 DEF OutputSays
  <2>3. CASE ~(r.err = "none" /\ r.rc > 0)
    <3>1. pc'[n] = "returned" /\ res'[n] = r
      BY <1>4, <2>3, ReturnsAndCalls DEF OutputReturns
    <3> QED
      BY <1>0, <2>1, <2>3, <3>1 DEF OutputSays
  <2> QED
    BY <2>2, <2>3
<1> QED
  BY <1>3, <1>4

LEMMA ActsKeepResults ==
  ASSUME ResultsInv, NEW n \in Nodes, Acts(n)
  PROVE  ResultsInv'
<1>0. CommandInv /\ NumbersInv /\ SaysInv /\ ResetInv
  BY DEF ResultsInv
<1>1. CommandInv'
  BY <1>0, NodeKeepsCommand
<1>2. Frame(n) /\ Says(n)
  BY <1>0, ActsFrame DEF SaysInv
<1>3. Says(n)' /\ IsNumbered(res'[n])
  BY <1>0, <1>2, CommandOwn, SeqRunOwn, SeqNextOwn, ParallelOwn, PipeOwn, OutputOwn, Zenon DEF Acts
<1>4. NumbersInv'
  <2>1. codes' \in [Nodes -> Seq(Nat \cup {-1})]
    BY <1>0, ActsOnCodes
  <2>2. \A k \in Nodes : IsNumbered(res'[k])
    BY <1>0, <1>2, <1>3 DEF Frame, NumbersInv
  <2> QED
    BY <2>1, <2>2 DEF NumbersInv, IsNumbered
<1>5. SaysInv'
  <2>1. ASSUME NEW m \in Nodes
        PROVE  Says(m)'
    BY <1>0, <1>2, <1>3, OthersSay DEF SaysInv
  <2> QED
    BY <2>1 DEF SaysInv
<1>6. ResetInv'
  <2>1. Reached' = Reached /\ prog' = prog
    BY <1>2, ReachedSame DEF Frame
  <2>2. ASSUME NEW m \in Nodes, Kind(m) \in Seqs, pc'[m] \notin {"idle", "called"},
               NEW x \in Reached[m], pc'[x] = "idle"
        PROVE  codes'[x] = <<>>
    <3>1. x \in Nodes
      <4>1. prog \in Programs
        BY <1>0 DEF CommandInv, TypeInv
      <4> QED
        BY <2>2, <4>1, ReachedDefined
    <3>2. x # n /\ pc[x] = "idle" /\ (codes'[x] = codes[x] \/ codes'[x] = <<>>)
      BY <1>2, <2>2, <3>1 DEF Frame
    <3>3. CASE m = n /\ pc[n] = "called"
      BY <1>0, <2>2, <3>3, ActsOnCodes
    <3>4. CASE ~(m = n /\ pc[n] = "called")
      <4>1. pc[m] \notin {"idle", "called"}
        BY <1>2, <2>2, <3>4 DEF Frame, Running
      <4>2. codes[x] = <<>>
        BY <1>0, <2>2, <3>2, <4>1 DEF ResetInv
      <4> QED
        BY <3>2, <4>2
    <3> QED
      BY <3>3, <3>4
  <2> QED
    BY <2>1, <2>2 DEF ResetInv, Kind
<1> QED
  BY <1>1, <1>4, <1>5, <1>6 DEF ResultsInv

\* A node that is idle, or called, says nothing.
LEMMA SilentSay ==
  ASSUME NEW n \in Nodes, pc[n] \in {"idle", "called"}
  PROVE  Says(n)
BY DEF Says, CommandSays, LineSays, ParallelSays, PipeSays, OutputSays, Clean, Returned

LEMMA InitResults == Init => ResultsInv
<1> SUFFICES ASSUME Init
             PROVE  ResultsInv
  OBVIOUS
<1>1. CommandInv
  BY InitCommand
<1>2. \A n \in Nodes : pc[n] = "idle" /\ codes[n] = <<>>
  BY DEF Init
<1>3. NumbersInv
  <2>1. IsNumbered(Ok(0))
    BY NumberedFacts
  <2>2. \A n \in Nodes : res[n] = Ok(0)
    BY DEF Init
  <2>3. \A n \in Nodes : IsNumbered(res[n])
    BY <2>1, <2>2, Zenon
  <2>4. codes \in [Nodes -> Seq(Nat \cup {-1})]
    BY DEF Init
  <2> QED
    BY <2>3, <2>4 DEF NumbersInv
<1>4. SaysInv
  BY <1>2, SilentSay DEF SaysInv
<1>5. ResetInv
  BY <1>2 DEF ResetInv
<1> QED
  BY <1>1, <1>3, <1>4, <1>5 DEF ResultsInv

LEMMA NextKeepsResults ==
  ASSUME ResultsInv, [Next]_vars
  PROVE  ResultsInv'
<1>0. CommandInv /\ NumbersInv /\ SaysInv /\ ResetInv /\ CommandInv'
  BY NextKeepsCommand DEF ResultsInv
<1>1. CASE Run
  <2>1. /\ prog' = prog /\ res' = res /\ codes' = codes
        /\ \A n \in Nodes : pc'[n] \in {"idle", "called"}
    BY <1>1 DEF Run
  <2>2. NumbersInv'
    BY <1>0, <2>1 DEF NumbersInv, IsNumbered
  <2>3. SaysInv'
    BY <2>1 DEF SaysInv, Says, CommandSays, LineSays, ParallelSays, PipeSays, OutputSays, Clean, Returned
  <2>4. ResetInv'
    BY <2>1 DEF ResetInv
  <2> QED
    BY <1>0, <2>2, <2>3, <2>4 DEF ResultsInv
<1>2. CASE \E n \in Nodes : Acts(n)
  BY <1>2, ActsKeepResults, Zenon
<1>4. CASE \E n \in Nodes : Exit(n)
  <2>1. /\ prog' = prog /\ res' = res /\ codes' = codes
        /\ \A n \in Nodes : pc'[n] = "exited"
    BY <1>4 DEF Exit
  <2>2. NumbersInv'
    BY <1>0, <2>1 DEF NumbersInv, IsNumbered
  <2>3. SaysInv'
    BY <2>1 DEF SaysInv, Says, CommandSays, LineSays, ParallelSays, PipeSays, OutputSays, Clean, Returned
  <2>4. ResetInv'
    <3>1. prog \in Programs /\ Reached' = Reached
      BY <1>0, <2>1, ReachedSame DEF CommandInv, TypeInv
    <3> QED
      BY <2>1, <3>1, ReachedDefined DEF ResetInv, Kind
  <2> QED
    BY <1>0, <2>2, <2>3, <2>4 DEF ResultsInv
<1>3. CASE UNCHANGED vars \/ \E n \in Nodes : AddArgs(n)
  <2>1. prog' = prog /\ res' = res /\ codes' = codes /\ pc' = pc /\ next' = next
    BY <1>3 DEF AddArgs, vars, control
  <2>2. NumbersInv'
    BY <1>0, <2>1 DEF NumbersInv, IsNumbered
  <2>3. SaysInv'
    <3>1. ASSUME NEW n \in Nodes, Says(n)
          PROVE  Says(n)'
      <4>1. CommandSays(n) => CommandSays(n)'
        BY <2>1 DEF CommandSays, FedWhole, CutShort, Returned, Feeder, Kids, Ok
      <4>2. LineSays(n) => LineSays(n)'
        BY <2>1 DEF LineSays, Passed, EndsAt, Stops, Clean, Returned, Kids, Kind, Ok
      <4>3. ParallelSays(n) => ParallelSays(n)'
        BY <2>1 DEF ParallelSays, Clean, Returned, Kids
      <4>4. PipeSays(n) => PipeSays(n)'
        BY <2>1, InnerSame DEF PipeSays, PipeCut, Returned, Feeder, Sink, Kids
      <4>5. OutputSays(n) => OutputSays(n)'
        BY <2>1 DEF OutputSays, Returned, Sink, Kids
      <4>6. Kind(n)' = Kind(n) /\ (Returned(n)' <=> Returned(n))
        BY <2>1 DEF Kind, Returned
      <4> QED
        BY <3>1, <4>1, <4>2, <4>3, <4>4, <4>5, <4>6, Zenon DEF Says
    <3> QED
      BY <1>0, <3>1 DEF SaysInv
  <2>4. ResetInv'
    <3>1. Reached' = Reached
      BY <2>1, ReachedSame
    <3> QED
      BY <1>0, <2>1, <3>1 DEF ResetInv, Kind
  <2> QED
    BY <1>0, <2>2, <2>3, <2>4 DEF ResultsInv
<1> QED
  BY <1>1, <1>2, <1>3, <1>4, StepActs, Zenon DEF Next

\* In every reachable state a node that has returned tells the truth about the
\* nodes it has called (blockSerial, blockOr, blockParallel, BlockRun of commands,
\* pipes and outputters), and what is not called yet has no exit codes.
THEOREM ResultsInvariant == Spec => []ResultsInv
<1>1. ResultsInv /\ [Next]_vars => ResultsInv'
  BY NextKeepsResults
<1> QED
  BY InitResults, <1>1, PTL DEF Spec

-----------------------------------------------------------------------------
(* What a run that returns 0 has done.                                     *)

\* A node that returns no error returns no negative code, unless a command it
\* ran was killed.
LEMMA NoneNegative ==
  ASSUME ResultsInv, \A n \in Nodes : Returned(n) => ~Killed(n)
  PROVE  \A n \in Nodes : Clean(n) => res[n].rc \in Nat
<1> DEFINE T == {n \in Nodes : Clean(n) /\ res[n].rc < 0}
<1>0. /\ prog \in Programs /\ NumbersInv /\ SaysInv
      /\ \A n \in Nodes : res[n].rc \in Int
  BY DEF ResultsInv, CommandInv, TypeInv, NumbersInv, IsNumbered
<1> SUFFICES ASSUME T # {}
             PROVE  FALSE
  BY <1>0
<1>1. PICK n \in T : ToSet(Kids(n)) \cap T = {}
  <2>1. T \in SUBSET Nodes
    OBVIOUS
  <2> HIDE DEF T
  <2> QED
    BY <1>0, <2>1, LeastNode, Zenon
<1>2. /\ n \in Nodes /\ Returned(n) /\ res[n].err = "none" /\ res[n].rc < 0 /\ Says(n)
      /\ \A k \in ToSet(Kids(n)) : k \in Nodes /\ (Clean(k) => ~(res[k].rc < 0))
  BY <1>0, <1>1, KidsFacts DEF Clean, SaysInv
<1>3. CASE Kind(n) = "cmd"
  <2>1. ~(Kids(n) # <<>> /\ CutShort(n) /\ res[n] = res[Feeder(n)])
    <3>1. ASSUME Kids(n) # <<>>, CutShort(n), res[n] = res[Feeder(n)]
          PROVE  FALSE
      <4>1. res[n].rc > 0
        BY <1>2, <3>1 DEF CutShort, Cut
      <4> QED
        BY <1>0, <1>2, <4>1
    <3> QED
      BY <3>1
  <2>2. codes[n] # <<>> /\ res[n] = Ok(Last(codes[n]))
    BY <1>2, <1>3, <2>1 DEF Says, CommandSays
  <2>3. Last(codes[n]) \in Nat \cup {-1}
    <3>1. codes[n] \in Seq(Nat \cup {-1})
      BY <1>0, <1>2 DEF NumbersInv
    <3> QED
      BY <2>2, <3>1 DEF Last
  <2>4. Ok(Last(codes[n])).rc = Last(codes[n])
    BY <2>3, NumberedFacts
  <2>5. res[n].rc = Last(codes[n])
    BY <2>2, <2>4, Zenon
  <2>6. Last(codes[n]) = -1
    BY <1>2, <2>3, <2>5
  <2> QED
    BY <1>2, <2>2, <2>6 DEF Killed
<1>4. CASE Kind(n) \in {"serial", "or"}
  <2>1. (Kids(n) = <<>> /\ res[n] = Ok(0)) \/ \E i \in 1 .. Len(Kids(n)) : EndsAt(n, i)
    BY <1>2, <1>4 DEF Says, LineSays, Clean
  <2>2. ~(res[n] = Ok(0))
    <3>1. Ok(0).rc = 0
      BY NumberedFacts
    <3>2. res[n].rc # 0
      BY <1>0, <1>2
    <3> QED
      BY <3>1, <3>2, Zenon
  <2>3. PICK i \in 1 .. Len(Kids(n)) : EndsAt(n, i)
    BY <2>1, <2>2
  <2>4. Kids(n)[i] \in ToSet(Kids(n)) /\ Clean(Kids(n)[i]) /\ res[Kids(n)[i]].rc = res[n].rc
    BY <1>0, <1>2, <2>3, KidsFacts DEF EndsAt
  <2> QED
    BY <1>2, <2>4
<1>5. CASE Kind(n) = "parallel"
  BY <1>0, <1>2, <1>5 DEF Says, ParallelSays, Clean
<1>6. CASE Kind(n) \in {"pipe", "output"}
  <2>1. Sink(n) \in ToSet(Kids(n))
    BY <1>0, <1>2, <1>6, HasKids, Ends DEF Kids, Kind, Sink
  <2>2. ASSUME Kind(n) = "pipe"
        PROVE  Inner[n] \/ ~PipeCut(n)
    <3> SUFFICES ASSUME ~Inner[n]
                 PROVE  ~PipeCut(n)
      OBVIOUS
    <3>1. PipeCut(n) => res[n] = res[Feeder(n)]
      BY <1>2, <2>2 DEF Says, PipeSays
    <3>2. PipeCut(n) => res[n].rc > 0
      BY <1>2, <3>1 DEF PipeCut, Cut
    <3> QED
      BY <1>0, <1>2, <3>2
  <2>3. Returned(Sink(n)) /\ res[n] = res[Sink(n)]
    BY <1>2, <1>6, <2>2 DEF Says, PipeSays, OutputSays
  <2> QED
    BY <1>2, <2>1, <2>3 DEF Clean
<1>7. CASE Kind(n) = "unused"
  BY <1>2, <1>7 DEF Says
<1>8. Kind(n) \in Kinds
  BY <1>0, <1>2, Family DEF Kind
<1> QED
  BY <1>3, <1>4, <1>5, <1>6, <1>7, <1>8 DEF Kinds

\* the feeder that must succeed for n to, and has returned, returned 0
LEMMA FeederClean ==
  ASSUME ResultsInv, NEW n \in Nodes, NEW f \in Nodes, \A k \in Nodes : Returned(k) => ~Killed(k),
         Returned(f), res[f].err # "failure", ~Cut(res[f], TRUE)
  PROVE  Clean(f) /\ res[f].rc = 0
<1>1. res[f].err \in {"none", "error", "failure"} /\ res[f].rc \in Int
  BY DEF ResultsInv, CommandInv, TypeInv, IsResult, NumbersInv, IsNumbered
<1>2. Clean(f) /\ ~(res[f].rc > 0)
  BY <1>1 DEF Cut, Clean
<1> QED
  BY <1>1, <1>2, NoneNegative

LEMMA ZeroSucceeds ==
  ASSUME ResultsInv, \A n \in Nodes : Returned(n) => ~Killed(n) /\ ~DefeatsPipeFail(n)
  PROVE  \A n \in Nodes : Clean(n) /\ res[n].rc = 0 => Succeeded[n]
<1> DEFINE T == {n \in Nodes : Clean(n) /\ res[n].rc = 0 /\ ~Succeeded[n]}
<1>0. /\ prog \in Programs /\ NumbersInv /\ SaysInv
      /\ \A n \in Nodes : Returned(n) => ~Killed(n)
      /\ \A n \in Nodes : Clean(n) => res[n].rc \in Nat
  BY NoneNegative DEF ResultsInv, CommandInv, TypeInv
<1> SUFFICES ASSUME T # {}
             PROVE  FALSE
  OBVIOUS
<1>1. PICK n \in T : ToSet(Kids(n)) \cap T = {}
  <2>1. T \in SUBSET Nodes
    OBVIOUS
  <2> HIDE DEF T
  <2> QED
    BY <1>0, <2>1, LeastNode, Zenon
<1>2. /\ n \in Nodes /\ Returned(n) /\ res[n].err = "none" /\ res[n].rc = 0 /\ Says(n) /\ ~DefeatsPipeFail(n)
      /\ \A k \in ToSet(Kids(n)) : k \in Nodes /\ (Clean(k) /\ res[k].rc = 0 => Succeeded[k])
  BY <1>0, <1>1, KidsFacts DEF Clean, SaysInv
<1> SUFFICES Succeeded[n]
  BY <1>1
<1>3. CASE Kind(n) = "cmd"
  <2>1. Kids(n) # <<>> => /\ ToSet(Kids(n)) = {Feeder(n)} /\ Feeder(n) \in Nodes
    BY <1>0, <1>2, <1>3, Ends DEF Kids, Kind, Feeder
  <2>2. ~(Kids(n) # <<>> /\ CutShort(n) /\ res[n] = res[Feeder(n)])
    BY <1>2 DEF CutShort, Cut
  <2>3. FedWhole(n) /\ codes[n] # <<>> /\ res[n] = Ok(Last(codes[n]))
    BY <1>2, <1>3, <2>2 DEF Says, CommandSays
  <2>4. Last(codes[n]) = 0
    <3>1. codes[n] \in Seq(Nat \cup {-1})
      BY <1>0, <1>2 DEF NumbersInv
    <3>2. Last(codes[n]) \in Int
      BY <2>3, <3>1 DEF Last
    <3>3. Ok(Last(codes[n])).rc = Last(codes[n])
      BY <3>2, NumberedFacts
    <3> QED
      BY <1>2, <2>3, <3>3, Zenon
  <2>5. ASSUME NEW f \in ToSet(Kids(n)), f \in prog.pipeFail
        PROVE  Succeeded[f]
    <3>1. Kids(n) # <<>>
      BY <1>0, <1>2, KidsFacts
    <3>2. f = Feeder(n) /\ f \in Nodes /\ Returned(f) /\ ~CutShort(n)
      BY <2>1, <2>3, <2>5, <3>1 DEF FedWhole
    <3>3. res[f].err # "failure" /\ ~Cut(res[f], TRUE)
      BY <1>2, <1>3, <2>5, <3>1, <3>2 DEF DefeatsPipeFail, CutShort, Cut
    <3>4. Clean(f) /\ res[f].rc = 0
      BY <1>0, <1>2, <3>2, <3>3, FeederClean
    <3> QED
      BY <1>2, <2>5, <3>4
  <2> QED
    BY <1>0, <1>2, <1>3, <2>3, <2>4, <2>5, SucceededDefined
<1>4. CASE Kind(n) \in {"serial", "or"}
  <2>1. Kids(n) = <<>> \/ \E i \in 1 .. Len(Kids(n)) : EndsAt(n, i)
    BY <1>2, <1>4 DEF Says, LineSays, Clean
  <2>2. CASE Kids(n) = <<>>
    <3>1. ToSet(Kids(n)) = {}
      <4>1. Len(Kids(n)) = 0
        BY <2>2
      <4> QED
        BY <1>0, <1>2, <4>1, KidsFacts
    <3> QED
      BY <1>0, <1>2, <1>4, <2>2, <3>1, SucceededDefined
  <2>3. ASSUME NEW i \in 1 .. Len(Kids(n)), EndsAt(n, i)
        PROVE  Succeeded[n]
    <3>0. \A j \in 1 .. Len(Kids(n)) : Kids(n)[j] \in ToSet(Kids(n)) /\ Kids(n)[j] \in Nodes
      BY <1>0, <1>2, KidsFacts
    <3>1. Clean(Kids(n)[i]) /\ res[Kids(n)[i]].rc = 0
      BY <1>2, <2>3 DEF EndsAt
    <3>2. Succeeded[Kids(n)[i]] /\ Kids(n)[i] \in ToSet(Kids(n))
      BY <1>2, <3>0, <3>1
    <3>3. CASE Kind(n) = "or"
      BY <1>0, <1>2, <3>2, <3>3, SucceededDefined
    <3>4. CASE Kind(n) = "serial"
      <4>1. i = Len(Kids(n))
        BY <2>3, <3>1, <3>4 DEF EndsAt, Stops
      <4>2. \A k \in ToSet(Kids(n)) : k = Last(Kids(n)) => Succeeded[k]
        BY <3>2, <4>1 DEF Last
      <4>3. ASSUME NEW k \in ToSet(Kids(n)), n \in prog.failFast
            PROVE  Succeeded[k]
        <5>1. PICK j \in 1 .. Len(Kids(n)) : k = Kids(n)[j]
          BY <1>0, <1>2, KidsFacts
        <5>2. CASE j = i
          BY <3>2, <5>1, <5>2
        <5>3. CASE j < i
          <6>1. Clean(k) /\ ~(res[k].rc > 0)
            BY <2>3, <3>4, <4>3, <5>1, <5>3 DEF EndsAt, Passed, Stops
          <6>2. res[k].rc = 0
            BY <1>0, <1>2, <6>1
          <6> QED
            BY <1>2, <6>1, <6>2
        <5>4. j = i \/ j < i
          BY <4>1
        <5> QED
          BY <5>2, <5>3, <5>4
      <4> QED
        BY <1>0, <1>2, <3>4, <4>2, <4>3, SucceededDefined
    <3> QED
      BY <1>4, <3>3, <3>4
  <2> QED
    BY <2>1, <2>2, <2>3
<1>5. CASE Kind(n) = "parallel"
  <2>1. \A k \in ToSet(Kids(n)) : Clean(k) /\ res[k].rc <= 0
    BY <1>2, <1>5 DEF Says, ParallelSays, Clean
  <2>2. \A k \in ToSet(Kids(n)) : res[k].rc = 0
    BY <1>0, <1>2, <2>1
  <2> QED
    BY <1>0, <1>2, <1>5, <2>1, <2>2, SucceededDefined
<1>6. CASE Kind(n) = "pipe"
  <2>1. Sink(n) \in ToSet(Kids(n)) /\ Feeder(n) \in ToSet(Kids(n)) /\ Kids(n) # <<>>
    BY <1>0, <1>2, <1>6, HasKids, Ends DEF Kids, Kind, Sink, Feeder
  <2>2. /\ Returned(Sink(n)) /\ res[n] = res[Sink(n)]
        /\ ~Inner[n] => Returned(Feeder(n)) /\ ~PipeCut(n)
    <3>1. PipeSays(n) /\ Returned(n) /\ res[n].err = "none" /\ res[n].rc = 0
      BY <1>2, <1>6 DEF Says, Clean
    <3>2. PipeCut(n) /\ ~Inner[n] => res[Feeder(n)].err = "none" /\ res[Feeder(n)].rc = 0
      BY <3>1 DEF PipeSays
    <3>3. ~Inner[n] => ~PipeCut(n)
      BY <3>2 DEF PipeCut, Cut
    <3> QED
      BY <3>1, <3>3 DEF PipeSays
  <2>3. Succeeded[Sink(n)]
    BY <1>2, <2>1, <2>2 DEF Clean
  <2>4. ASSUME n \in prog.pipeFail, ~Inner[n]
        PROVE  Succeeded[Feeder(n)]
    <3>1. res[Feeder(n)].err # "failure" /\ ~Cut(res[Feeder(n)], TRUE)
      BY <1>2, <1>6, <2>1, <2>2, <2>4 DEF DefeatsPipeFail, PipeCut, Cut
    <3>2. Clean(Feeder(n)) /\ res[Feeder(n)].rc = 0
      BY <1>0, <1>2, <2>1, <2>2, <2>4, <3>1, FeederClean
    <3> QED
      BY <1>2, <2>1, <3>2
  <2> QED
    BY <1>0, <1>2, <1>6, <2>3, <2>4, SucceededDefined
<1>7. CASE Kind(n) = "output"
  <2>1. Sink(n) \in ToSet(Kids(n))
    BY <1>0, <1>2, <1>7, HasKids, Ends DEF Kids, Kind, Sink
  <2>2. Succeeded[Sink(n)]
    BY <1>2, <1>7, <2>1 DEF Says, OutputSays, Clean
  <2> QED
    BY <1>0, <1>2, <1>7, <2>2, SucceededDefined
<1>8. CASE Kind(n) = "unused"
  BY <1>2, <1>8 DEF Says
<1>9. Kind(n) \in Kinds
  BY <1>0, <1>2, Family DEF Kind
<1> QED
  BY <1>3, <1>4, <1>5, <1>6, <1>7, <1>8, <1>9 DEF Kinds

LEMMA ReachedOn ==
  ASSUME prog \in Programs, NEW n \in Nodes, NEW x \in Reached[n], NEW k \in Heirs(x)
  PROVE  k \in Reached[n]
<1> DEFINE T == {m \in Nodes : \E y \in Reached[m] : \E h \in Heirs(y) : h \notin Reached[m]}
<1> SUFFICES ASSUME T # {}
             PROVE  FALSE
  OBVIOUS
<1>1. PICK m \in T : ToSet(Kids(m)) \cap T = {}
  <2>1. T \in SUBSET Nodes
    OBVIOUS
  <2> HIDE DEF T
  <2> QED
    BY <2>1, LeastNode, Zenon
<1>2. PICK y \in Reached[m] : \E h \in Heirs(y) : h \notin Reached[m]
  BY <1>1
<1>3. PICK h \in Heirs(y) : h \notin Reached[m]
  BY <1>2
<1>4. m \in Nodes /\ \A j \in Heirs(m) : j \in Nodes /\ j \notin T /\ Reached[j] \subseteq Reached[m] /\ j \in Reached[j]
  BY <1>1, HeirsUnder, ReachedDefined
<1>5. y # m
  BY <1>4, <1>3
<1>6. PICK j \in Heirs(m) : y \in Reached[j]
  BY <1>2, <1>4, <1>5, ReachedDefined
<1>7. h \in Reached[j]
  BY <1>4, <1>6
<1> QED
  BY <1>4, <1>6, <1>7, <1>3

\* What a sequence has not called has no exit code.
LEMMA IdleCode ==
  ASSUME ResultsInv, NEW n \in Nodes, Kind(n) \in Seqs, Returned(n), NEW x \in Reached[n], pc[x] = "idle"
  PROVE  ExitCode[x] = None
<1> DEFINE T == {y \in Reached[n] : pc[y] = "idle" /\ ExitCode[y] # None}
<1>0. prog \in Programs /\ TreeInv /\ NumbersInv /\ \A y \in Nodes : codes[y] \in Seq(Int)
  BY DEF ResultsInv, CommandInv, TypeInv, NumbersInv
<1> SUFFICES ASSUME T # {}
             PROVE  FALSE
  OBVIOUS
<1>1. PICK y \in T : ToSet(Kids(y)) \cap T = {}
  <2>1. T \in SUBSET Nodes
    BY <1>0, ReachedDefined
  <2> HIDE DEF T
  <2> QED
    BY <1>0, <2>1, LeastNode, Zenon
<1>2. y \in Nodes /\ y \in Reached[n] /\ pc[y] = "idle" /\ ExitCode[y] # None
  BY <1>0, <1>1, ReachedDefined
<1>3. codes[y] = <<>>
  BY <1>2 DEF ResultsInv, ResetInv, Returned
<1>4. ExitCode[y] = LastCode(y, ExitCode)
  BY <1>0, <1>2, ExitCodeDefined
<1>5. \A i \in 1 .. Len(Kids(y)) : Kids(y)[i] \in Heirs(y) => ExitCode[Kids(y)[i]] = None
  <2>1. ASSUME NEW k \in Heirs(y)
        PROVE  ExitCode[k] = None
    <3>1. k \in ToSet(Kids(y)) /\ k \in Nodes /\ k \in Reached[n]
      BY <1>0, <1>2, HeirsUnder, ReachedOn
    <3>2. pc[k] = "idle"
      BY <1>0, <1>2, <3>1 DEF TreeInv, Uncalled
    <3> QED
      BY <1>1, <3>1, <3>2
  <2> QED
    BY <2>1
<1>6. LastCode(y, ExitCode) = None
  BY <1>3, <1>5 DEF LastCode
<1> QED
  BY <1>2, <1>4, <1>6

\* If the child i of n has exited with 0, and none after it has an exit code, the
\* exit code of n is 0.
LEMMA LastCodeZero ==
  ASSUME ResultsInv, NEW n \in Nodes, Kind(n) # "cmd", NEW i \in 1 .. Len(Kids(n)),
         Kids(n)[i] \in Heirs(n), ExitCode[Kids(n)[i]] = 0,
         \A j \in 1 .. Len(Kids(n)) : j > i => ExitCode[Kids(n)[j]] = None
  PROVE  ExitCode[n] = 0
<1>0. prog \in Programs /\ \A y \in Nodes : codes[y] \in Seq(Int)
  BY DEF ResultsInv, CommandInv, TypeInv, NumbersInv
<1> DEFINE coded == {j \in 1 .. Len(Kids(n)) : Kids(n)[j] \in Heirs(n) /\ ExitCode[Kids(n)[j]] # None}
<1>1. i \in coded
  BY NoneAssumption
<1>2. \A j \in coded : j <= i
  OBVIOUS
<1>3. Max(coded) \in coded /\ \A j \in coded : j <= Max(coded)
  <2>1. coded \subseteq 1 .. Len(Kids(n)) /\ Len(Kids(n)) \in Nat /\ coded # {}
    BY <1>0, <1>1, KidsFacts
  <2> HIDE DEF coded
  <2> QED
    BY <2>1, MaxIn, Zenon
<1>4. Max(coded) = i
  <2>1. coded \subseteq Int
    OBVIOUS
  <2> HIDE DEF coded
  <2>2. Max(coded) \in Int /\ i \in Int /\ Max(coded) <= i /\ i <= Max(coded)
    BY <1>1, <1>2, <1>3, <2>1
  <2> QED
    BY <2>2
<1>5. LastCode(n, ExitCode) = IF coded = {} THEN None ELSE ExitCode[Kids(n)[Max(coded)]]
  BY DEF LastCode
<1>6. LastCode(n, ExitCode) = 0
  <2>1. coded # {}
    BY <1>1
  <2> HIDE DEF coded
  <2> QED
    BY <1>4, <1>5, <2>1
<1> QED
  BY <1>0, <1>6, ExitCodeDefined

LEMMA ZeroCode ==
  ASSUME ResultsInv, \A n \in Nodes : Returned(n) => ~Killed(n) /\ ~DefeatsPipeFail(n),
         \A n \in Nodes : Kind(n) \in Seqs => Kids(n) # <<>>
  PROVE  \A n \in Nodes : Clean(n) /\ res[n].rc = 0 => ExitCode[n] = 0
<1> DEFINE T == {n \in Nodes : Clean(n) /\ res[n].rc = 0 /\ ExitCode[n] # 0}
<1>0. /\ prog \in Programs /\ NumbersInv /\ SaysInv /\ \A n \in Nodes : codes[n] \in Seq(Int)
      /\ \A n \in Nodes : Clean(n) => res[n].rc \in Nat
  BY NoneNegative DEF ResultsInv, CommandInv, TypeInv, NumbersInv
<1> SUFFICES ASSUME T # {}
             PROVE  FALSE
  OBVIOUS
<1>1. PICK n \in T : ToSet(Kids(n)) \cap T = {}
  <2>1. T \in SUBSET Nodes
    OBVIOUS
  <2> HIDE DEF T
  <2> QED
    BY <1>0, <2>1, LeastNode, Zenon
<1>2. /\ n \in Nodes /\ Returned(n) /\ res[n].err = "none" /\ res[n].rc = 0 /\ Says(n)
      /\ \A k \in ToSet(Kids(n)) : k \in Nodes /\ (Clean(k) /\ res[k].rc = 0 => ExitCode[k] = 0)
  BY <1>0, <1>1, KidsFacts DEF Clean, SaysInv
<1> SUFFICES ExitCode[n] = 0
  BY <1>1
<1>3. CASE Kind(n) = "cmd"
  <2>1. ~(Kids(n) # <<>> /\ CutShort(n) /\ res[n] = res[Feeder(n)])
    BY <1>2 DEF CutShort, Cut
  <2>2. codes[n] # <<>> /\ res[n] = Ok(Last(codes[n]))
    BY <1>2, <1>3, <2>1 DEF Says, CommandSays
  <2>3. Last(codes[n]) = 0
    <3>1. codes[n] \in Seq(Nat \cup {-1})
      BY <1>0, <1>2 DEF NumbersInv
    <3>2. Last(codes[n]) \in Int
      BY <2>2, <3>1 DEF Last
    <3>3. Ok(Last(codes[n])).rc = Last(codes[n])
      BY <3>2, NumberedFacts
    <3> QED
      BY <1>2, <2>2, <3>3, Zenon
  <2>4. LastCode(n, ExitCode) = 0
    BY <1>3, <2>2, <2>3 DEF LastCode
  <2> QED
    BY <1>0, <1>2, <2>4, ExitCodeDefined
<1>4. ASSUME NEW i \in 1 .. Len(Kids(n)), Kind(n) # "cmd", Kids(n)[i] \in Heirs(n),
             Clean(Kids(n)[i]), res[Kids(n)[i]].rc = 0,
             \A j \in 1 .. Len(Kids(n)) : j > i => ExitCode[Kids(n)[j]] = None
      PROVE  ExitCode[n] = 0
  <2>1. Kids(n)[i] \in ToSet(Kids(n))
    BY <1>0, <1>2, KidsFacts
  <2>2. ExitCode[Kids(n)[i]] = 0
    BY <1>2, <1>4, <2>1
  <2> QED
    BY <1>2, <1>4, <2>2, LastCodeZero
<1>5. CASE Kind(n) \in {"serial", "or"}
  <2>1. Kids(n) # <<>>
    BY <1>2, <1>5 DEF Seqs
  <2>2. PICK i \in 1 .. Len(Kids(n)) : EndsAt(n, i)
    BY <1>2, <1>5, <2>1 DEF Says, LineSays, Clean
  <2>3. \A j \in 1 .. Len(Kids(n)) : Kids(n)[j] \in ToSet(Kids(n)) /\ Kids(n)[j] \in Heirs(n)
    BY <1>0, <1>2, <1>5, KidsFacts DEF Heirs, Seqs
  <2>4. \A j \in 1 .. Len(Kids(n)) : j > i => ExitCode[Kids(n)[j]] = None
    <3>1. ASSUME NEW j \in 1 .. Len(Kids(n)), j > i
          PROVE  ExitCode[Kids(n)[j]] = None
      <4>1. pc[Kids(n)[j]] = "idle"
        BY <2>2, <3>1 DEF EndsAt
      <4>2. n \in Reached[n] /\ Kind(n) \in Seqs
        BY <1>0, <1>2, <1>5, ReachedDefined DEF Seqs
      <4>3. Kids(n)[j] \in Reached[n]
        BY <1>0, <1>2, <2>3, <4>2, ReachedOn
      <4> QED
        BY <1>2, <4>1, <4>2, <4>3, IdleCode
    <3> QED
      BY <3>1
  <2>5. Clean(Kids(n)[i]) /\ res[Kids(n)[i]].rc = 0
    BY <1>2, <2>2 DEF EndsAt
  <2> QED
    BY <1>4, <1>5, <2>3, <2>4, <2>5
<1>6. CASE Kind(n) \in {"parallel", "pipe", "output"}
  <2>0. Kids(n) # <<>>
    BY <1>0, <1>2, <1>6, HasKids DEF Seqs, Kids, Kind
  <2>1. Last(Kids(n)) = Kids(n)[Len(Kids(n))] /\ Last(Kids(n)) \in ToSet(Kids(n)) /\ Len(Kids(n)) \in 1 .. Len(Kids(n))
    BY <1>0, <1>2, <2>0, KidsFacts, Ends DEF Kids
  <2>2. Last(Kids(n)) \in Heirs(n)
    BY <1>6, <2>1 DEF Heirs, Seqs
  <2>3. Clean(Last(Kids(n))) /\ res[Last(Kids(n))].rc = 0
    <3>1. CASE Kind(n) = "parallel"
      <4>1. Clean(Last(Kids(n))) /\ res[Last(Kids(n))].rc <= 0
        BY <1>2, <2>1, <3>1 DEF Says, ParallelSays, Clean
      <4> QED
        BY <1>0, <1>2, <2>1, <4>1
    <3>2. CASE Kind(n) = "pipe"
      BY <1>2, <3>2 DEF Says, PipeSays, PipeCut, Cut, Clean, Sink
    <3>3. CASE Kind(n) = "output"
      BY <1>2, <3>3 DEF Says, OutputSays, Clean, Sink
    <3> QED
      BY <1>6, <3>1, <3>2, <3>3
  <2>4. PICK i \in 1 .. Len(Kids(n)) : i = Len(Kids(n))
    BY <2>1
  <2>5. \A j \in 1 .. Len(Kids(n)) : ~(j > i)
    BY <2>4
  <2>6. Kids(n)[i] = Last(Kids(n))
    BY <2>1, <2>4
  <2> QED
    BY <1>4, <1>6, <2>2, <2>3, <2>5, <2>6
<1>7. CASE Kind(n) = "unused"
  BY <1>2, <1>7 DEF Says
<1>8. Kind(n) \in Kinds
  BY <1>0, <1>2, Family DEF Kind
<1> QED
  BY <1>3, <1>5, <1>6, <1>7, <1>8 DEF Kinds

\* A run that returns 0 and no error has succeeded, through all its retries,
\* pipes and sequences, and its exit code is 0 (blockSerial, blockOr,
\* blockParallel, BlockRun of a command and of a pipe, ExitCode).
THEOREM ZeroIsSuccess == Spec => []ZeroMeansSuccess
<1>1. ASSUME ResultsInv
      PROVE  ZeroMeansSuccess
  <2> SUFFICES ASSUME Clean(prog.root), res[prog.root].rc = 0,
                      \A n \in Nodes : Returned(n) => ~Killed(n) /\ ~DefeatsPipeFail(n)
               PROVE  /\ Succeeded[prog.root]
                      /\ (\A n \in Nodes : Kind(n) \in Seqs => Kids(n) # <<>>) => ExitCode[prog.root] = 0
    BY DEF ZeroMeansSuccess, Clean
  <2>1. prog.root \in Nodes
    BY <1>1, ProgramsAssumption DEF ResultsInv, CommandInv, TypeInv
  <2>2. Succeeded[prog.root]
    BY <1>1, <2>1, ZeroSucceeds
  <2>3. ASSUME \A n \in Nodes : Kind(n) \in Seqs => Kids(n) # <<>>
        PROVE  ExitCode[prog.root] = 0
    BY <1>1, <2>1, <2>3, ZeroCode
  <2> QED
    BY <2>2, <2>3
<1> QED
  BY ResultsInvariant, <1>1, PTL

-----------------------------------------------------------------------------
(* Who writes where.                                                       *)

\* What is reached from n and is not n is reached by a step from one that is.
LEMMA ReachedFrom ==
  ASSUME prog \in Programs, NEW n \in Nodes, NEW x \in Reached[n], x # n
  PROVE  \E y \in Reached[n] : x \in Heirs(y)
<1> DEFINE Entered(m, z) == \E y \in Reached[m] : z \in Heirs(y)
           T == {m \in Nodes : \E z \in Reached[m] : z # m /\ ~Entered(m, z)}
<1> SUFFICES ASSUME T # {}
             PROVE  FALSE
  OBVIOUS
<1>1. PICK m \in T : ToSet(Kids(m)) \cap T = {}
  <2>1. T \in SUBSET Nodes
    OBVIOUS
  <2> HIDE DEF T
  <2> QED
    BY <2>1, LeastNode, Zenon
<1>2. PICK z \in Reached[m] : z # m /\ ~Entered(m, z)
  BY <1>1
<1>3. /\ m \in Nodes /\ m \in Reached[m]
      /\ \A k \in Heirs(m) : k \in Nodes /\ k \notin T /\ Reached[k] \subseteq Reached[m]
  BY <1>1, HeirsUnder, ReachedDefined
<1>4. PICK k \in Heirs(m) : z \in Reached[k]
  BY <1>2, <1>3, ReachedDefined
<1>5. CASE z = k
  BY <1>2, <1>3, <1>5
<1>6. CASE z # k
  <2>1. Entered(k, z)
    BY <1>3, <1>4, <1>6
  <2> QED
    BY <1>2, <1>3, <1>4, <2>1
<1> QED
  BY <1>5, <1>6

\* the nodes whose feeder has its output replaced
Owns(n) == Kind(n) \in {"cmd", "pipe"} /\ Kids(n) # <<>> /\ ~(Kind(n) = "pipe" /\ Inner[n])
\* what is no buffer
Outside == {None, Own}

LEMMA FeederFacts ==
  ASSUME prog \in Programs, NEW n \in Nodes, Owns(n)
  PROVE  /\ Feeder(n) \in Nodes /\ Feeder(n) \in ToSet(Kids(n)) /\ Feeder(n) \in Reached[Feeder(n)]
         /\ \A y \in Nodes : Feeder(n) \notin Heirs(y)
         /\ Kind(n) = "cmd" => Reached[Feeder(n)] = {Feeder(n)}
<1>1. Feeder(n) \in Nodes /\ Feeder(n) \in ToSet(Kids(n))
  BY Ends DEF Owns, Kids, Feeder
<1>2. ASSUME NEW y \in Nodes, Feeder(n) \in Heirs(y)
      PROVE  FALSE
  <2>1. Feeder(n) \in ToSet(Kids(y))
    BY <1>2, HeirsUnder
  <2>2. y = n
    BY <1>1, <2>1, OneParent DEF Kids
  <2>3. Kind(n) = "pipe" /\ Feeder(n) = Last(Kids(n))
    BY <1>2, <2>2 DEF Owns, Heirs, Seqs
  <2> QED
    BY <2>3, HasKids, Ends DEF Kids, Kind, Feeder
<1>3. ASSUME Kind(n) = "cmd"
      PROVE  Reached[Feeder(n)] = {Feeder(n)}
  <2>1. Kind(Feeder(n)) = "cmd"
    BY <1>1, <1>3, TreesAssumption DEF Kids, Kind
  <2>2. Heirs(Feeder(n)) = {}
    BY <2>1 DEF Heirs, Seqs
  <2> QED
    BY <1>1, <2>2, ReachedDefined
<1> QED
  BY <1>1, <1>2, <1>3, ReachedDefined

\* A command writes for one owner at most.
LEMMA OneOwner ==
  ASSUME prog \in Programs, NEW m \in Nodes, NEW n \in Nodes, Owns(m), Owns(n),
         NEW x \in Reached[Feeder(m)], x \in Reached[Feeder(n)]
  PROVE  m = n
<1> DEFINE f == Feeder(m)
           g == Feeder(n)
           T == Reached[f] \cap Reached[g]
<1>1. f \in Nodes /\ g \in Nodes /\ (\A y \in Nodes : f \notin Heirs(y) /\ g \notin Heirs(y))
  BY FeederFacts
<1>2. T \in (SUBSET Nodes) \ {{}}
  BY <1>1, ReachedDefined
<1>3. f = g
  <2> SUFFICES ASSUME f # g
               PROVE  FALSE
    OBVIOUS
  <2>1. PICK k \in T : \A y \in T : k \notin ToSet(Kids(y))
    <3> HIDE DEF T
    <3> QED
      BY <1>2, TreesAssumption, Zenon DEF Kids
  <2> HIDE DEF f, g
  <2>2. k \in Reached[f] /\ k \in Reached[g] /\ k \in Nodes /\ Reached[f] \subseteq Nodes /\ Reached[g] \subseteq Nodes
    BY <1>1, <2>1, ReachedDefined
  <2>3. k # f
    <3>1. ASSUME k = f
          PROVE  \E y \in Reached[g] : k \in Heirs(y)
      BY <1>1, <2>2, <3>1, ReachedFrom
    <3> QED
      BY <1>1, <2>2, <3>1
  <2>4. k # g
    <3>1. ASSUME k = g
          PROVE  \E y \in Reached[f] : k \in Heirs(y)
      BY <1>1, <2>2, <3>1, ReachedFrom
    <3> QED
      BY <1>1, <2>2, <3>1
  <2>5. PICK y \in Reached[f] : k \in Heirs(y)
    BY <1>1, <2>2, <2>3, ReachedFrom
  <2>6. PICK z \in Reached[g] : k \in Heirs(z)
    BY <1>1, <2>2, <2>4, ReachedFrom
  <2>7. y \in Nodes /\ z \in Nodes /\ k \in ToSet(Kids(y)) /\ k \in ToSet(Kids(z))
    BY <2>2, <2>5, <2>6, HeirsUnder
  <2>8. y = z
    BY <2>7, OneParent DEF Kids
  <2> QED
    BY <2>1, <2>5, <2>6, <2>7, <2>8
<1>4. f \in ToSet(Kids(m)) /\ g \in ToSet(Kids(n))
  BY FeederFacts
<1> QED
  BY <1>3, <1>4, OneParent DEF Kids

\* What getConfig finds is what a setter reaches.
LEMMA ConfigReached ==
  ASSUME prog \in Programs
  PROVE  \A n \in Nodes : Config[n] \in Reached[n]
<1> DEFINE Value == [n \in Nodes |-> [f \in [Nodes -> Nodes] |-> IF Kind(n) = "pipe" THEN f[Last(Kids(n))] ELSE n]]
<1>0. \A n \in Nodes : Kind(n) = "pipe" => Last(Kids(n)) \in ToSet(Kids(n)) /\ Last(Kids(n)) \in Nodes /\ Last(Kids(n)) \in Heirs(n)
  <2>1. ASSUME NEW n \in Nodes, Kind(n) = "pipe"
        PROVE  Last(Kids(n)) \in ToSet(Kids(n)) /\ Last(Kids(n)) \in Nodes
    BY <2>1, HasKids, Ends DEF Kids, Kind
  <2> QED
    BY <2>1 DEF Heirs, Seqs
<1>1. DependsBelow(Nodes, Nodes, Under, Value)
  <2>1. Value \in [Nodes -> [[Nodes -> Nodes] -> Nodes]]
    BY <1>0
  <2>2. ASSUME NEW n \in Nodes, NEW f \in [Nodes -> Nodes], NEW g \in [Nodes -> Nodes], \A k \in Under[n] : f[k] = g[k]
        PROVE  Value[n][f] = Value[n][g]
    BY <1>0, <2>2 DEF Under
  <2> HIDE DEF Value
  <2> QED
    BY <2>1, <2>2 DEF DependsBelow
<1>2. CASE Nodes = {}
  BY <1>2
<1>3. CASE Nodes # {}
  <2>1. PICK f \in [Nodes -> Nodes] : \A n \in Nodes : f[n] = Value[n][f]
    <3> HIDE DEF Value
    <3>1. Defined(Nodes, Nodes, Value)
      BY <1>1, <1>3, TreeFounded, RecursionExists, Zenon
    <3> QED
      BY <3>1, Zenon DEF Defined
  <2>2. f = [n \in Nodes |-> IF Kind(n) = "pipe" THEN f[Last(Kids(n))] ELSE n]
    BY <2>1
  <2>3. Config = [n \in Nodes |-> IF Kind(n) = "pipe" THEN Config[Last(Kids(n))] ELSE n]
    BY <2>2, Zenon DEF Config
  <2> DEFINE T == {n \in Nodes : Config[n] \notin Reached[n]}
  <2> SUFFICES ASSUME T # {}
               PROVE  FALSE
    OBVIOUS
  <2>4. PICK n \in T : ToSet(Kids(n)) \cap T = {}
    <3>1. T \in SUBSET Nodes
      OBVIOUS
    <3> HIDE DEF T
    <3> QED
      BY <3>1, LeastNode, Zenon
  <2>5. Config[n] = IF Kind(n) = "pipe" THEN Config[Last(Kids(n))] ELSE n
    BY <2>3, <2>4, Zenon
  <2>6. n \in Nodes /\ Config[n] \notin Reached[n] /\ n \in Reached[n] /\ \A k \in Heirs(n) : Reached[k] \subseteq Reached[n]
    BY <2>4, ReachedDefined, HeirsUnder
  <2>7. CASE Kind(n) = "pipe"
    <3>1. Config[Last(Kids(n))] \in Reached[Last(Kids(n))]
      BY <1>0, <2>4, <2>6, <2>7
    <3> QED
      BY <1>0, <2>5, <2>6, <2>7, <3>1
  <2> QED
    BY <2>5, <2>6, <2>7
<1> QED
  BY <1>2, <1>3

\* In the first run what a node writes to is the buffer of its owner, from the
\* moment the owner starts its feeder until it returns.
StreamsInv ==
  /\ runs \in Nat
  /\ stdout = [x \in Nodes |-> stdout[x]] /\ saved = [m \in Nodes |-> saved[m]]
  /\ runs = 0 => \A n \in Nodes : pc[n] = "idle"
  /\ runs <= 1 =>
       /\ \A m \in Nodes : saved[m].out \in Outside
       /\ \A x \in Nodes : stdout[x] \notin Outside =>
            stdout[x] \in Nodes /\ Owns(stdout[x]) /\ x \in Reached[Feeder(stdout[x])]
       /\ \A m \in Nodes : pc[m] \in {"idle", "called"} => \A x \in Nodes : stdout[x] # m
       /\ \A m \in Nodes : Returned(m) /\ Owns(m) =>
            \/ \A x \in Nodes : stdout[x] # m
            \/ Kind(m) = "cmd" /\ (res[m].err = "error" \/ CutShort(m))

\* n replaces the output of its feeder, puts it back, or leaves all streams alone
Replaces(n) ==
  /\ Owns(n) /\ Called(n) /\ pc'[n] = "feeding"
  /\ \E c \in Reached[Feeder(n)] : saved' = [saved EXCEPT ![n] = Streams(c)]
  /\ \E xs \in SUBSET Reached[Feeder(n)] : stdout' = [x \in Nodes |-> IF x \in xs THEN n ELSE stdout[x]]
PutsBack(n) ==
  /\ Owns(n) /\ saved' = saved
  /\ stdout' = [x \in Nodes |-> IF x \in Reached[Feeder(n)] THEN saved[n].out ELSE stdout[x]]
LeavesAlone(n) ==
  /\ UNCHANGED <<stdout, saved>>
  /\ Owns(n) /\ pc'[n] = "returned" =>
       Kind(n) = "cmd" /\ (res'[n].err = "error" \/ (Returned(Feeder(n)) /\ CutShort(n)))

LEMMA OwnsSame ==
  ASSUME prog' = prog, NEW n
  PROVE  Owns(n)' = Owns(n) /\ Feeder(n)' = Feeder(n) /\ Kind(n)' = Kind(n)
BY InnerSame DEF Owns, Feeder, Kids, Kind

LEMMA NoBuffer == \A n \in Nodes : n \notin Outside
BY NoneAssumption, OwnAssumption DEF Outside

LEMMA StreamSteps ==
  ASSUME CommandInv, StreamsInv, NEW n \in Nodes, Acts(n)
  PROVE  /\ Replaces(n) \/ PutsBack(n) \/ LeavesAlone(n)
         /\ pc'[n] \notin {"idle", "called"} /\ runs' = runs
<1>0. /\ prog \in Programs /\ stdout = [x \in Nodes |-> stdout[x]] /\ saved = [m \in Nodes |-> saved[m]]
      /\ pc \in [Nodes -> Labels \cup {"exited"}]
  BY DEF CommandInv, TypeInv, StreamsInv
<1>1. runs' = runs
  BY DEF Acts, Feed, Fed, Start, Aborts, Abort, Attempt, SerialRun, OrRun, ParallelRun, SeqRun, SerialNext, OrNext, SeqNext,
         Resolved, Rejected, PipeRun, PipeFed, SinkRun, PipeDrained, OutputRun, OutputReturns, bounds
<1>2. CASE Feed(n)
  <2>1. /\ Owns(n) /\ Called(n) /\ saved' = [saved EXCEPT ![n] = Streams(Feeder(n))]
        /\ stdout' = [stdout EXCEPT ![Feeder(n)] = n] /\ pc'[n] = "feeding"
    BY <1>2, ReturnsAndCalls DEF Feed, Owns
  <2>2. Feeder(n) \in Reached[Feeder(n)]
    BY <1>0, <2>1, FeederFacts
  <2>3. stdout' = [x \in Nodes |-> IF x \in {Feeder(n)} THEN n ELSE stdout[x]]
    BY <1>0, <2>1
  <2> QED
    BY <1>1, <2>1, <2>2, <2>3 DEF Replaces
<1>3. CASE PipeRun(n)
  <2>1. Owns(n) /\ Called(n)
    BY <1>0, <1>3, HasKids DEF PipeRun, Owns, Kids, Kind
  <2>2. /\ saved' = [saved EXCEPT ![n] = Streams(Config[Feeder(n)])] /\ pc'[n] = "feeding"
        /\ stdout' = [x \in Nodes |-> IF x \in Reached[Feeder(n)] THEN n ELSE stdout[x]]
    BY <1>3, ReturnsAndCalls DEF PipeRun, SetStdout
  <2>3. Config[Feeder(n)] \in Reached[Feeder(n)]
    BY <1>0, <2>1, FeederFacts, ConfigReached
  <2> QED
    BY <1>1, <2>1, <2>2, <2>3 DEF Replaces
<1>4. ASSUME NEW r, PipeReturns(n, r), Kind(n) = "pipe", ~Inner[n], saved' = saved
      PROVE  PutsBack(n) /\ pc'[n] = "returned"
  <2>1. Owns(n)
    BY <1>0, <1>4, HasKids DEF Owns, Kids, Kind
  <2>2. /\ pc'[n] = "returned"
        /\ stdout' = [x \in Nodes |-> IF x \in Reached[Feeder(n)] THEN saved[n].out ELSE stdout[x]]
    BY <1>4, ReturnsAndCalls DEF PipeReturns, SetStdout
  <2> QED
    BY <1>4, <2>1, <2>2 DEF PutsBack
<1>5. CASE PipeDrained(n)
  <2>1. Kind(n) = "pipe" /\ saved' = saved
    BY <1>5 DEF PipeDrained, CommandInv, PlaceInv, Place
  <2>2. CASE ~Inner[n]
    BY <1>1, <1>4, <1>5, <2>1, <2>2 DEF PipeDrained
  <2>3. CASE Inner[n]
    <3>1. pc'[n] = "returned" /\ stdout' = stdout /\ ~Owns(n)
      BY <1>5, <2>1, <2>3, ReturnsAndCalls DEF PipeDrained, Owns
    <3> QED
      BY <1>1, <2>1, <3>1 DEF LeavesAlone
  <2> QED
    BY <2>2, <2>3
<1>12. CASE SinkRun(n)
  <2>1. pc'[n] = "draining" /\ UNCHANGED <<stdout, saved>>
    BY <1>12, ReturnsAndCalls DEF SinkRun, streams
  <2> QED
    BY <1>1, <2>1 DEF LeavesAlone
<1>6. CASE PipeFed(n)
  <2>1. CASE PipeReturns(n, res[Feeder(n)])
    <3>1. Kind(n) = "pipe" /\ ~Inner[n] /\ saved' = saved
      BY <1>6 DEF PipeFed, CommandInv, PlaceInv, Place
    <3> QED
      BY <1>1, <1>4, <2>1, <3>1
  <2>2. CASE Calls(n, {Sink(n)}, "draining") /\ UNCHANGED <<res, stdout, stdin>>
    <3>1. pc'[n] = "draining" /\ stdout' = stdout /\ saved' = saved
      BY <1>6, <2>2, ReturnsAndCalls DEF PipeFed
    <3> QED
      BY <1>1, <3>1 DEF LeavesAlone
  <2> QED
    BY <1>6, <2>1, <2>2 DEF PipeFed
<1>7. CASE \E c \in {0, Code[n], -1} : Attempt(n, c)
  <2>0. PICK c \in {0, Code[n], -1} : Attempt(n, c)
    BY <1>7
  <2>1. /\ Kind(n) = "cmd" /\ saved' = saved /\ pc[n] = "attempt"
        /\ \/ pc' = pc /\ stdout' = stdout
           \/ Returns(n, Outcome(n, c)) /\ Restored(n)
    BY <2>0 DEF Attempt, CommandInv, PlaceInv, Place
  <2>2. CASE pc' = pc /\ stdout' = stdout
    BY <1>1, <2>1, <2>2 DEF LeavesAlone
  <2>3. CASE Returns(n, Outcome(n, c)) /\ Restored(n)
    <3>1. pc'[n] = "returned"
      BY <2>3, ReturnsAndCalls
    <3>2. CASE Kids(n) = <<>>
      BY <1>1, <2>1, <2>3, <3>1, <3>2 DEF LeavesAlone, Restored, Owns
    <3>3. CASE Kids(n) # <<>>
      <4>1. Owns(n) /\ stdout' = [stdout EXCEPT ![Feeder(n)] = saved[n].out]
        BY <2>1, <2>3, <3>3 DEF Restored, Owns
      <4>2. Reached[Feeder(n)] = {Feeder(n)}
        BY <1>0, <2>1, <4>1, FeederFacts
      <4>3. stdout' = [x \in Nodes |-> IF x \in Reached[Feeder(n)] THEN saved[n].out ELSE stdout[x]]
        BY <1>0, <4>1, <4>2
      <4> QED
        BY <1>1, <2>1, <3>1, <4>1, <4>3 DEF PutsBack
    <3> QED
      BY <3>2, <3>3
  <2> QED
    BY <2>1, <2>2, <2>3
<1>8. CASE Fed(n)
  <2>1. UNCHANGED <<stdout, saved>> /\ Kind(n) = "cmd"
    BY <1>8 DEF Fed, streams
  <2>2. pc'[n] = "start" \/ (pc'[n] = "returned" /\ Returned(Feeder(n)) /\ CutShort(n))
    BY <1>8, ReturnsAndCalls DEF Fed
  <2> QED
    BY <1>1, <2>1, <2>2 DEF LeavesAlone
<1>9. CASE Aborts(n)
  <2>0. PICK c : Abort(n, c)
    BY <1>9 DEF Aborts
  <2>1. UNCHANGED <<stdout, saved>> /\ Kind(n) = "cmd" /\ pc'[n] = "returned" /\ res'[n] = Error(c)
    BY <2>0, ReturnsAndCalls DEF Abort, streams, CommandInv, PlaceInv, Place
  <2>2. res'[n].err = "error"
    BY <2>1, ResultFacts, Zenon
  <2> QED
    BY <1>1, <2>1, <2>2 DEF LeavesAlone
<1>10. CASE Start(n)
  <2>1. UNCHANGED <<stdout, saved>> /\ pc'[n] = "attempt"
    BY <1>10, ReturnsAndCalls DEF Start, streams
  <2> QED
    BY <1>1, <2>1 DEF LeavesAlone
<1>11. CASE \/ SerialRun(n) \/ OrRun(n) \/ ParallelRun(n) \/ SerialNext(n) \/ OrNext(n)
            \/ Resolved(n) \/ Rejected(n) \/ OutputRun(n) \/ OutputReturns(n)
  <2>1. UNCHANGED <<stdout, saved>>
    BY <1>11 DEF SerialRun, OrRun, ParallelRun, SeqRun, SerialNext, OrNext, SeqNext, Resolved, Rejected,
                 OutputRun, OutputReturns, streams
  <2>2. ~Owns(n)
    BY <1>11 DEF SerialRun, OrRun, ParallelRun, SerialNext, OrNext, Resolved, Rejected,
                 OutputRun, OutputReturns, Owns, CommandInv, PlaceInv, Place
  <2>3. pc'[n] \in {"waiting", "reading", "returned"}
    <3>1. \/ \E r : Returns(n, r)
          \/ \E ks : Calls(n, ks, "waiting") \/ Calls(n, ks, "reading")
      BY <1>11, Zenon DEF SerialRun, OrRun, ParallelRun, SeqRun, SerialNext, OrNext, SeqNext, Resolved, Rejected,
                 OutputRun, OutputReturns
    <3> QED
      BY <3>1, ReturnsAndCalls
  <2> QED
    BY <1>1, <2>1, <2>2, <2>3 DEF LeavesAlone
<1> QED
  BY <1>2, <1>3, <1>5, <1>6, <1>7, <1>8, <1>9, <1>10, <1>11, <1>12 DEF Acts

LEMMA ActsKeepStreams ==
  ASSUME ResultsInv, StreamsInv, NEW n \in Nodes, Acts(n)
  PROVE  StreamsInv'
<1>0. /\ CommandInv /\ NumbersInv /\ SaysInv /\ prog \in Programs
      /\ stdout = [x \in Nodes |-> stdout[x]] /\ saved = [m \in Nodes |-> saved[m]]
  BY DEF ResultsInv, CommandInv, TypeInv, StreamsInv
<1>1. /\ Replaces(n) \/ PutsBack(n) \/ LeavesAlone(n)
      /\ pc'[n] \notin {"idle", "called"} /\ runs' = runs
  BY <1>0, StreamSteps
<1>2. Frame(n) /\ Running(n)
  BY <1>0, ActsFrame DEF Frame
<1>3. runs # 0
  BY <1>2 DEF StreamsInv, Running
<1>4. /\ prog' = prog /\ Reached' = Reached
      /\ \A m \in Nodes : Owns(m)' = Owns(m) /\ Feeder(m)' = Feeder(m)
  <2>1. prog' = prog
    BY <1>2 DEF Frame
  <2>2. Reached' = Reached
    BY <2>1, ReachedSame
  <2> QED
    BY <2>1, <2>2, OwnsSame
<1>5. stdout' = [x \in Nodes |-> stdout'[x]] /\ saved' = [m \in Nodes |-> saved'[m]]
  BY <1>0, <1>1 DEF Replaces, PutsBack, LeavesAlone
<1>6. CASE runs > 1
  BY <1>1, <1>3, <1>5, <1>6 DEF StreamsInv
<1>7. CASE runs = 1
  <2>1. /\ \A m \in Nodes : saved[m].out \in Outside
        /\ \A x \in Nodes : stdout[x] \notin Outside =>
             stdout[x] \in Nodes /\ Owns(stdout[x]) /\ x \in Reached[Feeder(stdout[x])]
        /\ \A m \in Nodes : pc[m] \in {"idle", "called"} => \A x \in Nodes : stdout[x] # m
        /\ \A m \in Nodes : Returned(m) /\ Owns(m) =>
             \/ \A x \in Nodes : stdout[x] # m
             \/ Kind(m) = "cmd" /\ (res[m].err = "error" \/ CutShort(m))
    BY <1>7 DEF StreamsInv
  <2>2. Owns(n) => /\ Feeder(n) \in Nodes /\ Reached[Feeder(n)] \subseteq Nodes /\ Feeder(n) # n
    <3>1. ASSUME Owns(n)
          PROVE  Feeder(n) \in Nodes /\ Feeder(n) \in ToSet(Kids(n))
      BY <1>0, <3>1, FeederFacts, Zenon
    <3>2. n \notin ToSet(Kids(n))
      BY <1>0, Family DEF Kids
    <3> QED
      BY <1>0, <3>1, <3>2, ReachedDefined
  <2>3. \A x \in Nodes : \/ stdout'[x] = stdout[x]
                         \/ stdout'[x] \in Outside
                         \/ stdout'[x] = n /\ Replaces(n) /\ x \in Reached[Feeder(n)]
    <3>1. CASE Replaces(n)
      BY <3>1 DEF Replaces
    <3>2. CASE PutsBack(n)
      BY <2>1, <3>2 DEF PutsBack
    <3>3. CASE LeavesAlone(n)
      BY <3>3 DEF LeavesAlone
    <3> QED
      BY <1>1, <3>1, <3>2, <3>3, Zenon
  <2>4. \A m \in Nodes : saved'[m].out \in Outside
    <3>1. CASE Replaces(n)
      <4>1. PICK c \in Reached[Feeder(n)] : saved' = [saved EXCEPT ![n] = Streams(c)]
        BY <3>1 DEF Replaces
      <4>2. Owns(n) /\ pc[n] = "called" /\ c \in Nodes
        BY <2>2, <3>1 DEF Replaces, Called
      <4>3. stdout[c] \in Outside
        <5> SUFFICES ASSUME stdout[c] \notin Outside
                     PROVE  FALSE
          OBVIOUS
        <5>1. stdout[c] \in Nodes /\ Owns(stdout[c]) /\ c \in Reached[Feeder(stdout[c])]
          BY <2>1, <4>2
        <5>2. stdout[c] = n
          BY <1>0, <4>1, <4>2, <5>1, OneOwner
        <5> QED
          BY <2>1, <4>2, <5>2
      <4>4. saved'[n].out \in Outside
        BY <1>0, <4>1, <4>3 DEF Streams
      <4> QED
        BY <1>0, <2>1, <4>1, <4>4
    <3>2. CASE PutsBack(n) \/ LeavesAlone(n)
      BY <2>1, <3>2 DEF PutsBack, LeavesAlone
    <3> QED
      BY <1>1, <3>1, <3>2
  <2>5. ASSUME NEW x \in Nodes, stdout'[x] \notin Outside
        PROVE  stdout'[x] \in Nodes /\ Owns(stdout'[x]) /\ x \in Reached[Feeder(stdout'[x])]
    BY <2>1, <2>3, <2>5 DEF Replaces
  <2>6. ASSUME NEW m \in Nodes, pc'[m] \in {"idle", "called"}, NEW x \in Nodes
        PROVE  stdout'[x] # m
    <3>1. m # n /\ pc[m] \in {"idle", "called"}
      BY <1>1, <1>2, <2>6 DEF Frame
    <3> QED
      BY <2>1, <2>3, <3>1, NoBuffer
  <2>7. ASSUME NEW m \in Nodes, pc'[m] = "returned", Owns(m)
        PROVE  \/ \A x \in Nodes : stdout'[x] # m
               \/ Kind(m) = "cmd" /\ (res'[m].err = "error" \/ CutShort(m)')
    <3>1. Feeder(m) \in Nodes
      BY <1>0, <2>7, FeederFacts
    <3>2. ASSUME Returned(Feeder(m)), CutShort(m)
          PROVE  CutShort(m)'
      <4>1. res'[Feeder(m)] = res[Feeder(m)]
        BY <1>0, <1>2, <3>1, <3>2, ReturnedStay
      <4> QED
        BY <1>4, <3>2, <4>1 DEF CutShort
    <3>3. CASE m = n
      <4>1. CASE Replaces(n)
        BY <2>7, <3>3, <4>1 DEF Replaces
      <4>2. CASE PutsBack(n)
        <5>1. ASSUME NEW x \in Nodes
              PROVE  stdout'[x] # n
          <6>1. CASE x \in Reached[Feeder(n)]
            BY <2>1, <4>2, <6>1, NoBuffer DEF PutsBack
          <6>2. CASE x \notin Reached[Feeder(n)]
            <7>1. stdout'[x] = stdout[x]
              BY <4>2, <6>2 DEF PutsBack
            <7> QED
              BY <2>1, <6>2, <7>1, NoBuffer
          <6> QED
            BY <6>1, <6>2
        <5> QED
          BY <3>3, <5>1
      <4>3. CASE LeavesAlone(n)
        BY <2>7, <3>2, <3>3, <4>3 DEF LeavesAlone
      <4> QED
        BY <1>1, <4>1, <4>2, <4>3
    <3>4. CASE m # n
      <4>1. Returned(m) /\ res'[m] = res[m]
        BY <1>2, <2>7, <3>4 DEF Frame, Returned
      <4>2. CASE \A x \in Nodes : stdout[x] # m
        BY <2>3, <3>4, <4>2, NoBuffer
      <4>3. CASE Kind(m) = "cmd" /\ (res[m].err = "error" \/ CutShort(m))
        <5>1. res[m].err = "error" \/ Returned(Feeder(m))
          BY <1>0, <2>7, <4>1, <4>3 DEF SaysInv, Says, CommandSays, FedWhole, Owns
        <5> QED
          BY <3>2, <4>1, <4>3, <5>1
      <4> QED
        BY <2>1, <2>7, <4>1, <4>2, <4>3
    <3> QED
      BY <3>3, <3>4
  <2>8. ASSUME NEW x \in Nodes, stdout'[x] \notin Outside
        PROVE  (stdout[x] \in Nodes /\ Owns(stdout[x]) /\ x \in Reached[Feeder(stdout[x])])'
    <3>1. PICK m : m = stdout'[x]
      OBVIOUS
    <3>2. m \in Nodes /\ Owns(m) /\ x \in Reached[Feeder(m)]
      BY <2>5, <2>8, <3>1
    <3>3. Owns(m)' /\ x \in Reached'[Feeder(m)']
      BY <1>4, <3>2
    <3>4. (Owns(m) /\ x \in Reached[Feeder(m)])'
      BY <3>3
    <3> QED
      BY <3>1, <3>2, <3>4 DEF Owns, Feeder, Kind, Kids
  <2>9. ASSUME NEW m \in Nodes, (Returned(m) /\ Owns(m))'
        PROVE  (\/ \A x \in Nodes : stdout[x] # m
                \/ Kind(m) = "cmd" /\ (res[m].err = "error" \/ CutShort(m)))'
    <3>1. pc'[m] = "returned" /\ Owns(m) /\ Kind(m)' = Kind(m)
      BY <1>4, <2>9 DEF Returned, Kind
    <3> QED
      BY <2>7, <3>1, Zenon
  <2>10. runs' = 1 /\ stdout' = [x \in Nodes |-> stdout'[x]] /\ saved' = [m \in Nodes |-> saved'[m]]
    BY <1>1, <1>5, <1>7
  <2> QED
    BY <2>4, <2>6, <2>8, <2>9, <2>10 DEF StreamsInv
<1> QED
  BY <1>3, <1>6, <1>7 DEF StreamsInv

LEMMA InitStreams == Init => StreamsInv
<1> SUFFICES ASSUME Init
             PROVE  StreamsInv
  OBVIOUS
<1>1. /\ runs = 0 /\ stdout = [x \in Nodes |-> IF x \in prog.own THEN Own ELSE None]
      /\ saved = [m \in Nodes |-> [out |-> None, in |-> None]]
      /\ \A m \in Nodes : pc[m] = "idle"
  BY DEF Init
<1> QED
  BY <1>1, NoBuffer DEF StreamsInv, Outside, Returned

LEMMA NextKeepsStreams ==
  ASSUME ResultsInv, StreamsInv, [Next]_vars
  PROVE  StreamsInv'
<1>1. CASE \E n \in Nodes : Acts(n)
  BY <1>1, ActsKeepStreams, Zenon
<1>3. ASSUME NEW n \in Nodes, Exit(n)
      PROVE  StreamsInv'
  <2>1. /\ prog' = prog /\ stdout' = stdout /\ saved' = saved /\ runs' = runs
        /\ \A m \in Nodes : pc'[m] = "exited"
    BY <1>3 DEF Exit, streams, bounds
  <2>2. Reached' = Reached /\ \A m : Owns(m)' = Owns(m) /\ Feeder(m)' = Feeder(m)
    BY <2>1, ReachedSame, OwnsSame
  <2>3. runs # 0
    BY <1>3 DEF Exit, Called, StreamsInv
  <2>4. ASSUME NEW x \in Nodes, stdout[x] \in Nodes, Owns(stdout[x]), x \in Reached[Feeder(stdout[x])]
        PROVE  (stdout[x] \in Nodes /\ Owns(stdout[x]) /\ x \in Reached[Feeder(stdout[x])])'
    <3>1. PICK m : m = stdout[x]
      OBVIOUS
    <3>2. (Owns(m) /\ x \in Reached[Feeder(m)])'
      BY <2>2, <2>4, <3>1
    <3> QED
      BY <2>1, <2>4, <3>1, <3>2 DEF Owns, Feeder, Kind, Kids
  <2> QED
    BY <2>1, <2>3, <2>4 DEF StreamsInv, Returned, Outside
<1>2. ASSUME Run \/ UNCHANGED vars \/ \E n \in Nodes : AddArgs(n)
      PROVE  StreamsInv'
  <2>1. prog' = prog /\ res' = res /\ stdout' = stdout /\ saved' = saved
    BY <1>2 DEF Run, AddArgs, vars, control, streams
  <2>2. \/ pc' = pc /\ runs' = runs
        \/ runs' = runs + 1 /\ \A n \in Nodes : pc'[n] \in {"idle", "called"}
    BY <1>2 DEF Run, AddArgs, vars, control, bounds
  <2>3. Reached' = Reached
    BY <2>1, ReachedSame
  <2>4. \A m \in Nodes : Owns(m)' = Owns(m) /\ CutShort(m)' = CutShort(m) /\ Kind(m)' = Kind(m) /\ Feeder(m)' = Feeder(m)
    <3>1. \A m \in Nodes : CutShort(m)' = CutShort(m)
      BY <2>1 DEF CutShort, Feeder, Kids
    <3> QED
      BY <2>1, <3>1, OwnsSame
  <2>5. ASSUME NEW x \in Nodes, stdout[x] \in Nodes, Owns(stdout[x]), x \in Reached[Feeder(stdout[x])]
        PROVE  (stdout[x] \in Nodes /\ Owns(stdout[x]) /\ x \in Reached[Feeder(stdout[x])])'
    <3>1. PICK m : m = stdout[x]
      OBVIOUS
    <3>2. (Owns(m) /\ x \in Reached[Feeder(m)])'
      BY <2>3, <2>4, <2>5, <3>1
    <3> QED
      BY <2>1, <2>5, <3>1, <3>2 DEF Owns, Feeder, Kind, Kids
  <2>6. CASE pc' = pc /\ runs' = runs
    BY <2>1, <2>4, <2>5, <2>6 DEF StreamsInv, Returned
  <2>7. CASE runs' = runs + 1 /\ \A n \in Nodes : pc'[n] \in {"idle", "called"}
    <3>1. runs \in Nat
      BY DEF StreamsInv
    <3>2. CASE runs = 0
      <4>1. \A m, x \in Nodes : stdout[x] # m
        BY <3>2 DEF StreamsInv
      <4>2. \A m \in Nodes : ~Returned(m)'
        BY <2>7 DEF Returned
      <4> QED
        BY <2>1, <2>5, <2>7, <3>2, <4>1, <4>2 DEF StreamsInv
    <3>3. CASE runs # 0
      BY <2>1, <2>7, <3>1, <3>3 DEF StreamsInv
    <3> QED
      BY <3>2, <3>3
  <2> QED
    BY <2>2, <2>6, <2>7
<1> QED
  BY <1>1, <1>2, <1>3, StepActs, Zenon DEF Next

\* In the first run no stream has two owners, what an owner has saved is what
\* the caller had set, and only an error or a feeder that cuts the run short
\* leaves a buffer behind (BlockRun of a command and of a pipe).
THEOREM StreamsInvariant == Spec => []StreamsInv
<1>1. ResultsInv /\ StreamsInv /\ [Next]_vars => StreamsInv'
  BY NextKeepsStreams
<1> QED
  BY ResultsInvariant, InitStreams, <1>1, PTL DEF Spec

\* After the first run no feeder writes to the buffer that BlockRun put in the
\* place of its output, whatever ran beside it and failed, unless an error or
\* pipefail ended the run of the command it feeds.
THEOREM StreamsAreRestored == Spec => []StreamsRestored
<1>1. ASSUME CommandInv, StreamsInv
      PROVE  StreamsRestored
  <2> SUFFICES ASSUME runs = 1, NEW n \in Nodes, Returned(n), Kind(n) \in {"cmd", "pipe"}, Kids(n) # <<>>
               PROVE  \/ \A k \in Reached[Feeder(n)] : stdout[k] # n
                      \/ Kind(n) = "cmd" /\ (res[n].err = "error" \/ CutShort(n))
    BY DEF StreamsRestored
  <2>1. prog \in Programs /\ Feeder(n) \in Nodes
    BY <1>1, Ends DEF CommandInv, TypeInv, Kids, Feeder
  <2>2. Reached[Feeder(n)] \subseteq Nodes
    BY <2>1, ReachedDefined
  <2>3. \/ \A k \in Nodes : stdout[k] # n
        \/ Kind(n) = "cmd" /\ (res[n].err = "error" \/ CutShort(n))
    <3>1. CASE Owns(n)
      BY <1>1, <3>1 DEF StreamsInv
    <3>2. CASE ~Owns(n)
      BY <1>1, <3>2, NoBuffer DEF StreamsInv
    <3> QED
      BY <3>1, <3>2
  <2> QED
    BY <2>2, <2>3
<1> QED
  BY ResultsInvariant, StreamsInvariant, <1>1, PTL DEF ResultsInv
=============================================================================
