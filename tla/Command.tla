------------------------------- MODULE Command ------------------------------
(***************************************************************************)
(* The commands of cmdz (src/cmdz): a tree of executers, run by BlockRun.  *)
(* Its leaves are external commands (cmdz), which may have a feeder        *)
(* (cmdz.Pipe), its other nodes serial, or and parallel sequences, pipes   *)
(* and outputters.  A node is called by the one above it, or by a          *)
(* goroutine of a parallel sequence, and returns a code and an error.      *)
(*                                                                         *)
(* External: a process exits 0, with its own code, or -1 when a signal     *)
(* kills it; it reads all of its input and writes one item.  A stream is   *)
(* nil (None), set by the caller (Own), or the buffer that a pipe or a     *)
(* command with a feeder makes, named by that node.  Not modelled: stderr, *)
(* the records, times, and a second BlockRun while commands still run.     *)
(***************************************************************************)
EXTENDS Integers, Sequences, FiniteSets, SequencesExt

CONSTANTS
  Nodes,
  Programs,   \* trees: [root, kind, kids, retries, failFast, pipeFail, errorOnFailure, timeout, missing, own]
  Code,       \* Code[n]: the exit code of n when it fails
  MaxRuns,    \* bound on the calls of BlockRun of the root
  MaxAmends,  \* bound on the calls of AddArgs
  None,       \* nil
  Own         \* a stream of the caller's

Kinds == {"cmd", "serial", "or", "parallel", "pipe", "output", "unused"}

ASSUME CodeAssumption   == Code \in [Nodes -> Nat \ {0}]
ASSUME NoneAssumption   == None \notin Nodes \cup Int
ASSUME OwnAssumption    == Own \notin Nodes \cup {None}
ASSUME BoundsAssumption == MaxRuns \in Nat /\ MaxAmends \in Nat
ASSUME ProgramsAssumption ==
  Programs \subseteq [root : Nodes, kind : [Nodes -> Kinds], kids : [Nodes -> Seq(Nodes)],
                      retries : [Nodes -> Nat], failFast : SUBSET Nodes, pipeFail : SUBSET Nodes,
                      errorOnFailure : SUBSET Nodes, timeout : SUBSET Nodes, missing : SUBSET Nodes,
                      own : SUBSET Nodes]
\* a command is fed by a command, a pipe has a feeder and a sink, an outputter is
\* no executer that another one could call; no executer is under itself, or added
\* twice, and the tree has an end everywhere
ASSUME TreesAssumption ==
  \A p \in Programs :
    /\ \A n \in Nodes :
         /\ p.kind[n] = "cmd" =>
              Len(p.kids[n]) <= 1 /\ \A k \in ToSet(p.kids[n]) : p.kind[k] = "cmd"
         /\ p.kind[n] = "pipe" => Len(p.kids[n]) = 2
         /\ p.kind[n] = "output" => Len(p.kids[n]) = 1 /\ n = p.root
         /\ IsInjective(p.kids[n])
         /\ p.root \notin ToSet(p.kids[n])
    /\ \A m, n \in Nodes : m # n => ToSet(p.kids[m]) \cap ToSet(p.kids[n]) = {}
    /\ \A S \in (SUBSET Nodes) \ {{}} :
         /\ \E k \in S : \A n \in S : k \notin ToSet(p.kids[n])
         /\ \E k \in S : ToSet(p.kids[k]) \cap S = {}

VARIABLES
  prog,
  pc, res, next,    \* per node: where it is, what it returned, the child it runs
  codes,            \* exitCodes, per command
  fallback,         \* the retries of fallbackConfig
  errorOnFailure,   \* the commands whose failure is an error
  pipedInput,       \* the commands that were fed
  stdout, stdin,    \* config.stdout and config.stdin
  saved,            \* originalStdout and originalStdin of a BlockRun with a feeder
  content,          \* what is in each buffer
  used, checkpoint, \* TRUE: the exec.Cmd (its copy in cmdCheckpoint) was started
  done,             \* the commands whose context is cancelled
  runs, amends

control == <<pc, res, next>>
streams == <<stdout, stdin, saved, content>>
process == <<used, checkpoint, done>>
config  == <<fallback, errorOnFailure, pipedInput>>
bounds  == <<runs, amends>>
vars    == <<prog, control, codes, config, streams, process, bounds>>

Kind(n) == prog.kind[n]
Kids(n) == prog.kids[n]
Seqs    == {"serial", "or", "parallel"}

Ok(rc)            == [rc |-> rc, err |-> "none", code |-> 0]
Error(rc)         == [rc |-> rc, err |-> "error", code |-> 0]
Failure(rc, code) == [rc |-> rc, err |-> "failure", code |-> code]

Init ==
  /\ prog \in Programs
  /\ pc = [n \in Nodes |-> "idle"]
  /\ res = [n \in Nodes |-> Ok(0)]
  /\ next = [n \in Nodes |-> 0]
  /\ codes = [n \in Nodes |-> <<>>]
  /\ fallback = [n \in Nodes |-> 0]
  /\ errorOnFailure = prog.errorOnFailure
  /\ pipedInput = {}
  /\ stdout = [n \in Nodes |-> IF n \in prog.own THEN Own ELSE None]
  /\ stdin = [n \in Nodes |-> IF n \in prog.own THEN Own ELSE None]
  /\ saved = [n \in Nodes |-> [out |-> None, in |-> None]]
  /\ content = [n \in Nodes |-> <<>>]
  /\ used = [n \in Nodes |-> FALSE]
  /\ checkpoint = [n \in Nodes |-> FALSE]
  /\ done = {}
  /\ runs = 0 /\ amends = 0

\* where a setter or a reset goes on: the children of a sequence, the sink of a
\* pipe, not the feeder of a command
Heirs(n) ==
  CASE Kind(n) \in Seqs -> ToSet(Kids(n))
    [] Kind(n) \in {"pipe", "output"} -> {Last(Kids(n))}
    [] OTHER -> {}
\* the node itself, and the nodes that a setter or reset of it reaches
Reached[n \in Nodes] == {n} \cup UNION {Reached[k] : k \in Heirs(n)}

\* where getConfig finds the configuration
Config[n \in Nodes] == IF Kind(n) = "pipe" THEN Config[Last(Kids(n))] ELSE n

\* AsyncRun and ErrorOnFailure of a pipe are those of the Executer it embeds, its
\* sink: a parallel sequence and an outputter do not run the pipe itself
Inner[n \in Nodes] ==
  \E m \in Nodes : /\ n \in ToSet(Kids(m))
                   /\ \/ Kind(m) \in {"parallel", "output"}
                      \/ Kind(m) = "pipe" /\ n = Last(Kids(m)) /\ Inner[m]

\* called by BlockRun, or by AsyncRun in a goroutine
Called(n)   == pc[n] = "called"
Returned(n) == pc[n] = "returned"
Feeder(n)   == Head(Kids(n))
Streams(n)  == [out |-> stdout[n], in |-> stdin[n]]
AtRest      == \A n \in Nodes : pc[n] \in {"idle", "returned"}
Exited      == \E n \in Nodes : pc[n] = "exited"

\* n calls the nodes of ks, or returns
Calls(n, ks, place) == pc' = [k \in Nodes |-> IF k = n THEN place ELSE IF k \in ks THEN "called" ELSE pc[k]]
Returns(n, r) ==
  /\ pc' = [pc EXCEPT ![n] = "returned"]
  /\ res' = [res EXCEPT ![n] = r]

-----------------------------------------------------------------------------
(* A command.                                                              *)

\* mergeConfigs: what the command sets goes before what its sequence sets
mergeConfigs(own, lower) == IF own = 0 THEN lower ELSE own
Retries(n) == mergeConfigs(prog.retries[n], fallback[n])

\* BlockRun of a command with a feeder: a buffer replaces the output of the
\* feeder and the input of the command.
Feed(n) ==
  /\ Called(n) /\ Kind(n) = "cmd" /\ Kids(n) # <<>>
  /\ saved' = [saved EXCEPT ![n] = Streams(Feeder(n))]
  /\ stdout' = [stdout EXCEPT ![Feeder(n)] = n]
  /\ stdin' = [stdin EXCEPT ![n] = n]
  /\ pipedInput' = pipedInput \cup {n}
  /\ content' = [content EXCEPT ![n] = <<>>]
  /\ Calls(n, {Feeder(n)}, "feeding")
  /\ UNCHANGED <<prog, res, next, codes, fallback, errorOnFailure, process, bounds>>

\* An error of the feeder that is no failure ends the run, and with pipefail a
\* positive code: the streams stay replaced.
Cut(r, pipeFail) == r.err = "error" \/ (pipeFail /\ r.rc > 0)
CutShort(n)      == Cut(res[Feeder(n)], Feeder(n) \in prog.pipeFail)

Fed(n) ==
  /\ pc[n] = "feeding" /\ Kind(n) = "cmd"
  /\ Returned(Feeder(n))
  /\ IF CutShort(n)
     THEN Returns(n, res[Feeder(n)])
     ELSE Calls(n, {}, "start") /\ UNCHANGED res
  /\ UNCHANGED <<prog, next, codes, config, streams, process, bounds>>

\* the exit codes are forgotten, the exec.Cmd becomes a copy of the checkpoint
Reset(ns) ==
  /\ codes' = [n \in Nodes |-> IF n \in ns THEN <<>> ELSE codes[n]]
  /\ used' = [n \in Nodes |-> IF n \in ns THEN checkpoint[n] ELSE used[n]]

\* reset, init, setup of the streams; the checkpoint it takes changes nothing
Start(n) ==
  /\ Kind(n) = "cmd"
  /\ pc[n] = "start" \/ (Called(n) /\ Kids(n) = <<>>)
  /\ Reset({n})
  /\ Calls(n, {}, "attempt")
  /\ UNCHANGED <<prog, res, next, config, streams, checkpoint, done, bounds>>

Cancelled(n) == done' = IF n \in prog.timeout THEN done \cup {n} ELSE done

\* Mutant: the streams stay replaced.
RestoredNever(n) == UNCHANGED <<stdout, stdin>>
\* the streams of the feeder of n are put back: the input of n becomes that of
\* the feeder, its own is not used again
Restored(n) ==
  IF Kids(n) = <<>>
  THEN UNCHANGED <<stdout, stdin>>
  ELSE /\ stdout' = [stdout EXCEPT ![Feeder(n)] = saved[n].out]
       /\ stdin' = [stdin EXCEPT ![n] = saved[n].in]

\* Mutant: the next attempt starts the same exec.Cmd.
RollbackNever(n) == used' = [used EXCEPT ![n] = TRUE]
\* rollback, after every attempt: the next one starts a copy of the checkpoint
Rollback(n) == used' = [used EXCEPT ![n] = checkpoint[n]]

\* Commands of a parallel sequence write the same bytes.Buffer, each from its own
\* goroutine and without a lock: what n writes, or what is there, may be lost.
Races(n) == \E k \in Nodes \ {n} : pc[k] = "attempt" /\ stdout[k] = stdout[n]
\* what n reads is no longer there, what it writes is added
Piped(n) ==
  \E added, kept \in BOOLEAN :
    /\ Races(n) \/ (added /\ kept)
    /\ content' = [b \in Nodes |->
         IF b = stdout[n]
         THEN (IF kept THEN content[b] ELSE <<>>) \o (IF added THEN <<n>> ELSE <<>>)
         ELSE IF b = stdin[n] THEN <<>> ELSE content[b]]

\* failure{} if the command has to succeed
Outcome(n, c) == IF n \in errorOnFailure /\ c > 0 THEN Failure(-1, c) ELSE Ok(c)

\* An attempt: Start and Wait.  It is the last one if it succeeds or the retries
\* are spent.
Attempt(n, c) ==
  LET again == c # 0 /\ Len(codes[n]) < Retries(n) IN
  /\ pc[n] = "attempt"
  /\ n \notin prog.missing /\ n \notin done /\ ~used[n]
  /\ codes' = [codes EXCEPT ![n] = Append(@, c)]
  /\ Piped(n)
  /\ Rollback(n)
  /\ IF again
     THEN UNCHANGED <<pc, res, stdout, stdin, done>>
     ELSE Returns(n, Outcome(n, c)) /\ Restored(n) /\ Cancelled(n)
  /\ UNCHANGED <<prog, next, config, saved, checkpoint, bounds>>

\* Start fails, with the code of the attempt before, or the context ends the
\* process in Wait: no retry, no rollback, and the streams stay replaced.
StartFails(n, rc) ==
  /\ n \in prog.missing \cup done \cup prog.timeout \/ used[n]
  /\ rc = IF codes[n] = <<>> THEN -1 ELSE Last(codes[n])
WaitFails(n, rc) == n \in prog.timeout \ (prog.missing \cup done) /\ ~used[n] /\ rc = -1
Abort(n, rc) ==
  /\ pc[n] = "attempt"
  /\ StartFails(n, rc) \/ WaitFails(n, rc)
  /\ used' = [used EXCEPT ![n] = TRUE]
  /\ Returns(n, Error(rc))
  /\ Cancelled(n)
  /\ UNCHANGED <<prog, next, codes, config, streams, checkpoint, bounds>>

\* the exec.Cmd is what the next rollbacks copy, started or not
Checkpoint(ns) == checkpoint' = [n \in Nodes |-> IF n \in ns THEN used[n] ELSE checkpoint[n]]

\* AddArgs and AddEnv of a command take a checkpoint, those of a sequence are
\* those of its children, those of a pipe are those of its sink
AddArgs(n) ==
  /\ Kind(n) # "unused" /\ AtRest
  /\ amends < MaxAmends
  /\ amends' = amends + 1
  /\ Checkpoint({k \in Reached[n] : Kind(k) = "cmd"})
  /\ UNCHANGED <<prog, control, codes, config, streams, used, done, runs>>

-----------------------------------------------------------------------------
(* Sequences.                                                              *)

\* BlockRun of a sequence: its configuration becomes the fallback of its
\* children, which are reset, and it calls the first ones.  Of that
\* configuration a command looks at the retries only: the Timeout and the
\* ErrorOnFailure of a sequence do nothing.
SeqRun(n, passed, first) ==
  LET kids == ToSet(Kids(n)) IN
  /\ Called(n)
  /\ fallback' = [k \in Nodes |-> IF \E c \in kids : Config[c] = k THEN passed ELSE fallback[k]]
  /\ Reset(Reached[n])
  /\ next' = [next EXCEPT ![n] = 1]
  /\ UNCHANGED pipedInput
  /\ IF kids = {} THEN Returns(n, Ok(0)) ELSE Calls(n, first, "waiting") /\ UNCHANGED res
  /\ UNCHANGED <<prog, streams, checkpoint, done, bounds>>

SerialRun(n) ==
  /\ Kind(n) = "serial"
  /\ SeqRun(n, Retries(n), {Head(Kids(n))})
  /\ UNCHANGED errorOnFailure

OrRun(n) ==
  /\ Kind(n) = "or"
  /\ SeqRun(n, Retries(n), {Head(Kids(n))})
  /\ UNCHANGED errorOnFailure

\* A parallel sequence does not pass on its own fallback, and the failures of
\* its commands become errors when it fails fast.
ParallelRun(n) ==
  /\ Kind(n) = "parallel"
  /\ SeqRun(n, prog.retries[n], ToSet(Kids(n)))
  /\ errorOnFailure' = errorOnFailure \cup
       (IF n \in prog.failFast THEN {k \in ToSet(Kids(n)) : Kind(k) = "cmd"} ELSE {})

\* The child returned: an error ends the sequence, so does what stops it.
SeqNext(n, stops) ==
  LET r == res[Kids(n)[next[n]]] IN
  /\ pc[n] = "waiting"
  /\ Returned(Kids(n)[next[n]])
  /\ IF r.err # "none"
     THEN Returns(n, [r EXCEPT !.rc = -1]) /\ UNCHANGED next
     ELSE IF stops \/ next[n] = Len(Kids(n))
     THEN Returns(n, r) /\ UNCHANGED next
     ELSE /\ Calls(n, {Kids(n)[next[n] + 1]}, "waiting")
          /\ next' = [next EXCEPT ![n] = @ + 1]
          /\ UNCHANGED res
  /\ UNCHANGED <<prog, codes, config, streams, process, bounds>>

rcNext(n) == res[Kids(n)[next[n]]].rc

\* Mutant: failFast is ignored.
FailsLast(n) == FALSE
FailsFast(n) == n \in prog.failFast /\ rcNext(n) > 0

\* blockSerial stops at a failure if it fails fast, blockOr at a success
SerialNext(n) == Kind(n) = "serial" /\ SeqNext(n, FailsFast(n))
OrNext(n)     == Kind(n) = "or" /\ SeqNext(n, rcNext(n) = 0)

\* blockParallel, all promises resolved: the first failure
FirstFailure(n) ==
  LET failed == {i \in 1 .. Len(Kids(n)) : res[Kids(n)[i]].rc > 0}
  IN  IF failed = {} THEN 0 ELSE res[Kids(n)[Min(failed)]].rc

\* Mutant: the first promise to resolve is enough (Race for All).
ResolvedFirst(n) ==
  /\ pc[n] = "waiting" /\ Kind(n) = "parallel"
  /\ \E k \in ToSet(Kids(n)) : Returned(k) /\ res[k].err = "none"
  /\ Returns(n, Ok(0))
  /\ UNCHANGED <<prog, next, codes, config, streams, process, bounds>>

\* Mutant: only successes count.
ResolvedOnSuccess(n) ==
  /\ pc[n] = "waiting" /\ Kind(n) = "parallel"
  /\ \A k \in ToSet(Kids(n)) : Returned(k) /\ res[k] = Ok(0)
  /\ Returns(n, Ok(0))
  /\ UNCHANGED <<prog, next, codes, config, streams, process, bounds>>
Resolved(n) ==
  /\ pc[n] = "waiting" /\ Kind(n) = "parallel"
  /\ \A k \in ToSet(Kids(n)) : Returned(k) /\ res[k].err = "none"
  /\ Returns(n, Ok(FirstFailure(n)))
  /\ UNCHANGED <<prog, next, codes, config, streams, process, bounds>>

\* The first promise to reject, the other commands still run.
Rejected(n) ==
  /\ pc[n] = "waiting" /\ Kind(n) = "parallel"
  /\ \E k \in ToSet(Kids(n)) :
       /\ Returned(k) /\ res[k].err # "none"
       /\ Returns(n, IF n \in prog.failFast /\ res[k].err = "failure"
                     THEN Ok(res[k].code) ELSE [res[k] EXCEPT !.rc = -1])
  /\ UNCHANGED <<prog, next, codes, config, streams, process, bounds>>

-----------------------------------------------------------------------------
(* Pipes and outputters.                                                   *)

\* Mutant: the writers of a sequence do not get its output.
SetStdoutAlone(n, v) == stdout' = [stdout EXCEPT ![n] = v]
SetStdout(n, v) == stdout' = [k \in Nodes |-> IF k \in Reached[n] THEN v ELSE stdout[k]]
SetInput(n, v)  == stdin' = [k \in Nodes |-> IF k \in Reached[n] THEN v ELSE stdin[k]]
Sink(n)         == Last(Kids(n))

\* a command that was fed does not let its input be set: log.Fatal
Fatal(n) == Reached[Sink(n)] \cap pipedInput # {}

\* basicPipe.BlockRun
PipeRun(n) ==
  /\ Called(n) /\ Kind(n) = "pipe" /\ ~Inner[n] /\ ~Fatal(n)
  /\ saved' = [saved EXCEPT ![n] = Streams(Config[Feeder(n)])]
  /\ SetStdout(Feeder(n), n)
  /\ SetInput(Sink(n), n)
  /\ content' = [content EXCEPT ![n] = <<>>]
  /\ Calls(n, {Feeder(n)}, "feeding")
  /\ UNCHANGED <<prog, res, next, codes, config, process, bounds>>

\* AsyncRun, or OutputString: no feeder, no pipefail, no stream replaced
SinkRun(n) ==
  /\ Called(n) /\ Kind(n) = "pipe" /\ Inner[n]
  /\ Calls(n, {Sink(n)}, "draining")
  /\ UNCHANGED <<prog, res, next, codes, config, streams, process, bounds>>

\* the deferred calls: the sink gets the input of the feeder
PipeReturns(n, r) ==
  /\ ~Fatal(n)
  /\ Returns(n, r)
  /\ SetStdout(Feeder(n), saved[n].out)
  /\ SetInput(Sink(n), saved[n].in)

PipeFed(n) ==
  /\ pc[n] = "feeding" /\ Kind(n) = "pipe"
  /\ Returned(Feeder(n))
  /\ IF Cut(res[Feeder(n)], n \in prog.pipeFail)
     THEN PipeReturns(n, res[Feeder(n)])
     ELSE Calls(n, {Sink(n)}, "draining") /\ UNCHANGED <<res, stdout, stdin>>
  /\ UNCHANGED <<prog, next, codes, config, saved, content, process, bounds>>

PipeDrained(n) ==
  /\ pc[n] = "draining"
  /\ Returned(Sink(n))
  /\ IF Inner[n]
     THEN Returns(n, res[Sink(n)]) /\ UNCHANGED <<stdout, stdin>>
     ELSE PipeReturns(n, res[Sink(n)])
  /\ UNCHANGED <<prog, next, codes, config, saved, content, process, bounds>>

\* SetInput of the sink ends the process, with everything that runs in it: before
\* the feeder is run, or when the input is put back.
Exit(n) ==
  /\ Kind(n) = "pipe" /\ ~Inner[n] /\ Fatal(n)
  /\ \/ Called(n)
     \/ /\ pc[n] = "feeding" /\ Returned(Feeder(n))
        /\ Cut(res[Feeder(n)], n \in prog.pipeFail)
     \/ pc[n] = "draining" /\ Returned(Sink(n))
  /\ pc' = [k \in Nodes |-> "exited"]
  /\ UNCHANGED <<prog, res, next, codes, config, streams, process, bounds>>

\* OutputString: a failure of a command is an error from now on
OutputRun(n) ==
  /\ Called(n) /\ Kind(n) = "output"
  /\ errorOnFailure' = errorOnFailure \cup {k \in {Config[Sink(n)]} : Kind(k) = "cmd"}
  /\ Calls(n, {Sink(n)}, "reading")
  /\ UNCHANGED <<prog, res, next, codes, fallback, pipedInput, streams, process, bounds>>

OutputReturns(n) ==
  LET r == res[Sink(n)] IN
  /\ pc[n] = "reading"
  /\ Returned(Sink(n))
  /\ Returns(n, IF r.err = "none" /\ r.rc > 0 THEN Failure(-1, r.rc) ELSE r)
  /\ UNCHANGED <<prog, next, codes, config, streams, process, bounds>>

-----------------------------------------------------------------------------
\* The root is run, and run again once every command has ended.
Run ==
  /\ AtRest
  /\ runs < MaxRuns
  /\ runs' = runs + 1
  /\ pc' = [n \in Nodes |-> IF n = prog.root THEN "called" ELSE "idle"]
  /\ UNCHANGED <<prog, res, next, codes, config, streams, process, amends>>

Step ==
  \E n \in Nodes :
    \/ Feed(n) \/ Fed(n) \/ Start(n)
    \/ \E c \in {0, Code[n], -1} : Attempt(n, c) \/ Abort(n, c)
    \/ SerialRun(n) \/ OrRun(n) \/ ParallelRun(n)
    \/ SerialNext(n) \/ OrNext(n) \/ Resolved(n) \/ Rejected(n)
    \/ PipeRun(n) \/ PipeFed(n) \/ SinkRun(n) \/ PipeDrained(n) \/ Exit(n)
    \/ OutputRun(n) \/ OutputReturns(n)

Next == Run \/ Step \/ \E n \in Nodes : AddArgs(n)

Spec == Init /\ [][Next]_vars

\* processes end, goroutines go on
FairSpec == Spec /\ WF_vars(Step)

-----------------------------------------------------------------------------
(* Properties.                                                             *)

\* what the exit codes say of the run of a node, whatever it returned
Killed(n) == codes[n] # <<>> /\ Last(codes[n]) = -1

Succeeded[n \in Nodes] ==
  /\ Kind(n) = "cmd" => /\ codes[n] # <<>> /\ Last(codes[n]) = 0
                        /\ \A f \in ToSet(Kids(n)) : f \in prog.pipeFail => Succeeded[f]
  /\ Kind(n) = "serial" =>
       \A k \in ToSet(Kids(n)) : n \in prog.failFast \/ k = Last(Kids(n)) => Succeeded[k]
  /\ Kind(n) = "or" /\ Kids(n) # <<>> => \E k \in ToSet(Kids(n)) : Succeeded[k]
  /\ Kind(n) = "parallel" => \A k \in ToSet(Kids(n)) : Succeeded[k]
  /\ Kind(n) = "pipe" /\ ~Inner[n] /\ n \in prog.pipeFail => Succeeded[Feeder(n)]
  /\ Kind(n) \in {"pipe", "output"} => Succeeded[Sink(n)]

\* the last of the ResultCodes of n, which are those of its commands in their
\* order, but not those of a feeder; None if there is none
LastCode(n, code) ==
  LET coded == {i \in 1 .. Len(Kids(n)) : Kids(n)[i] \in Heirs(n) /\ code[Kids(n)[i]] # None}
  IN  IF Kind(n) = "cmd" THEN IF codes[n] = <<>> THEN None ELSE Last(codes[n])
      ELSE IF coded = {} THEN None ELSE code[Kids(n)[Max(coded)]]
ExitCode[n \in Nodes] == LastCode(n, ExitCode)

\* a feeder that failed with an error returns -1, which is no failure for pipefail
DefeatsPipeFail(n) ==
  /\ Kind(n) \in {"cmd", "pipe"} /\ Kids(n) # <<>>
  /\ (IF Kind(n) = "pipe" THEN n ELSE Feeder(n)) \in prog.pipeFail
  /\ res[Feeder(n)].err = "failure"

\* A run that returns 0 and no error has succeeded: every command that had to
\* exit with 0 did, in its last attempt, on whichever way through retries, pipes
\* and nested sequences (blockSerial, blockOr, blockParallel, BlockRun), and
\* ExitCode says the same if no sequence is empty.  Not so when a signal kills a
\* command (-1 is not > 0), or when pipefail meets a failure that is an error; and
\* the feeder of a pipe that a parallel sequence or an outputter calls is not run.
ZeroMeansSuccess ==
  LET r == res[prog.root] IN
  /\ Returned(prog.root) /\ r.rc = 0 /\ r.err = "none"
  /\ \A n \in Nodes : Returned(n) => ~Killed(n) /\ ~DefeatsPipeFail(n)
  => /\ Succeeded[prog.root]
     /\ (\A n \in Nodes : Kind(n) \in Seqs => Kids(n) # <<>>) => ExitCode[prog.root] = 0

\* the commands that write to the output of n
Writers[n \in Nodes] ==
  IF Kind(n) = "cmd" THEN {n}
  ELSE UNION {Writers[k] : k \in Reached[n] \ {n}}

Occurrences(k, s) == Len(SelectSeq(s, LAMBDA x : x = k))

\* A sink starts with the output of every attempt of every command of its
\* feeder, once, and nothing else: the streams that BlockRun of a command or of
\* a pipe replaces reach the commands of the feeder, in this run and the next.
\* (A command that its own feeder cuts short writes nothing, and keeps the exit
\* codes of its last run: it is not reset.)  Parallel commands may lose some
\* of it.
PipeCarriesAll ==
  \A n \in Nodes :
    \/ Kind(n) = "cmd" /\ Kids(n) # <<>> /\ pc[n] = "attempt" /\ codes[n] = <<>>
    \/ Kind(n) = "pipe" /\ ~Inner[n] /\ pc[n] = "draining" /\ Called(Sink(n))
    => /\ (\A q \in Reached[Feeder(n)] : Kind(q) # "parallel") =>
            \A k \in Writers[Feeder(n)] : Occurrences(k, content[n]) =
              IF Kids(k) # <<>> /\ CutShort(k) THEN 0 ELSE Len(codes[k])
       /\ ToSet(content[n]) \subseteq Writers[Feeder(n)]

\* BlockRun replaces the output of a feeder "temporarilly": after the first run
\* no feeder writes to a buffer, unless an error or pipefail ended the run early.
StreamsRestored ==
  runs = 1 /\ AtRest =>
    \A n \in Nodes : Returned(n) /\ Kind(n) \in {"cmd", "pipe"} /\ Kids(n) # <<>> =>
      \/ \A k \in Reached[Feeder(n)] : stdout[k] # n
      \/ Kind(n) = "cmd" /\ (res[n].err = "error" \/ CutShort(n))

\* BlockRun returns an error that is no failure only because a command cannot
\* start or its context ended: no command starts an exec.Cmd a second time,
\* through retries, runs and the checkpoints of AddArgs and AddEnv (rollback),
\* but when an aborted one was never rolled back.
ErrorsHaveCause ==
  \A n \in Nodes :
    Returned(n) /\ res[n].err = "error" => prog.missing \cup prog.timeout # {}

\* Nothing still runs when the run has returned, unless a promise of a parallel
\* sequence was rejected: it does not wait for the others.
NothingLeftRunning ==
  Returned(prog.root) /\ ~AtRest =>
    \E n \in Nodes : /\ Kind(n) = "parallel" /\ Returned(n)
                     /\ \E k \in ToSet(Kids(n)) : Returned(k) /\ res[k].err # "none"

\* the sink of n reaches a command that has a feeder
FeedsFed(n) ==
  /\ Kind(n) = "pipe" /\ ~Inner[n]
  /\ \E k \in Reached[Sink(n)] : Kind(k) = "cmd" /\ Kids(k) # <<>>

\* A run returns: no sequence waits for a command that is not called, no pipe
\* for a sink it has not started, and the retries end.  Only a pipe into a command
\* that has a feeder of its own may end the process instead (log.Fatal).
RunReturns ==
  Called(prog.root) ~> Returned(prog.root) \/ (Exited /\ \E n \in Nodes : FeedsFed(n))

=============================================================================
