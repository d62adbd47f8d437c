------------------------------- MODULE Promise ------------------------------
(* The combinators of promiz (src/promiz/promise.go), and Run of concurrenz *)
(* with RunWaiting: goroutines, one per promise or input, whose results are *)
(* gathered from two channels.                                              *)
(*                                                                          *)
(* All, Race and Best start two goroutines per promise, of Then and Catch,  *)
(* that Await it with the context of the caller: Await takes either branch  *)
(* of its select when the context is done and the promise is settled.       *)
(* External: an executor resolves, rejects or panics; its value is the      *)
(* promise, and so is its error.                                            *)
EXTENDS Naturals, Sequences, FiniteSets, SequencesExt

CONSTANTS
  Promises,     \* 1 .. n, in the order of the arguments
  Combinators,  \* those to run, of {"All", "Race", "Best", "RunWaiting"}
  Cancels,      \* TRUE: the context may be done before the promises
  Nil, Done    \* nil, ctx.Err()

VARIABLES
  combinator,
  state,            \* of each promise: "pending", "resolved", "rejected"
  done,             \* the context is done
  then, catch,      \* of each promise: TRUE as long as Then, Catch awaits it
  results, errors,  \* channels of <<value or error, promise>>
  received,         \* the messages that the combinator has received, in order
  outcome           \* of the combinator: "pending", "resolved", "rejected"

\* All, Race and Best panic without a promise.
ASSUME PromisesAssumption ==
  IsFiniteSet(Promises) /\ Promises # {} /\ {Nil, Done} \cap Promises = {} /\ Nil # Done

channels == <<results, errors>>
promiseVars == <<combinator, state, done, then, catch, channels, received, outcome>>

PromiseInit ==
  /\ combinator \in Combinators
  /\ state = [p \in Promises |-> "pending"]
  /\ done = FALSE
  /\ then = [p \in Promises |-> combinator # "RunWaiting"]
  /\ catch = then
  /\ results = <<>> /\ errors = <<>>
  /\ received = <<>>
  /\ outcome = "pending"

\* resolve, reject and handlePanic, of which the first call counts (once)
Settle(p, s) ==
  /\ state[p] = "pending"
  /\ state' = [state EXCEPT ![p] = s]
  /\ IF combinator = "RunWaiting"
     THEN IF s = "resolved"
          THEN results' = Append(results, <<p, p>>) /\ UNCHANGED errors
          ELSE errors' = Append(errors, <<p, p>>) /\ UNCHANGED results
     ELSE UNCHANGED channels
  /\ UNCHANGED <<combinator, done, then, catch, received, outcome>>

Cancel ==
  /\ Cancels /\ ~done /\ combinator # "RunWaiting"
  /\ done' = TRUE
  /\ UNCHANGED <<combinator, state, then, catch, channels, received, outcome>>

\* what Await may return: <<value, error>>
Await(p) ==
  (IF state[p] = "resolved" THEN {<<p, Nil>>} ELSE IF state[p] = "rejected" THEN {<<Nil, p>>} ELSE {})
    \cup (IF done THEN {<<Nil, Done>>} ELSE {})

Then(p) ==
  /\ then[p]
  /\ then' = [then EXCEPT ![p] = FALSE]
  /\ \E r \in Await(p) :
       results' = IF r[2] = Nil THEN Append(results, <<r[1], p>>) ELSE results
  /\ UNCHANGED <<combinator, state, done, catch, errors, received, outcome>>

Catch(p) ==
  /\ catch[p]
  /\ catch' = [catch EXCEPT ![p] = FALSE]
  /\ \E r \in Await(p) :
       errors' = IF r[2] # Nil THEN Append(errors, <<r[2], p>>) ELSE errors
  /\ UNCHANGED <<combinator, state, done, then, results, received, outcome>>

\* Mutants: one message less, one more.
ExpectedLess == IF combinator = "Race" THEN 1 ELSE Cardinality(Promises) - 1
ExpectedMore == IF combinator = "Race" THEN 1 ELSE Cardinality(Promises) + 1
\* the loop of All and Best receives as many messages as there are promises,
\* Race only one
Expected == IF combinator = "Race" THEN 1 ELSE Cardinality(Promises)

Message(kind, m) == [kind |-> kind, value |-> m[1], promise |-> m[2]]

Receive ==
  /\ combinator # "RunWaiting"
  /\ outcome = "pending" /\ Len(received) < Expected
  /\ \/ /\ results # <<>>
        /\ received' = Append(received, Message("result", Head(results)))
        /\ results' = Tail(results)
        /\ UNCHANGED <<errors, outcome>>
     \/ /\ errors # <<>>
        /\ received' = Append(received, Message("error", Head(errors)))
        /\ errors' = Tail(errors)
        /\ outcome' = IF combinator = "Best" THEN outcome ELSE "rejected"
        /\ UNCHANGED results
  /\ UNCHANGED <<combinator, state, done, then, catch>>

Resolve ==
  /\ combinator # "RunWaiting"
  /\ outcome = "pending" /\ Len(received) = Expected
  /\ outcome' = "resolved"
  /\ UNCHANGED <<combinator, state, done, then, catch, channels, received>>

\* wg.Wait, then ConsumedAggregated, which stops at an empty channel; the
\* results stay in theirs
Waited ==
  /\ combinator = "RunWaiting" /\ outcome = "pending"
  /\ \A p \in Promises : state[p] # "pending"
  /\ received' = [i \in DOMAIN errors |-> Message("error", errors[i])]
  /\ errors' = <<>>
  /\ outcome' = IF errors = <<>> THEN "resolved" ELSE "rejected"
  /\ UNCHANGED <<combinator, state, done, then, catch, results>>

Go == (\E p \in Promises : Then(p) \/ Catch(p)) \/ Receive \/ Resolve \/ Waited

PromiseNext == Cancel \/ Go \/ \E p \in Promises : Settle(p, "resolved") \/ Settle(p, "rejected")

PromiseSpec == PromiseInit /\ [][PromiseNext]_promiseVars

\* goroutines go on, one at least
PromiseFairSpec == PromiseSpec /\ WF_promiseVars(Go)

-----------------------------------------------------------------------------
(* Properties.                                                             *)

\* AddResult and AddError: what Best keeps for a promise, the last of each kind
Kept(kind, p) ==
  LET of == {i \in DOMAIN received : received[i].kind = kind /\ received[i].promise = p}
  IN  IF of = {} THEN Nil ELSE received[Max(of)].value

Fate(p) == IF state[p] = "resolved" THEN <<p, Nil>> ELSE <<Nil, p>>

\* What a combinator says is what became of the promises.  All resolves with the
\* value of every promise, even if the context ends meanwhile, and like Race it
\* rejects with the error of one, or of the context.  Best gives to each promise
\* its value or its error, unless the context is done: then one may count twice
\* and another, without value and error, look resolved.  RunWaiting leaves every
\* output in its channel and returns every error.
Faithful ==
  /\ combinator = "All" /\ outcome = "resolved" =>
       \A p \in Promises : state[p] = "resolved" /\ Kept("result", p) = p
  /\ combinator = "Best" /\ outcome = "resolved" /\ ~done =>
       \A p \in Promises : <<Kept("result", p), Kept("error", p)>> = Fate(p)
  /\ combinator = "RunWaiting" /\ outcome # "pending" =>
       /\ {m[2] : m \in ToSet(results)} = {p \in Promises : state[p] = "resolved"}
       /\ {m.promise : m \in ToSet(received)} = {p \in Promises : state[p] = "rejected"}
       /\ Len(results) + Len(received) = Cardinality(Promises)
  /\ combinator \in {"All", "Race"} /\ outcome # "pending" =>
       LET m == Last(received) IN
         /\ outcome = "rejected" <=> m.kind = "error"
         /\ m.value = Done => done
         /\ m.value # Done => state[m.promise] = (IF m.kind = "error" THEN "rejected" ELSE "resolved")

\* what settles a combinator: all of its promises, one that rejects for All, any
\* for Race
Ready ==
  LET Has(S) == \E p \in Promises : state[p] \in S IN
  CASE combinator = "All"  -> Has({"rejected"}) \/ ~Has({"pending"})
    [] combinator = "Race" -> Has({"rejected", "resolved"})
    [] OTHER               -> ~Has({"pending"})

\* A combinator settles as soon as it can, and whatever the order: nothing waits
\* for a message that nobody sends, nor for promises that no longer matter.
\* (When the context is done All, Race and Best may wait for ever: Then may take
\* its end, and Catch the value.)
Settles == Ready ~> (outcome # "pending" \/ done)
=============================================================================
