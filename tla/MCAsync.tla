------------------------------- MODULE MCAsync ------------------------------
(* The pool or the combinators of promises, for TLC: a behaviour uses one   *)
(* of the two, and the other stays in its initial state.                    *)
EXTENDS Pool, Promise

VARIABLES part

MCInit ==
  /\ part \in {"pool", "promises"}
  /\ Init /\ PromiseInit
  /\ part = "pool" => combinator = "All"

MCNext ==
  \/ part = "pool"     /\ Next /\ UNCHANGED <<part, promiseVars>>
  \/ part = "promises" /\ PromiseNext /\ UNCHANGED <<part, vars>>

MCVars == <<vars, part, promiseVars>>

MCSpec ==
  /\ MCInit /\ [][MCNext]_MCVars
  /\ \A u \in Users :
       /\ WF_MCVars(part = "pool" /\ Progress(u) /\ UNCHANGED <<part, promiseVars>>)
       /\ SF_MCVars(part = "pool" /\ Try(u) /\ UNCHANGED <<part, promiseVars>>)
  /\ WF_MCVars(part = "promises" /\ Go /\ UNCHANGED <<part, vars>>)
=============================================================================
