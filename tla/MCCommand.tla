------------------------------ MODULE MCCommand -----------------------------
(* Programs for TLC: at most three commands and two other nodes.           *)
EXTENDS Command, TLC

CONSTANTS a, b, c, s, p

\* the exit codes differ
Differ == [n \in Nodes |-> IF n = a THEN 1 ELSE IF n = b THEN 2 ELSE 3]

Unused == [n \in Nodes |-> "unused"]
NoKids == [n \in Nodes |-> <<>>]
Once   == [n \in Nodes |-> 0]

Program(root, kind, kids) ==
  [root |-> root, kind |-> kind @@ Unused, kids |-> kids @@ NoKids, retries |-> Once,
   failFast |-> {}, pipeFail |-> {}, errorOnFailure |-> {}, timeout |-> {}, missing |-> {},
   own |-> {}]

Commands(ns) == [n \in ns |-> "cmd"]

All == {
  \* s tries a, b and c in order, twice each
  [Program(s, Commands({a, b, c}) @@ s :> "serial", s :> <<a, b, c>>)
     EXCEPT !.failFast = {s}, !.retries[s] = 1],
  [Program(s, Commands({a, b}) @@ s :> "serial", s :> <<a, b>>) EXCEPT !.timeout = {b}],
  [Program(s, Commands({a, b, c}) @@ s :> "or", s :> <<a, b, c>>) EXCEPT !.retries[b] = 1],
  [Program(s, Commands({a, b, c}) @@ s :> "parallel", s :> <<a, b, c>>)
     EXCEPT !.failFast = {s}, !.retries[s] = 1],
  [Program(s, Commands({a, b}) @@ s :> "parallel", s :> <<a, b>>) EXCEPT !.errorOnFailure = {b}],
  \* a | b | c
  [Program(c, Commands({a, b, c}), c :> <<b>> @@ b :> <<a>>)
     EXCEPT !.pipeFail = {b}, !.retries[c] = 1, !.missing = {a}],
  [Program(c, Commands({a, b, c}), c :> <<b>> @@ b :> <<a>>)
     EXCEPT !.pipeFail = {a}, !.retries[b] = 1, !.errorOnFailure = {b}],
  \* s | c, of a sequence
  [Program(p, Commands({a, b, c}) @@ p :> "pipe" @@ s :> "serial", p :> <<s, c>> @@ s :> <<a, b>>)
     EXCEPT !.pipeFail = {p}, !.retries[s] = 1, !.own = {b, c}],
  [Program(p, Commands({a, b, c}) @@ p :> "pipe" @@ s :> "parallel", p :> <<s, c>> @@ s :> <<a, b>>)
     EXCEPT !.failFast = {s}],
  \* c | s
  [Program(p, Commands({a, b, c}) @@ p :> "pipe" @@ s :> "or", p :> <<c, s>> @@ s :> <<a, b>>)
     EXCEPT !.timeout = {c}],
  \* a | b, a pipe whose feeder has to succeed
  [Program(p, Commands({a, b}) @@ p :> "pipe", p :> <<a, b>>) EXCEPT !.pipeFail = {p}, !.errorOnFailure = {a}],
  \* what is printed by a | b
  Program(p, Commands({a, b}) @@ p :> "output", p :> <<b>> @@ b :> <<a>>),
  \* a pipe that is not run itself: only its sink is
  [Program(s, Commands({a, b}) @@ s :> "output" @@ p :> "pipe", s :> <<p>> @@ p :> <<a, b>>)
     EXCEPT !.pipeFail = {p}],
  [Program(s, Commands({a, b, c}) @@ s :> "parallel" @@ p :> "pipe", s :> <<p, c>> @@ p :> <<a, b>>)
     EXCEPT !.pipeFail = {p}, !.failFast = {s}],
  \* a pipe into b | c
  [Program(p, Commands({a, b, c}) @@ p :> "pipe", p :> <<a, c>> @@ c :> <<b>>)
     EXCEPT !.pipeFail = {p}, !.own = {a}],
  \* sequences in sequences
  [Program(s, Commands({a, b, c}) @@ s :> "serial" @@ p :> "parallel", s :> <<p, c>> @@ p :> <<a, b>>)
     EXCEPT !.failFast = {s}],
  [Program(s, Commands({a, b, c}) @@ s :> "parallel" @@ p :> "or", s :> <<p, c>> @@ p :> <<a, b>>)
     EXCEPT !.failFast = {s}, !.retries[p] = 1],
  [Program(s, Commands({a}) @@ s :> "serial" @@ p :> "parallel", s :> <<a, p>>) EXCEPT !.errorOnFailure = {a}],
  [Program(s, Commands({a}) @@ s :> "or" @@ p :> "serial", s :> <<a, p>>) EXCEPT !.retries[s] = 1]
}
=============================================================================
