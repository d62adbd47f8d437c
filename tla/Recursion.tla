------------------------------- MODULE Recursion ----------------------------
(***************************************************************************)
(* Induction over data without an operator as a parameter: a set in place  *)
(* of a predicate, a function in place of a definition.  Every non-empty   *)
(* set of numbers has a least element, so that a claim about all numbers   *)
(* follows from the least number it could fail for; and a function that is *)
(* defined by recursion over a well-founded set exists.                    *)
(***************************************************************************)
EXTENDS WellFoundedInduction, TLAPS

\* A claim that fails for some number fails for a least one.
LEMMA LeastNatural ==
  ASSUME NEW T, T \subseteq Nat, T # {}
  PROVE  \E m \in T : \A k \in T : m <= k
<1> DEFINE R == {ss \in Nat \X Nat : ss[1] < ss[2]}
<1>1. PICK m \in T : \A k \in T : ~(<<k, m>> \in R)
  <2>1. IsWellFoundedOn(R, Nat)
    BY NatLessThanWellFounded, Zenon DEF OpToRel
  <2> HIDE DEF R
  <2> QED
    BY <2>1, WFMin
<1>2. ASSUME NEW k \in T
      PROVE  m <= k
  <2>1. k \in Nat /\ m \in Nat
    OBVIOUS
  <2>2. <<k, m>> \in Nat \X Nat /\ ~(<<k, m>> \in {ss \in Nat \X Nat : ss[1] < ss[2]})
    BY <1>1, <2>1
  <2>3. ~(k < m)
    BY <2>2
  <2> QED
    BY <2>1, <2>3
<1> QED
  BY <1>2

\* below[x] is what the value at x depends on: nothing descends for ever.
Founded(S, below) ==
  /\ below \in [S -> SUBSET S]
  /\ \A T \in SUBSET S : T # {} => \E x \in T : below[x] \cap T = {}

\* Value[x][f] computes the value at x from those that f has below x.
DependsBelow(S, V, below, Value) ==
  /\ Value \in [S -> [[S -> V] -> V]]
  /\ \A x \in S : \A f, g \in [S -> V] :
       (\A y \in below[x] : f[y] = g[y]) => Value[x][f] = Value[x][g]

\* f has the values of the definition at A, and A all that these depend on
Solves(S, below, Value, A, f) ==
  \A x \in A : below[x] \subseteq A /\ f[x] = Value[x][f]

\* a function with the values of the definition everywhere
Defined(S, V, Value) == \E f \in [S -> V] : \A x \in S : f[x] = Value[x][f]

\* A definition by recursion has one value at each x.
LEMMA SolutionsAgree ==
  ASSUME NEW S, NEW V, NEW below, NEW Value, Founded(S, below), DependsBelow(S, V, below, Value),
         NEW A \in SUBSET S, NEW B \in SUBSET S, NEW f \in [S -> V], NEW g \in [S -> V],
         Solves(S, below, Value, A, f), Solves(S, below, Value, B, g)
  PROVE  \A x \in A \cap B : f[x] = g[x]
<1> DEFINE T == {x \in A \cap B : f[x] # g[x]}
<1> SUFFICES ASSUME T # {}
             PROVE  FALSE
  OBVIOUS
<1>1. PICK x \in T : below[x] \cap T = {}
  <2>1. T \in SUBSET S
    OBVIOUS
  <2> QED
    BY <2>1 DEF Founded
<1>2. below[x] \subseteq A \cap B /\ f[x] = Value[x][f] /\ g[x] = Value[x][g]
  BY DEF Solves
<1>3. \A y \in below[x] : f[y] = g[y]
  BY <1>1, <1>2
<1>4. Value[x][f] = Value[x][g]
  BY <1>3 DEF DependsBelow
<1> QED
  BY <1>2, <1>4

\* A definition by recursion over a well-founded set has a solution.
LEMMA RecursionExists ==
  ASSUME NEW S, NEW V, NEW below, NEW Value, V # {}, Founded(S, below), DependsBelow(S, V, below, Value)
  PROVE  Defined(S, V, Value)
<1> DEFINE Has(x, v) == \E A \in SUBSET S, f \in [S -> V] :
                          Solves(S, below, Value, A, f) /\ x \in A /\ f[x] = v
           U == {x \in S : \E v \in V : Has(x, v)}
           F == [x \in S |-> IF x \in U THEN CHOOSE v \in V : Has(x, v) ELSE CHOOSE v \in V : TRUE]
<1>1. \A x \in U : F[x] \in V /\ Has(x, F[x])
  BY Zenon
<1>2. F \in [S -> V]
  <2>1. (CHOOSE v \in V : TRUE) \in V
    OBVIOUS
  <2>2. \A x \in S : F[x] \in V
    BY <1>1, <2>1
  <2> QED
    BY <2>2
<1>3. ASSUME NEW A \in SUBSET S, NEW f \in [S -> V], Solves(S, below, Value, A, f), NEW x \in A
      PROVE  x \in U /\ F[x] = f[x]
  <2>1. x \in S /\ f[x] \in V /\ Has(x, f[x])
    BY <1>3
  <2>2. x \in U
    BY <2>1
  <2>3. PICK B \in SUBSET S, g \in [S -> V] : Solves(S, below, Value, B, g) /\ x \in B /\ g[x] = F[x]
    BY <1>1, <2>2
  <2> HIDE DEF F
  <2>4. f[x] = g[x]
    BY <1>3, <2>3, SolutionsAgree
  <2> QED
    BY <2>2, <2>3, <2>4
<1>4. Solves(S, below, Value, U, F)
  <2> SUFFICES ASSUME NEW x \in U
               PROVE  below[x] \subseteq U /\ F[x] = Value[x][F]
    BY Zenon DEF Solves
  <2>1. PICK A \in SUBSET S, f \in [S -> V] : Solves(S, below, Value, A, f) /\ x \in A /\ f[x] = F[x]
    BY <1>1
  <2>2. below[x] \subseteq A /\ f[x] = Value[x][f]
    BY <2>1 DEF Solves
  <2>3. \A y \in A : y \in U /\ F[y] = f[y]
    BY <1>3, <2>1
  <2> HIDE DEF F, U
  <2>4. x \in S /\ \A y \in below[x] : F[y] = f[y]
    BY <2>1, <2>2, <2>3
  <2>5. Value[x][F] = Value[x][f]
    BY <1>2, <2>1, <2>4 DEF DependsBelow
  <2> QED
    BY <2>1, <2>2, <2>3, <2>5
<1>5. U = S
  <2> SUFFICES ASSUME S \ U # {}
               PROVE  FALSE
    OBVIOUS
  <2>1. PICK x \in S \ U : below[x] \cap (S \ U) = {}
    <3>1. S \ U \in SUBSET S
      OBVIOUS
    <3> HIDE DEF U
    <3> QED
      BY <3>1 DEF Founded
  <2>2. below[x] \subseteq U
    BY <2>1 DEF Founded
  <2> DEFINE A == U \cup {x}
             f == [F EXCEPT ![x] = Value[x][F]]
  <2> HIDE DEF F, U
  <2>3. Value[x][F] \in V
    BY <1>2, <2>1 DEF DependsBelow
  <2>4. f \in [S -> V] /\ f[x] = Value[x][F] /\ \A y \in U : f[y] = F[y]
    BY <1>2, <2>1, <2>3
  <2>5. A \in SUBSET S
    <3>1. U \subseteq S
      BY DEF U
    <3> QED
      BY <2>1, <3>1
  <2> HIDE DEF f
  <2>6. ASSUME NEW y \in A
        PROVE  below[y] \subseteq U /\ f[y] = Value[y][f]
    <3>1. below[y] \subseteq U /\ f[y] = Value[y][F]
      <4>1. CASE y \in U
        BY <1>4, <2>4, <4>1 DEF Solves
      <4>2. CASE y = x
        BY <2>2, <2>4, <4>2
      <4> QED
        BY <4>1, <4>2
    <3>2. Value[y][F] = Value[y][f]
      <4>1. y \in S /\ F \in [S -> V] /\ f \in [S -> V]
        BY <1>2, <2>4, <2>5
      <4>2. \A z \in below[y] : F[z] = f[z]
        BY <2>4, <3>1
      <4> QED
        BY <4>1, <4>2 DEF DependsBelow
    <3> QED
      BY <3>1, <3>2
  <2>7. Solves(S, below, Value, A, f)
    BY <2>6 DEF Solves
  <2>8. x \in U
    BY <1>3, <2>4, <2>5, <2>7
  <2> QED
    BY <2>1, <2>8
<1> HIDE DEF F, U
<1> QED
  BY <1>2, <1>4, <1>5 DEF Solves, Defined

\* v, Step[1][v], Step[2][Step[1][v]], ...: the values of n steps.
HasSteps(n, V, v, Step) ==
  \E f \in [0 .. n -> V] : f[0] = v /\ \A i \in 1 .. n : f[i] = Step[i][f[i - 1]]

LEMMA StepsExist ==
  ASSUME NEW n \in Nat, NEW V, NEW v \in V, NEW Step \in [1 .. n -> [V -> V]]
  PROVE  HasSteps(n, V, v, Step)
<1> DEFINE S     == 0 .. n
           below == [i \in S |-> IF i = 0 THEN {} ELSE {i - 1}]
           Value == [i \in S |-> [f \in [S -> V] |-> IF i = 0 THEN v ELSE Step[i][f[i - 1]]]]
<1>1. Founded(S, below)
  <2>1. below \in [S -> SUBSET S]
    OBVIOUS
  <2>2. ASSUME NEW T \in SUBSET S, T # {}
        PROVE  \E i \in T : below[i] \cap T = {}
    <3>0. T \subseteq Nat
      OBVIOUS
    <3>1. PICK i \in T : \A k \in T : i <= k
      BY <2>2, <3>0, LeastNatural, Zenon
    <3> QED
      BY <3>1
  <2> HIDE DEF below, S
  <2> QED
    BY <2>1, <2>2 DEF Founded
<1>2. DependsBelow(S, V, below, Value)
  <2>0. ASSUME NEW i \in S, NEW f \in [S -> V]
        PROVE  (IF i = 0 THEN v ELSE Step[i][f[i - 1]]) \in V
    <3>1. CASE i = 0
      BY <3>1
    <3>2. CASE i # 0
      <4>1. i - 1 \in S /\ i \in 1 .. n
        BY <3>2
      <4>2. f[i - 1] \in V /\ Step[i] \in [V -> V]
        BY <4>1
      <4>3. Step[i][f[i - 1]] \in V
        BY <4>2
      <4> QED
        BY <3>2, <4>3
    <3> QED
      BY <3>1, <3>2
  <2>1. Value \in [S -> [[S -> V] -> V]]
    BY <2>0
  <2>2. ASSUME NEW i \in S, NEW f \in [S -> V], NEW g \in [S -> V], \A k \in below[i] : f[k] = g[k]
        PROVE  Value[i][f] = Value[i][g]
    BY <2>2
  <2> HIDE DEF below, Value, S
  <2> QED
    BY <2>1, <2>2 DEF DependsBelow
<1>3. PICK f \in [S -> V] : \A i \in S : f[i] = Value[i][f]
  <2> HIDE DEF below, Value, S
  <2>1. Defined(S, V, Value)
    BY <1>1, <1>2, RecursionExists
  <2> QED
    BY <2>1 DEF Defined
<1>4. \A i \in S : f[i] = IF i = 0 THEN v ELSE Step[i][f[i - 1]]
  BY <1>3
<1> QED
  BY <1>4 DEF HasSteps

\* Two functions that start alike and take the same steps.
SameUpTo(n, f, g) == \A i \in 0 .. n : f[i] = g[i]

LEMMA StepsAgree ==
  ASSUME NEW n \in Nat, NEW f, NEW g, f[0] = g[0],
         \A i \in 1 .. n : f[i - 1] = g[i - 1] => f[i] = g[i]
  PROVE  SameUpTo(n, f, g)
<1> DEFINE T == {i \in 0 .. n : f[i] # g[i]}
<1> SUFFICES ASSUME T # {}
             PROVE  FALSE
  BY DEF SameUpTo
<1>0. T \subseteq Nat
  OBVIOUS
<1>1. PICK i \in T : \A k \in T : i <= k
  BY <1>0, LeastNatural, Zenon
<1>2. i # 0
  OBVIOUS
<1>3. i - 1 \in 0 .. n /\ i \in 1 .. n /\ f[i - 1] = g[i - 1]
  BY <1>1, <1>2
<1> QED
  BY <1>3

=============================================================================
