------------------------------- MODULE Patcher ------------------------------
(* The patches of src/ztruct/patcher.go: a patcher keeps operations, and    *)
(* ResolveMap applies them in order to the tree it was given.               *)
(*                                                                          *)
(* A tree is a function of the paths of its members, <<>> its root.  Maps   *)
(* are cloned before every change, so their values stand for themselves;    *)
(* lists are slices of scalars: an array of the heap that others may share, *)
(* a length, and the kind of the elements, which is that of their scalars   *)
(* or, in a []any, of no value.  The patches are also applied to plain      *)
(* values: this is what the operations should do, whatever is shared.       *)
(* A path is the sequence of its keys: the checks of its slashes, and the   *)
(* formats yaml and json, are left out.                                     *)
EXTENDS Integers, Sequences, FiniteSets

Seqs == INSTANCE SequencesExt

CONSTANTS
  Keys, Scalars,   \* the names of members, the values that are no map and no list
  KindOf, AnyKind, \* the Go kind of each scalar, and that of the elements of a []any
  Unset,           \* an item of an array that nobody has set
  Operations,      \* those given to the patchers, those of Then and Else among them
  Bases,           \* the trees given, with the arrays of their lists and of those of values
  MaxOps, MaxResults   \* bounds: operations given in all, trees returned

VARIABLES
  base,         \* mappedTree
  heap,         \* the arrays: 1 and 2 of the base and of a value, then more
  ops, given,   \* of the patcher; how many were given to all patchers
  todo, tree,   \* the operations still to apply, and the tree so far
  expected,     \* what the tree should be
  state,        \* "idle", "resolving", "failed"
  shallow,      \* TRUE: a map with a list in it was copied
  results       \* the trees returned, each with its value then

patcherVars == <<base, heap, ops, given, todo, tree, expected, state, shallow, results>>

\* the leaves of a tree
AMap       == [kind |-> "map"]
Nil        == [kind |-> "nil"]
Scalar(v)  == [kind |-> "scalar", value |-> v]
Slice(a, n, e) == [kind |-> "list", array |-> a, len |-> n, elem |-> e]
Elems == {KindOf[v] : v \in Scalars} \cup {AnyKind}

Leaves(h) ==
  {AMap, Nil} \cup {Scalar(v) : v \in Scalars} \cup
  UNION {{Slice(a, n, e) : n \in 0 .. Len(h[a]), e \in Elems} : a \in DOMAIN h}
Heaps == Seq(Seq(Scalars \cup {Unset}))

\* a member is in a map, which is in the tree
parentPath(path) == Seqs!Front(path)
IsTree(h, t) ==
  /\ DOMAIN t \subseteq Seq(Keys) /\ <<>> \in DOMAIN t
  /\ \A q \in DOMAIN t : /\ t[q] \in Leaves(h)
                         /\ q # <<>> => parentPath(q) \in DOMAIN t /\ t[parentPath(q)] = AMap

\* reflect.Value.Kind never answers Interface
ASSUME KindAssumption == \A v \in Scalars : KindOf[v] # AnyKind
\* a Default of the root, which would set a member without a name, is left out
ASSUME OperationsAssumption ==
  \A o \in Operations :
    /\ o.op \in {"add", "default", "remove", "replace", "move", "copy", "test"}
    /\ o.path \in Seq(Keys) /\ o.from \in Seq(Keys)
    /\ o.op = "default" => o.path # <<>>
    /\ o.op = "test" => o.then \in Seq(Operations) /\ o.else \in Seq(Operations)
ASSUME BasesAssumption ==
  \A b \in Bases :
    /\ b.heap \in Heaps /\ IsTree(b.heap, b.tree) /\ b.tree[<<>>] = AMap
    /\ \A o \in Operations : IsTree(b.heap, o.value)

-----------------------------------------------------------------------------
(* Paths.                                                                  *)

\* treeLeaf finds a path in maps; a member that is nil cannot be cast
Exists(t, path)  == path \in DOMAIN t /\ t[path].kind # "nil"
HasMap(t, path)  == path \in DOMAIN t /\ t[path].kind = "map"

Under(path, t) == {q \in DOMAIN t : Seqs!IsPrefix(path, q)}
Subtree(t, path) ==
  [q \in {SubSeq(p, Len(path) + 1, Len(p)) : p \in Under(path, t)} |-> t[path \o q]]
Without(t, path) == [q \in DOMAIN t \ Under(path, t) |-> t[q]]
\* value in place of what is at path
With(t, path, value) ==
  LET at == {path \o q : q \in DOMAIN value} IN
  [q \in (DOMAIN t \ Under(path, t)) \cup at |->
     IF q \in at THEN value[SubSeq(q, Len(path) + 1, Len(q))] ELSE t[q]]

Kind(value) == value[<<>>].kind
Leaf(l)     == [q \in {<<>>} |-> l]

-----------------------------------------------------------------------------
(* Slices: what Go does of append and of MakeSlice with Copy.               *)

Items(h, l) == SubSeq(h[l.array], 1, l.len)
Padded(items, capacity) == items \o [i \in 1 .. capacity - Len(items) |-> Unset]

\* Mutant: append after all items but the last one.
AppendOverLast(h, l, v) == [heap |-> [h EXCEPT ![l.array][l.len] = v], list |-> l]
\* in the array when it has room, for all who share it; else in one twice as long
AppendTo(h, l, v) ==
  IF l.len < Len(h[l.array])
  THEN [heap |-> [h EXCEPT ![l.array][l.len + 1] = v],
        list |-> Slice(l.array, l.len + 1, l.elem)]
  ELSE [heap |-> Append(h, Padded(Append(Items(h, l), v), 2 * l.len)),
        list |-> Slice(Len(h) + 1, l.len + 1, l.elem)]

\* cloneLeaf copies a list, and of a map the maps in it
cloneLeaf(h, value) ==
  IF Kind(value) = "list"
  THEN [heap |-> Append(h, Items(h, value[<<>>])),
        value |-> Leaf(Slice(Len(h) + 1, value[<<>>].len, value[<<>>].elem))]
  ELSE [heap |-> h, value |-> value]

-----------------------------------------------------------------------------
(* The operations, on a tree and its heap.                                 *)

Result(h, t) == [heap |-> h, tree |-> t, ok |-> TRUE]
Failure(h)   == [heap |-> h, tree |-> Leaf(AMap), ok |-> FALSE]

\* the element kind of a list is that of the value: no value is of that of a []any
Accepts(list, value) == Kind(value) = "scalar" /\ KindOf[value[<<>>].value] = list.elem

treeAdd(h, t, path, value) ==
  IF path = <<>>
  THEN IF Kind(value) = "map" THEN Result(h, value) ELSE Failure(h)
  ELSE IF Kind(value) = "nil" \/ ~HasMap(t, parentPath(path)) THEN Failure(h)
  ELSE IF Exists(t, path) /\ t[path].kind = "list"
  THEN IF ~Accepts(t[path], value) THEN Failure(h)
       ELSE LET r == AppendTo(h, t[path], value[<<>>].value)
            IN  Result(r.heap, With(t, path, Leaf(r.list)))
  ELSE Result(h, With(t, path, value))

treeDefault(h, t, path, value) ==
  IF ~HasMap(t, parentPath(path)) THEN Failure(h)
  ELSE Result(h, IF Exists(t, path) THEN t ELSE With(t, path, value))

treeRemove(h, t, path) ==
  IF path = <<>> THEN Result(h, Leaf(AMap))
  ELSE IF ~HasMap(t, parentPath(path)) THEN Failure(h)
  ELSE Result(h, Without(t, path))

treeReplace(h, t, path, value) ==
  IF ~Exists(t, path) THEN Failure(h) ELSE treeAdd(h, t, path, value)

treeCopy(h, t, from, path) ==
  IF ~Exists(t, from) THEN Failure(h)
  ELSE LET r == cloneLeaf(h, Subtree(t, from)) IN treeAdd(r.heap, t, path, r.value)

\* Mutant: the member is copied, and stays where it was.
treeMoveKeeps(h, t, from, path) == treeCopy(h, t, from, path)
treeMove(h, t, from, path) ==
  IF ~Exists(t, from) THEN Failure(h)
  ELSE LET removed == treeRemove(h, t, from)
           r       == cloneLeaf(h, Subtree(t, from))
       IN  IF ~removed.ok THEN Failure(h) ELSE treeAdd(r.heap, removed.tree, path, r.value)

\* a value without the arrays of its lists: what DeepEqual sees
PlainLeaf(h, leaf) ==
  IF leaf.kind = "list" THEN [kind |-> "list", elem |-> leaf.elem, items |-> Items(h, leaf)]
  ELSE leaf
treeTest(h, t, path, value) ==
  LET Seen(u) == [q \in DOMAIN u |-> PlainLeaf(h, u[q])] IN
  Exists(t, path) /\ Seen(Subtree(t, path)) = Seen(value)
\* and without its nil members, which no other operation tells from absent ones
Plain(h, t) == [q \in {q \in DOMAIN t : t[q].kind # "nil"} |-> PlainLeaf(h, t[q])]

Transform(h, t, o) ==
  CASE o.op = "add"     -> treeAdd(h, t, o.path, o.value)
    [] o.op = "default" -> treeDefault(h, t, o.path, o.value)
    [] o.op = "remove"  -> treeRemove(h, t, o.path)
    [] o.op = "replace" -> treeReplace(h, t, o.path, o.value)
    [] o.op = "move"    -> treeMove(h, t, o.from, o.path)
    [] o.op = "copy"    -> treeCopy(h, t, o.from, o.path)

-----------------------------------------------------------------------------
(* What they should do, on plain values: RFC 6902 with the extensions of   *)
(* the code: a scalar added to a list of its kind is appended, what is     *)
(* absent may be removed, and a nil member is absent.                      *)

ShouldAdd(t, path, value) ==
  IF path = <<>> THEN value
  ELSE IF path \in DOMAIN t /\ t[path].kind = "list"
  THEN [t EXCEPT ![path].items = Append(@, value[<<>>].value)]
  ELSE With(t, path, value)
\* nothing is left of a root but an empty map
ShouldRemove(t, path) == IF path = <<>> THEN Leaf(AMap) ELSE Without(t, path)

Should(t, o, value) ==
  CASE o.op \in {"add", "replace"} -> ShouldAdd(t, o.path, value)
    [] o.op = "default" -> IF o.path \in DOMAIN t THEN t ELSE With(t, o.path, value)
    [] o.op = "remove"  -> ShouldRemove(t, o.path)
    [] o.op = "copy"    -> ShouldAdd(t, o.path, Subtree(t, o.from))
    [] o.op = "move"    -> ShouldAdd(ShouldRemove(t, o.from), o.path, Subtree(t, o.from))

\* The value is not nil, the target's parent is a map, and what is added to a list, a
\* scalar of the kind of its elements: nothing can be added to a []any
CanAdd(t, path, value) ==
  /\ <<>> \in DOMAIN value
  /\ IF path = <<>> THEN Kind(value) = "map"
     ELSE /\ HasMap(t, parentPath(path))
          /\ path \in DOMAIN t /\ t[path].kind = "list" => Accepts(t[path], value)

Can(t, o, value) ==
  CASE o.op = "add"     -> CanAdd(t, o.path, value)
    [] o.op = "replace" -> o.path \in DOMAIN t /\ CanAdd(t, o.path, value)
    [] o.op \in {"default", "remove"} -> o.path = <<>> \/ HasMap(t, parentPath(o.path))
    [] o.op = "copy"    -> o.from \in DOMAIN t /\ CanAdd(t, o.path, Subtree(t, o.from))
    [] o.op = "move"    -> /\ o.from \in DOMAIN t
                           /\ CanAdd(ShouldRemove(t, o.from), o.path, Subtree(t, o.from))

-----------------------------------------------------------------------------
PatcherInit ==
  /\ \E b \in Bases : base = b.tree /\ heap = b.heap
  /\ ops = <<>> /\ given = 0 /\ todo = <<>>
  /\ tree = base /\ expected = Plain(heap, base)
  /\ state = "idle"
  /\ shallow = FALSE
  /\ results = <<>>

\* Add, Default, Remove, ... Test with Then and Else
AddOperation ==
  /\ state = "idle" /\ given < MaxOps
  /\ given' = given + 1
  /\ \E o \in Operations : ops' = Append(ops, o)
  /\ UNCHANGED <<base, heap, todo, tree, expected, state, shallow, results>>

\* PatcherMap on the same map
NewPatcher ==
  /\ state \in {"idle", "failed"} /\ results # <<>> /\ Len(results) < MaxResults
  /\ ops' = <<>> /\ state' = "idle"
  /\ UNCHANGED <<base, heap, given, todo, tree, expected, shallow, results>>

ResolveMap ==
  /\ state = "idle" /\ ops # <<>> /\ Len(results) < MaxResults
  /\ todo' = ops /\ tree' = base
  /\ expected' = Plain(heap, base)
  /\ state' = "resolving"
  /\ UNCHANGED <<base, heap, ops, given, shallow, results>>

ListsIn(t) == {q \in DOMAIN t \ {<<>>} : t[q].kind = "list"}

Apply ==
  /\ state = "resolving" /\ todo # <<>> /\ Head(todo).op # "test"
  /\ LET o == Head(todo)
         r == Transform(heap, tree, o)
     IN  /\ heap' = r.heap /\ tree' = r.tree
         /\ expected' = IF r.ok THEN Should(expected, o, Plain(heap, o.value)) ELSE expected
         /\ state' = IF r.ok THEN state ELSE "failed"
         /\ shallow' = (shallow \/ (o.op = "copy" /\ r.ok /\ ListsIn(Subtree(tree, o.from)) # {}))
  /\ todo' = Tail(todo)
  /\ UNCHANGED <<base, ops, given, results>>

\* testOp: its error is lost in that of the operations of Then or Else
Test ==
  /\ state = "resolving" /\ todo # <<>> /\ Head(todo).op = "test"
  /\ LET o == Head(todo)
         passes == treeTest(heap, tree, o.path, o.value)
         chosen == IF passes THEN o.then ELSE o.else
     IN  /\ todo' = chosen \o Tail(todo)
         /\ state' = IF passes \/ chosen # <<>> \/ o.swallowError THEN state ELSE "failed"
  /\ UNCHANGED <<base, heap, ops, given, tree, expected, shallow, results>>

Return ==
  /\ state = "resolving" /\ todo = <<>>
  /\ results' = Append(results, [tree |-> tree, value |-> Plain(heap, tree)])
  /\ state' = "idle"
  /\ UNCHANGED <<base, heap, ops, given, todo, tree, expected, shallow>>

PatcherNext == AddOperation \/ NewPatcher \/ ResolveMap \/ Apply \/ Test \/ Return

PatcherSpec == PatcherInit /\ [][PatcherNext]_patcherVars

-----------------------------------------------------------------------------
(* Properties.                                                             *)

ListsOf(t)   == {q \in DOMAIN t : t[q].kind = "list"}
HasRoom(leaf) == leaf.len < Len(heap[leaf.array])

\* append finds no room in a list of a value; nor in one of the tree that was given
TightValues == \A o \in Operations : \A q \in ListsOf(o.value) : ~HasRoom(o.value[q])
Tight == TightValues /\ \A q \in ListsOf(base) : ~HasRoom(base[q])

\* a list of the given tree that has room has its array for itself
OwnArrays ==
  \A q \in ListsOf(base) : HasRoom(base[q]) =>
    /\ \A p \in ListsOf(base) : p # q => base[p].array # base[q].array
    /\ \A o \in Operations : \A p \in ListsOf(o.value) : o.value[p].array # base[q].array

\* A patch does what it says, and nothing else changes: no other member, not even
\* through a list that two members share, as long as no map with lists was copied
\* (cloneLeaf: "FIXME: should clone leaf") and no list given with room was given
\* twice.  It fails only if it must.
MatchesReference ==
  ~shallow /\ TightValues /\ OwnArrays =>
    /\ state = "resolving" => Plain(heap, tree) = expected
    /\ state = "resolving" /\ todo # <<>> /\ Head(todo).op # "test" =>
         (Transform(heap, tree, Head(todo)).ok
            <=> Can(expected, Head(todo), Plain(heap, Head(todo).value)))

\* A tree that was returned stays as it was, and so does the one that was given,
\* whatever other patches are made of the same tree: true if append finds no room
\* in the lists of that tree, and of the values.
ResultsStay ==
  Tight => \A i \in DOMAIN results : Plain(heap, results[i].tree) = results[i].value
=============================================================================
