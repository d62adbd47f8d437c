----------------------------- MODULE Data_proofs -----------------------------
(***************************************************************************)
(* Theorems about the data structures and the streams: Patcher, for all    *)
(* operations and all trees, RingQueue, for every set of values and every  *)
(* length, and LineStreams, for all texts, chains of processers and        *)
(* writers.                                                                *)
(*                                                                         *)
(* The patches are proved in three parts.  The paths and the trees, with   *)
(* what each operation does to their members.  TreeStep: an array that an  *)
(* operation changes was one of a list with room, and what has room        *)
(* afterwards had it before, so that the trees returned stay as they were. *)
(* Private: a list with room shares its array with no other, so that an    *)
(* operation on the tree is the same operation on its plain value.         *)
(*                                                                         *)
(* So are the streams.  Split: a text is split into lines in one way, and  *)
(* what was left of it before a chunk is split with the chunk.  WriteInv:  *)
(* each line of the input is at one place, which is the nested writer, a   *)
(* writer on its way through the processers, or a buffer. ReadInv: what is *)
(* delivered are the first lines of what was read.                         *)
(***************************************************************************)
EXTENDS RingQueue, Patcher, LineStreams, Recursion, SequenceTheorems, FiniteSetTheorems, TLAPS

-----------------------------------------------------------------------------
(* Paths.                                                                  *)

Path == Seq(Keys)

\* The first keys of a path.
LEMMA CutFacts ==
  ASSUME NEW r \in Path, NEW n \in 0 .. Len(r)
  PROVE  /\ SubSeq(r, 1, n) \in Path
         /\ Len(SubSeq(r, 1, n)) = n
         /\ \A i \in 1 .. n : SubSeq(r, 1, n)[i] = r[i]
<1>1. Len(r) \in Nat /\ n \in Nat /\ n <= Len(r)
  BY LenProperties DEF Path
<1> QED
  BY <1>1, SMT DEF Path

\* A prefix, key by key.
LEMMA PrefixFacts ==
  ASSUME NEW p \in Path, NEW r \in Path
  PROVE  Seqs!IsPrefix(p, r) <=>
           Len(p) <= Len(r) /\ \A i \in 1 .. Len(p) : p[i] = r[i]
<1>0. Len(p) \in Nat /\ Len(r) \in Nat
  BY LenProperties DEF Path
<1>1. /\ SubSeq(p, 1, Len(p)) \in Path
      /\ Len(SubSeq(p, 1, Len(p))) = Len(p)
      /\ \A i \in 1 .. Len(p) : SubSeq(p, 1, Len(p))[i] = p[i]
  BY <1>0, CutFacts
<1>2. ASSUME Len(p) <= Len(r)
      PROVE  /\ SubSeq(r, 1, Len(p)) \in Path
             /\ Len(SubSeq(r, 1, Len(p))) = Len(p)
             /\ \A i \in 1 .. Len(p) : SubSeq(r, 1, Len(p))[i] = r[i]
  <2>1. Len(p) \in 0 .. Len(r)
    BY <1>0, <1>2
  <2> QED
    BY <2>1, CutFacts
<1>3. ASSUME Len(p) <= Len(r), \A i \in 1 .. Len(p) : p[i] = r[i]
      PROVE  SubSeq(p, 1, Len(p)) = SubSeq(r, 1, Len(p))
  BY <1>0, <1>1, <1>2, <1>3, SeqEqual DEF Path
<1> QED
  BY <1>1, <1>2, <1>3 DEF Seqs!IsPrefix

\* The parent of a member of a subtree.
LEMMA ParentFacts ==
  ASSUME NEW r \in Path, r # <<>>
  PROVE  /\ parentPath(r) \in Path
         /\ Len(r) \in Nat \ {0}
         /\ Len(parentPath(r)) = Len(r) - 1
         /\ \A i \in 1 .. Len(r) - 1 : parentPath(r)[i] = r[i]
<1>1. Len(r) \in Nat \ {0}
  BY EmptySeq, LenProperties DEF Path
<1>2. parentPath(r) = SubSeq(r, 1, Len(r) - 1)
  BY DEF parentPath, Seqs!Front
<1> DEFINE n == Len(r) - 1
<1>3. n \in 0 .. Len(r)
  BY <1>1
<1> HIDE DEF n
<1>4. /\ SubSeq(r, 1, n) \in Path
      /\ Len(SubSeq(r, 1, n)) = n
      /\ \A i \in 1 .. n : SubSeq(r, 1, n)[i] = r[i]
  BY <1>3, CutFacts
<1> QED
  BY <1>1, <1>2, <1>4 DEF n

\* What is in a subtree, and what its path is there.
LEMMA UnderFacts ==
  ASSUME NEW p \in Path, NEW r \in Path
  PROVE  /\ p \o r \in Path
         /\ Seqs!IsPrefix(p, p \o r)
         /\ SubSeq(p \o r, Len(p) + 1, Len(p \o r)) = r
         /\ r # <<>> => p \o r # <<>> /\ parentPath(p \o r) = p \o parentPath(r)
         /\ p \o <<>> = p
<1>0. Len(p) \in Nat /\ Len(r) \in Nat
  BY LenProperties DEF Path
<1>1. /\ p \o r \in Path /\ Len(p \o r) = Len(p) + Len(r)
      /\ \A i \in 1 .. Len(p) + Len(r) :
           (p \o r)[i] = IF i <= Len(p) THEN p[i] ELSE r[i - Len(p)]
  BY ConcatProperties DEF Path
<1>2. Seqs!IsPrefix(p, p \o r)
  <2>1. Len(p) <= Len(p \o r)
    BY <1>0, <1>1
  <2>2. \A i \in 1 .. Len(p) : p[i] = (p \o r)[i]
    BY <1>0, <1>1
  <2> QED
    BY <1>1, <2>1, <2>2, PrefixFacts, Zenon
<1>3. SubSeq(p \o r, Len(p) + 1, Len(p \o r)) = r
  <2>1. /\ SubSeq(p \o r, Len(p) + 1, Len(p \o r)) \in Path
        /\ Len(SubSeq(p \o r, Len(p) + 1, Len(p \o r))) = Len(r)
        /\ \A i \in 1 .. Len(r) :
             SubSeq(p \o r, Len(p) + 1, Len(p \o r))[i] = (p \o r)[Len(p) + i]
    BY <1>0, <1>1, SMT DEF Path
  <2>2. \A i \in 1 .. Len(r) : (p \o r)[Len(p) + i] = r[i]
    BY <1>0, <1>1
  <2> QED
    BY <1>0, <2>1, <2>2, SeqEqual DEF Path
<1>4. ASSUME r # <<>>
      PROVE  p \o r # <<>> /\ parentPath(p \o r) = p \o parentPath(r)
  <2>1. p \o r # <<>>
    BY <1>0, <1>1, <1>4, ParentFacts, EmptySeq
  <2>2. /\ parentPath(p \o r) \in Path
        /\ Len(parentPath(p \o r)) = Len(p) + Len(r) - 1
        /\ \A i \in 1 .. Len(p) + Len(r) - 1 : parentPath(p \o r)[i] = (p \o r)[i]
    <3> DEFINE s == p \o r
    <3>1. s \in Path /\ s # <<>> /\ Len(s) = Len(p) + Len(r)
      BY <1>1, <2>1
    <3> HIDE DEF s
    <3>2. /\ parentPath(s) \in Path
          /\ Len(parentPath(s)) = Len(s) - 1
          /\ \A i \in 1 .. Len(s) - 1 : parentPath(s)[i] = s[i]
      BY <3>1, ParentFacts, Zenon
    <3>3. /\ parentPath(s) \in Path
          /\ Len(parentPath(s)) = Len(p) + Len(r) - 1
          /\ \A i \in 1 .. Len(p) + Len(r) - 1 : parentPath(s)[i] = s[i]
      BY <3>1, <3>2
    <3> QED
      BY <3>3, Zenon DEF s
  <2>3. /\ parentPath(r) \in Path /\ Len(parentPath(r)) = Len(r) - 1
        /\ \A i \in 1 .. Len(r) - 1 : parentPath(r)[i] = r[i]
    BY <1>4, ParentFacts
  <2>4. /\ p \o parentPath(r) \in Path
        /\ Len(p \o parentPath(r)) = Len(p) + Len(parentPath(r))
        /\ \A i \in 1 .. Len(p) + Len(parentPath(r)) :
             (p \o parentPath(r))[i] =
               IF i <= Len(p) THEN p[i] ELSE parentPath(r)[i - Len(p)]
    BY <2>3, ConcatProperties, Zenon DEF Path
  <2>5. \A i \in 1 .. Len(p) + Len(r) - 1 : (p \o parentPath(r))[i] = (p \o r)[i]
    BY <1>0, <1>1, <2>3, <2>4
  <2> QED
    BY <1>0, <2>1, <2>2, <2>3, <2>4, <2>5, SeqEqual, Zenon DEF Path
<1>5. p \o <<>> = p
  BY ConcatEmptySeq DEF Path
<1> QED
  BY <1>1, <1>2, <1>3, <1>4, <1>5

\* A path with a prefix is that prefix and a rest.
LEMMA RestFacts ==
  ASSUME NEW p \in Path, NEW r \in Path, Seqs!IsPrefix(p, r)
  PROVE  /\ SubSeq(r, Len(p) + 1, Len(r)) \in Path
         /\ p \o SubSeq(r, Len(p) + 1, Len(r)) = r
<1> DEFINE s == SubSeq(r, Len(p) + 1, Len(r))
<1>0. Len(p) \in Nat /\ Len(r) \in Nat
  BY LenProperties DEF Path
<1>1. Len(p) <= Len(r) /\ \A i \in 1 .. Len(p) : p[i] = r[i]
  BY PrefixFacts
<1>2. /\ s \in Path /\ Len(s) = Len(r) - Len(p)
      /\ \A i \in 1 .. Len(r) - Len(p) : s[i] = r[Len(p) + i]
  BY <1>0, <1>1, SMT DEF Path
<1> HIDE DEF s
<1>3. /\ p \o s \in Path /\ Len(p \o s) = Len(p) + Len(s)
      /\ \A i \in 1 .. Len(p) + Len(s) :
           (p \o s)[i] = IF i <= Len(p) THEN p[i] ELSE s[i - Len(p)]
  BY <1>2, ConcatProperties DEF Path
<1>4. ASSUME NEW i \in 1 .. Len(r)
      PROVE  (p \o s)[i] = r[i]
  <2>1. CASE i <= Len(p)
    BY <1>0, <1>1, <1>2, <1>3, <2>1
  <2>2. CASE ~(i <= Len(p))
    <3>1. i - Len(p) \in 1 .. Len(r) - Len(p) /\ Len(p) + (i - Len(p)) = i
      BY <1>0, <2>2
    <3>2. s[i - Len(p)] = r[i]
      BY <1>2, <3>1
    <3> QED
      BY <1>0, <1>2, <1>3, <2>2, <3>2
  <2> QED
    BY <2>1, <2>2, Zenon
<1>4a. Len(p \o s) = Len(r)
  BY <1>0, <1>2, <1>3
<1>5. p \o s = r
  BY <1>3, <1>4, <1>4a, SeqEqual, Zenon DEF Path
<1> QED
  BY <1>2, <1>5 DEF s

\* A path is not under its own members, nor the root under any.
LEMMA NotUnder ==
  ASSUME NEW p \in Path, p # <<>>
  PROVE  /\ ~Seqs!IsPrefix(p, <<>>)
         /\ ~Seqs!IsPrefix(p, parentPath(p))
         /\ \A r \in Path : r # <<>> /\ Seqs!IsPrefix(p, parentPath(r)) => Seqs!IsPrefix(p, r)
<1>1. Len(p) \in Nat \ {0} /\ parentPath(p) \in Path /\ Len(parentPath(p)) = Len(p) - 1
  BY ParentFacts
<1>2. <<>> \in Path /\ Len(<<>>) = 0
  BY EmptySeq DEF Path
<1>3. ~Seqs!IsPrefix(p, <<>>)
  BY <1>1, <1>2, PrefixFacts
<1>4. ~Seqs!IsPrefix(p, parentPath(p))
  BY <1>1, PrefixFacts
<1>5. ASSUME NEW r \in Path, r # <<>>, Seqs!IsPrefix(p, parentPath(r))
      PROVE  Seqs!IsPrefix(p, r)
  <2>1. /\ parentPath(r) \in Path /\ Len(r) \in Nat \ {0}
        /\ Len(parentPath(r)) = Len(r) - 1
        /\ \A i \in 1 .. Len(r) - 1 : parentPath(r)[i] = r[i]
    BY <1>5, ParentFacts
  <2>2. Len(p) <= Len(r) - 1 /\ \A i \in 1 .. Len(p) : p[i] = parentPath(r)[i]
    BY <1>5, <2>1, PrefixFacts
  <2>3. Len(p) <= Len(r) /\ \A i \in 1 .. Len(p) : p[i] = r[i]
    BY <1>1, <2>1, <2>2
  <2> QED
    BY <2>3, PrefixFacts
<1> QED
  BY <1>3, <1>4, <1>5

-----------------------------------------------------------------------------
(* Heaps and leaves.                                                       *)

\* What the kind of a leaf says of it.
LEMMA LeafFacts ==
  ASSUME NEW h, NEW l \in Leaves(h)
  PROVE  /\ l.kind \in {"map", "nil", "scalar", "list"}
         /\ l.kind = "map" <=> l = AMap
         /\ l.kind = "nil" <=> l = Nil
         /\ l.kind = "scalar" => l.value \in Scalars /\ l = Scalar(l.value)
         /\ l.kind = "list" => /\ l.array \in DOMAIN h /\ l.len \in 0 .. Len(h[l.array])
                               /\ l.elem \in Elems /\ l = Slice(l.array, l.len, l.elem)
<1>1. CASE l = AMap
  BY <1>1 DEF AMap, Nil
<1>2. CASE l = Nil
  BY <1>2 DEF AMap, Nil
<1>3. CASE \E v \in Scalars : l = Scalar(v)
  BY <1>3 DEF AMap, Nil, Scalar
<1>4. CASE \E a \in DOMAIN h : \E n \in 0 .. Len(h[a]), e \in Elems : l = Slice(a, n, e)
  BY <1>4 DEF AMap, Nil, Slice
<1>5. \/ l \in {AMap, Nil} \/ l \in {Scalar(v) : v \in Scalars}
      \/ l \in UNION {{Slice(a, n, e) : n \in 0 .. Len(h[a]), e \in Elems} : a \in DOMAIN h}
  BY SMT DEF Leaves
<1>6. l \in UNION {{Slice(a, n, e) : n \in 0 .. Len(h[a]), e \in Elems} : a \in DOMAIN h}
        => \E a \in DOMAIN h : \E n \in 0 .. Len(h[a]), e \in Elems : l = Slice(a, n, e)
  BY SMT
<1> QED
  BY <1>1, <1>2, <1>3, <1>4, <1>5, <1>6

\* A slice of an array is a leaf.
LEMMA SliceIsLeaf ==
  ASSUME NEW h, NEW a \in DOMAIN h, NEW n \in 0 .. Len(h[a]), NEW e \in Elems
  PROVE  Slice(a, n, e) \in Leaves(h)
<1>1. Slice(a, n, e) \in {Slice(a, k, d) : k \in 0 .. Len(h[a]), d \in Elems}
  OBVIOUS
<1>2. {Slice(a, k, d) : k \in 0 .. Len(h[a]), d \in Elems}
        \in {{Slice(b, k, d) : k \in 0 .. Len(h[b]), d \in Elems} : b \in DOMAIN h}
  OBVIOUS
<1> QED
  BY <1>1, <1>2, SMT DEF Leaves

\* The other leaves.
LEMMA PlainLeaves ==
  ASSUME NEW h
  PROVE  /\ AMap \in Leaves(h) /\ Nil \in Leaves(h)
         /\ \A v \in Scalars : Scalar(v) \in Leaves(h)
BY SMT DEF Leaves

\* No array is lost, nor does its length change.
Kept(h, g) ==
  /\ DOMAIN h \subseteq DOMAIN g
  /\ \A a \in DOMAIN h : Len(g[a]) = Len(h[a])

LEMMA KeptLeaves ==
  ASSUME NEW h, NEW g, Kept(h, g)
  PROVE  Leaves(h) \subseteq Leaves(g)
<1> SUFFICES ASSUME NEW l \in Leaves(h) PROVE l \in Leaves(g)
  OBVIOUS
<1>1. CASE l.kind = "map" \/ l.kind = "nil" \/ l.kind = "scalar"
  BY <1>1, LeafFacts, PlainLeaves
<1>2. CASE l.kind = "list"
  <2>1. /\ l.array \in DOMAIN h /\ l.len \in 0 .. Len(h[l.array])
        /\ l.elem \in Elems /\ l = Slice(l.array, l.len, l.elem)
    BY <1>2, LeafFacts
  <2>2. l.array \in DOMAIN g /\ l.len \in 0 .. Len(g[l.array])
    BY <2>1 DEF Kept
  <2>3. Slice(l.array, l.len, l.elem) \in Leaves(g)
    BY <2>1, <2>2, SliceIsLeaf
  <2> QED
    BY <2>1, <2>3
<1> QED
  BY <1>1, <1>2, LeafFacts

\* A tree stays a tree.
LEMMA KeptTree ==
  ASSUME NEW h, NEW g, Kept(h, g), NEW t, IsTree(h, t)
  PROVE  IsTree(g, t)
BY KeptLeaves DEF IsTree

-----------------------------------------------------------------------------
(* Trees.                                                                  *)

LEMMA LeafTree ==
  ASSUME NEW h, NEW l \in Leaves(h)
  PROVE  IsTree(h, Leaf(l)) /\ DOMAIN Leaf(l) = {<<>>} /\ Leaf(l)[<<>>] = l
BY EmptySeq DEF IsTree, Leaf

\* The members of a subtree.
LEMMA SubtreeDomain ==
  ASSUME NEW t, DOMAIN t \subseteq Path, NEW path \in Path
  PROVE  /\ \A r : r \in DOMAIN Subtree(t, path) <=> r \in Path /\ path \o r \in DOMAIN t
         /\ \A r \in DOMAIN Subtree(t, path) : Subtree(t, path)[r] = t[path \o r]
<1> DEFINE s == Subtree(t, path)
<1>1. DOMAIN s = {SubSeq(p, Len(path) + 1, Len(p)) : p \in Under(path, t)}
  BY DEF Subtree
<1>2. \A r \in DOMAIN s : s[r] = t[path \o r]
  BY DEF Subtree
<1> HIDE DEF s
<1>3. ASSUME NEW r \in DOMAIN s
      PROVE  r \in Path /\ path \o r \in DOMAIN t
  <2>1. PICK p \in DOMAIN t : Seqs!IsPrefix(path, p) /\ r = SubSeq(p, Len(path) + 1, Len(p))
    BY <1>1, <1>3 DEF Under
  <2>2. p \in Path
    BY <2>1
  <2> QED
    BY <2>1, <2>2, RestFacts, Zenon
<1>4. ASSUME NEW r \in Path, path \o r \in DOMAIN t
      PROVE  r \in DOMAIN s
  <2>1. path \o r \in Under(path, t)
    BY <1>4, UnderFacts DEF Under
  <2>2. r = SubSeq(path \o r, Len(path) + 1, Len(path \o r))
    BY <1>4, UnderFacts
  <2> QED
    BY <1>1, <2>1, <2>2, Zenon
<1> QED
  BY <1>2, <1>3, <1>4 DEF s

\* What is under a member of a tree is a tree, with the same leaves.
LEMMA SubtreeFacts ==
  ASSUME NEW h, NEW t, IsTree(h, t), NEW path \in DOMAIN t
  PROVE  /\ IsTree(h, Subtree(t, path))
         /\ \A r \in DOMAIN Subtree(t, path) :
              path \o r \in DOMAIN t /\ Subtree(t, path)[r] = t[path \o r]
         /\ Subtree(t, path)[<<>>] = t[path]
<1> DEFINE s == Subtree(t, path)
<1>1. DOMAIN t \subseteq Path /\ path \in Path /\ <<>> \in Path
  BY EmptySeq DEF IsTree, Path
<1>2. /\ \A r : r \in DOMAIN s <=> r \in Path /\ path \o r \in DOMAIN t
      /\ \A r \in DOMAIN s : s[r] = t[path \o r]
  BY <1>1, SubtreeDomain
<1> HIDE DEF s
<1>3. path \o <<>> = path
  BY <1>1, UnderFacts
<1>4. <<>> \in DOMAIN s /\ s[<<>>] = t[path]
  BY <1>1, <1>2, <1>3, Zenon
<1>5. ASSUME NEW r \in DOMAIN s, r # <<>>
      PROVE  parentPath(r) \in DOMAIN s /\ s[parentPath(r)] = AMap
  <2>1. r \in Path /\ path \o r \in DOMAIN t /\ parentPath(r) \in Path
    BY <1>2, <1>5, ParentFacts
  <2>2. path \o r # <<>> /\ parentPath(path \o r) = path \o parentPath(r)
    BY <1>1, <1>5, <2>1, UnderFacts, Zenon
  <2>3. path \o parentPath(r) \in DOMAIN t /\ t[path \o parentPath(r)] = AMap
    BY <2>1, <2>2, Zenon DEF IsTree
  <2> QED
    BY <1>2, <2>1, <2>3
<1>6. IsTree(h, s)
  BY <1>1, <1>2, <1>4, <1>5 DEF IsTree, Path
<1> QED
  BY <1>2, <1>4, <1>6 DEF s

\* A member with what is in it is removed: the others stay.
LEMMA WithoutFacts ==
  ASSUME NEW h, NEW t, IsTree(h, t), NEW path \in Path, path # <<>>
  PROVE  /\ IsTree(h, Without(t, path))
         /\ DOMAIN Without(t, path) \subseteq DOMAIN t
         /\ \A r \in DOMAIN Without(t, path) : Without(t, path)[r] = t[r]
<1> DEFINE s == Without(t, path)
<1>1. DOMAIN t \subseteq Path /\ <<>> \in DOMAIN t
  BY DEF IsTree, Path
<1>2. DOMAIN s = {r \in DOMAIN t : ~Seqs!IsPrefix(path, r)} /\ \A r \in DOMAIN s : s[r] = t[r]
  BY DEF Without, Under
<1> HIDE DEF s
<1>3. <<>> \in DOMAIN s
  BY <1>1, <1>2, NotUnder
<1>4. ASSUME NEW r \in DOMAIN s, r # <<>>
      PROVE  parentPath(r) \in DOMAIN s /\ s[parentPath(r)] = AMap
  <2>1. r \in Path /\ r \in DOMAIN t /\ ~Seqs!IsPrefix(path, r)
    BY <1>1, <1>2, <1>4
  <2>2. parentPath(r) \in DOMAIN t /\ t[parentPath(r)] = AMap
    BY <1>4, <2>1 DEF IsTree
  <2>3. ~Seqs!IsPrefix(path, parentPath(r))
    BY <1>4, <2>1, NotUnder
  <2> QED
    BY <1>2, <2>2, <2>3
<1>5. IsTree(h, s)
  BY <1>1, <1>2, <1>3, <1>4 DEF IsTree
<1> QED
  BY <1>2, <1>5 DEF s

\* The tree s is the tree t with the value v in place of what was at the path.
PutInto(s, t, path, v) ==
  /\ \A r \in DOMAIN t : ~Seqs!IsPrefix(path, r) => r \in DOMAIN s /\ s[r] = t[r]
  /\ \A e \in DOMAIN v : path \o e \in DOMAIN s /\ s[path \o e] = v[e]
  /\ \A r \in DOMAIN s : \/ r \in DOMAIN t /\ ~Seqs!IsPrefix(path, r)
                         \/ \E e \in DOMAIN v : r = path \o e

LEMMA WithDomain ==
  ASSUME NEW t, DOMAIN t \subseteq Path, NEW v, DOMAIN v \subseteq Path, NEW path \in Path
  PROVE  PutInto(With(t, path, v), t, path, v)
<1> DEFINE s == With(t, path, v)
           Put == {path \o e : e \in DOMAIN v}
<1>2. DOMAIN s = {r \in DOMAIN t : ~Seqs!IsPrefix(path, r)} \cup Put
  BY DEF With, Under
<1>3. ASSUME NEW e \in DOMAIN v
      PROVE  path \o e \in DOMAIN s /\ s[path \o e] = v[e]
  <2>1. e \in Path
    OBVIOUS
  <2>2. SubSeq(path \o e, Len(path) + 1, Len(path \o e)) = e
    BY <2>1, UnderFacts
  <2>3. path \o e \in Put
    OBVIOUS
  <2>4. s[path \o e] = v[SubSeq(path \o e, Len(path) + 1, Len(path \o e))]
    BY <1>2, <2>3, Zenon DEF With
  <2> QED
    BY <1>2, <2>2, <2>3, <2>4, Zenon
<1>4. ASSUME NEW r \in DOMAIN t, ~Seqs!IsPrefix(path, r)
      PROVE  r \in DOMAIN s /\ s[r] = t[r]
  <2>1. r \notin Put
    <3>1. \A e \in DOMAIN v : Seqs!IsPrefix(path, path \o e)
      BY UnderFacts
    <3> QED
      BY <1>4, <3>1, Zenon
  <2>2. r \in DOMAIN s
    BY <1>2, <1>4
  <2> QED
    BY <2>1, <2>2 DEF With, Under
<1>5. ASSUME NEW r \in DOMAIN s
      PROVE  \/ r \in DOMAIN t /\ ~Seqs!IsPrefix(path, r)
             \/ \E e \in DOMAIN v : r = path \o e
  BY <1>2
<1> HIDE DEF s
<1>6. PutInto(s, t, path, v)
  BY <1>3, <1>4, <1>5, Zenon DEF PutInto
<1> QED
  BY <1>6 DEF s

\* A value is put into a map of the tree: each leaf is one of the tree or of the value.
LEMMA WithFacts ==
  ASSUME NEW h, NEW t, IsTree(h, t), NEW v, IsTree(h, v),
         NEW path \in Path, path # <<>>, HasMap(t, parentPath(path))
  PROVE  /\ IsTree(h, With(t, path, v))
         /\ \A r \in DOMAIN With(t, path, v) :
              \/ r \in DOMAIN t /\ With(t, path, v)[r] = t[r]
              \/ \E e \in DOMAIN v : With(t, path, v)[r] = v[e]
<1> DEFINE s == With(t, path, v)
<1>1. DOMAIN t \subseteq Path /\ <<>> \in DOMAIN t /\ DOMAIN v \subseteq Path /\ <<>> \in DOMAIN v
  BY DEF IsTree, Path
<1>2. PutInto(s, t, path, v)
  BY <1>1, WithDomain
<1>3. /\ \A r \in DOMAIN t : ~Seqs!IsPrefix(path, r) => r \in DOMAIN s /\ s[r] = t[r]
      /\ \A e \in DOMAIN v : path \o e \in DOMAIN s /\ s[path \o e] = v[e]
      /\ \A r \in DOMAIN s : \/ r \in DOMAIN t /\ ~Seqs!IsPrefix(path, r)
                             \/ \E e \in DOMAIN v : r = path \o e
  BY <1>2 DEF PutInto
<1>5. ASSUME NEW r \in DOMAIN s
      PROVE  \/ r \in DOMAIN t /\ ~Seqs!IsPrefix(path, r) /\ s[r] = t[r]
             \/ \E e \in DOMAIN v : r = path \o e /\ s[r] = v[e]
  BY <1>3, Zenon
<1> HIDE DEF s
<1>6. <<>> \in DOMAIN s
  BY <1>1, <1>3, NotUnder
<1>7. ASSUME NEW r \in DOMAIN s, r # <<>>
      PROVE  parentPath(r) \in DOMAIN s /\ s[parentPath(r)] = AMap
  <2>1. CASE r \in DOMAIN t /\ ~Seqs!IsPrefix(path, r)
    <3>1. parentPath(r) \in DOMAIN t /\ t[parentPath(r)] = AMap
      BY <1>7, <2>1 DEF IsTree
    <3>2. ~Seqs!IsPrefix(path, parentPath(r))
      BY <1>1, <1>7, <2>1, NotUnder
    <3> QED
      BY <1>3, <3>1, <3>2
  <2>2. ASSUME NEW e \in DOMAIN v, r = path \o e, e # <<>>
        PROVE  parentPath(r) \in DOMAIN s /\ s[parentPath(r)] = AMap
    <3>1. parentPath(r) = path \o parentPath(e)
      BY <1>1, <2>2, UnderFacts, Zenon
    <3>2. parentPath(e) \in DOMAIN v /\ v[parentPath(e)] = AMap
      BY <2>2 DEF IsTree
    <3> QED
      BY <1>3, <3>1, <3>2
  <2>3. CASE r = path \o <<>>
    <3>1. r = path
      BY <1>1, <2>3, UnderFacts
    <3>2. parentPath(path) \in DOMAIN t /\ t[parentPath(path)] = AMap
      BY LeafFacts DEF HasMap, IsTree
    <3>3. ~Seqs!IsPrefix(path, parentPath(path))
      BY NotUnder
    <3> QED
      BY <1>3, <3>1, <3>2, <3>3
  <2> QED
    BY <1>5, <2>1, <2>2, <2>3, Zenon
<1>8. DOMAIN s \subseteq Seq(Keys)
  <2>1. \A e \in DOMAIN v : path \o e \in Path
    BY <1>1, UnderFacts
  <2> QED
    BY <1>1, <1>5, <2>1, Zenon DEF Path
<1>9. \A r \in DOMAIN s : s[r] \in Leaves(h)
  BY <1>5 DEF IsTree
<1>10. IsTree(h, s)
  BY <1>6, <1>7, <1>8, <1>9 DEF IsTree
<1>11. \A r \in DOMAIN s :
         (r \in DOMAIN t /\ s[r] = t[r]) \/ \E e \in DOMAIN v : s[r] = v[e]
  BY <1>5
<1> QED
  BY <1>10, <1>11 DEF s

-----------------------------------------------------------------------------
(* Arrays with room.                                                       *)

\* A list of the tree has room in the array a.
Roomy(h, t, a) ==
  \E p \in DOMAIN t : t[p].kind = "list" /\ t[p].array = a /\ t[p].len < Len(h[a])

\* From the tree t to u, with a value v: an array that changes was one of t with
\* room, and what has room in u had it before in t or in v.
TreeStep(h, t, v, g, u) ==
  /\ g \in Heaps /\ Kept(h, g) /\ IsTree(g, u)
  /\ \A a \in DOMAIN h : g[a] # h[a] => Roomy(h, t, a)
  /\ \A a \in DOMAIN h : Roomy(g, u, a) => Roomy(h, t, a) \/ Roomy(h, v, a)

LEMMA HeapFacts ==
  ASSUME NEW h \in Heaps
  PROVE  /\ Len(h) \in Nat /\ DOMAIN h = 1 .. Len(h)
         /\ \A a \in DOMAIN h : /\ h[a] \in Seq(Scalars \cup {Unset})
                                /\ Len(h[a]) \in Nat /\ DOMAIN h[a] = 1 .. Len(h[a])
<1>1. Len(h) \in Nat /\ DOMAIN h = 1 .. Len(h)
  BY LenProperties DEF Heaps
<1>2. \A a \in DOMAIN h : h[a] \in Seq(Scalars \cup {Unset})
  BY <1>1, ElementOfSeq DEF Heaps
<1> QED
  BY <1>1, <1>2, LenProperties

\* A heap with one array more.
LEMMA NewArray ==
  ASSUME NEW h \in Heaps, NEW s \in Seq(Scalars \cup {Unset})
  PROVE  /\ Append(h, s) \in Heaps /\ Kept(h, Append(h, s))
         /\ Len(h) + 1 \in DOMAIN Append(h, s) /\ Len(h) + 1 \notin DOMAIN h
         /\ Append(h, s)[Len(h) + 1] = s
         /\ \A a \in DOMAIN h : Append(h, s)[a] = h[a]
<1>1. Len(h) \in Nat /\ DOMAIN h = 1 .. Len(h)
  BY HeapFacts
<1>2. /\ Append(h, s) \in Heaps /\ Len(Append(h, s)) = Len(h) + 1
      /\ \A a \in 1 .. Len(h) : Append(h, s)[a] = h[a]
      /\ Append(h, s)[Len(h) + 1] = s
  BY AppendProperties DEF Heaps
<1>3. DOMAIN Append(h, s) = 1 .. Len(h) + 1
  BY <1>1, <1>2, HeapFacts
<1> QED
  BY <1>1, <1>2, <1>3 DEF Kept

LEMMA ItemsFacts ==
  ASSUME NEW h \in Heaps, NEW l \in Leaves(h), l.kind = "list"
  PROVE  /\ Items(h, l) \in Seq(Scalars \cup {Unset})
         /\ Len(Items(h, l)) = l.len
         /\ \A i \in 1 .. l.len : Items(h, l)[i] = h[l.array][i]
<1>1. l.array \in DOMAIN h /\ l.len \in 0 .. Len(h[l.array])
  BY LeafFacts
<1> DEFINE s == h[l.array]
           n == l.len
<1>2. s \in Seq(Scalars \cup {Unset}) /\ Len(s) \in Nat /\ n \in 0 .. Len(s)
  BY <1>1, HeapFacts
<1>3. Items(h, l) = SubSeq(s, 1, n)
  BY DEF Items
<1> HIDE DEF s, n
<1>4. /\ SubSeq(s, 1, n) \in Seq(Scalars \cup {Unset})
      /\ Len(SubSeq(s, 1, n)) = n
      /\ \A i \in 1 .. n : SubSeq(s, 1, n)[i] = s[i]
  BY <1>2, SMT
<1> QED
  BY <1>3, <1>4 DEF s, n

\* append writes into the array of the list if that has room, else into a new one.
LEMMA AppendToFacts ==
  ASSUME NEW h \in Heaps, NEW l \in Leaves(h), l.kind = "list", NEW v \in Scalars
  PROVE  LET r == AppendTo(h, l, v) IN
         /\ r.heap \in Heaps /\ Kept(h, r.heap)
         /\ r.list \in Leaves(r.heap) /\ r.list.kind = "list"
         /\ r.list.elem = l.elem
         /\ \A a \in DOMAIN h : r.heap[a] # h[a] => a = l.array /\ l.len < Len(h[a])
         /\ r.list.array \in DOMAIN h => /\ r.list.array = l.array
                                         /\ l.len < Len(h[l.array])
<1> DEFINE r == AppendTo(h, l, v)
<1>1. l.array \in DOMAIN h /\ l.len \in 0 .. Len(h[l.array]) /\ l.elem \in Elems
  BY LeafFacts
<1>2. /\ Len(h) \in Nat /\ DOMAIN h = 1 .. Len(h)
      /\ h[l.array] \in Seq(Scalars \cup {Unset}) /\ Len(h[l.array]) \in Nat
  BY <1>1, HeapFacts
<1>3. CASE l.len < Len(h[l.array])
  <2> DEFINE s == [h[l.array] EXCEPT ![l.len + 1] = v]
             g == [h EXCEPT ![l.array] = s]
  <2>1. r = [heap |-> g, list |-> Slice(l.array, l.len + 1, l.elem)]
    BY <1>3 DEF AppendTo
  <2>2. s \in Seq(Scalars \cup {Unset}) /\ Len(s) = Len(h[l.array])
    <3>1. l.len + 1 \in 1 .. Len(h[l.array]) /\ v \in Scalars \cup {Unset}
      BY <1>1, <1>2, <1>3
    <3> QED
      BY <1>2, <3>1, ExceptSeq
  <2> HIDE DEF s
  <2>3. /\ g \in Heaps /\ Len(g) = Len(h)
        /\ \A a \in 1 .. Len(h) : g[a] = IF a = l.array THEN s ELSE h[a]
    BY <1>1, <1>2, <2>2, ExceptSeq DEF Heaps
  <2> HIDE DEF g
  <2>4. DOMAIN g = DOMAIN h
    BY <1>2, <2>3, HeapFacts
  <2>5. Kept(h, g)
    BY <1>2, <2>2, <2>3, <2>4 DEF Kept
  <2>6. Slice(l.array, l.len + 1, l.elem) \in Leaves(g)
    <3>1. l.array \in DOMAIN g /\ l.len + 1 \in 0 .. Len(g[l.array])
      BY <1>1, <1>2, <1>3, <2>2, <2>3, <2>4
    <3> QED
      BY <1>1, <3>1, SliceIsLeaf
  <2>7. \A a \in DOMAIN h : g[a] # h[a] => a = l.array /\ l.len < Len(h[a])
    BY <1>2, <1>3, <2>3
  <2>8. r.heap = g /\ r.list = Slice(l.array, l.len + 1, l.elem)
    BY <2>1
  <2>9. r.list.kind = "list" /\ r.list.array = l.array /\ r.list.elem = l.elem
    BY <2>8 DEF Slice
  <2> HIDE DEF r
  <2>10. /\ r.heap \in Heaps /\ Kept(h, r.heap)
         /\ r.list \in Leaves(r.heap) /\ r.list.kind = "list"
         /\ r.list.elem = l.elem
         /\ \A a \in DOMAIN h : r.heap[a] # h[a] => a = l.array /\ l.len < Len(h[a])
         /\ r.list.array \in DOMAIN h => /\ r.list.array = l.array
                                         /\ l.len < Len(h[l.array])
    BY <1>3, <2>3, <2>5, <2>6, <2>7, <2>8, <2>9
  <2> QED
    BY <2>10 DEF r
<1>4. CASE ~(l.len < Len(h[l.array]))
  <2> DEFINE s == Padded(Append(Items(h, l), v), 2 * l.len)
             g == Append(h, s)
             c == Slice(Len(h) + 1, l.len + 1, l.elem)
  <2>1. r = [heap |-> g, list |-> c]
    BY <1>4 DEF AppendTo
  <2>2. s \in Seq(Scalars \cup {Unset}) /\ l.len + 1 <= Len(s) /\ Len(s) \in Nat
    <3> DEFINE w == Append(Items(h, l), v)
               m == 2 * l.len - Len(w)
               f == [i \in 1 .. m |-> Unset]
    <3>1. w \in Seq(Scalars \cup {Unset}) /\ Len(w) = l.len + 1
      <4>1. v \in Scalars \cup {Unset}
        OBVIOUS
      <4> QED
        BY <4>1, ItemsFacts, AppendProperties
    <3>2. s = w \o f
      BY DEF Padded
    <3>3. m \in Int
      BY <1>1, <1>2, <3>1
    <3> HIDE DEF w, m
    <3>4. f \in Seq(Scalars \cup {Unset}) /\ Len(f) \in Nat
      <4>1. CASE m \in Nat
        BY <4>1, SMT
      <4>2. CASE m \notin Nat
        <5>1. 1 .. m = {}
          BY <3>3, <4>2
        <5>2. f = <<>>
          BY <5>1, SMT
        <5> QED
          BY <5>2, EmptySeq, Zenon
      <4> QED
        BY <4>1, <4>2, Zenon
    <3> HIDE DEF f
    <3>5. w \o f \in Seq(Scalars \cup {Unset}) /\ Len(w \o f) = Len(w) + Len(f)
      BY <3>1, <3>4, ConcatProperties, Zenon
    <3> HIDE DEF s
    <3> QED
      BY <1>1, <1>2, <3>1, <3>2, <3>4, <3>5
  <2> HIDE DEF s
  <2>3. /\ g \in Heaps /\ Kept(h, g)
        /\ Len(h) + 1 \in DOMAIN g /\ Len(h) + 1 \notin DOMAIN h
        /\ g[Len(h) + 1] = s
        /\ \A a \in DOMAIN h : g[a] = h[a]
    BY <2>2, NewArray
  <2> HIDE DEF g
  <2>4. c \in Leaves(g)
    <3>1. l.len + 1 \in 0 .. Len(g[Len(h) + 1])
      BY <1>1, <1>2, <2>2, <2>3
    <3> QED
      BY <1>1, <2>3, <3>1, SliceIsLeaf
  <2>5. c.kind = "list" /\ c.array = Len(h) + 1 /\ c.elem = l.elem
    BY DEF Slice
  <2>6. r.heap = g /\ r.list = c
    BY <2>1
  <2> HIDE DEF r, c
  <2>7. /\ r.heap \in Heaps /\ Kept(h, r.heap)
        /\ r.list \in Leaves(r.heap) /\ r.list.kind = "list"
        /\ r.list.elem = l.elem
        /\ \A a \in DOMAIN h : r.heap[a] # h[a] => a = l.array /\ l.len < Len(h[a])
        /\ r.list.array \in DOMAIN h => /\ r.list.array = l.array
                                        /\ l.len < Len(h[l.array])
    BY <2>3, <2>4, <2>5, <2>6
  <2> QED
    BY <2>7 DEF r
<1> QED
  BY <1>3, <1>4

\* cloneLeaf changes no array that there was.
LEMMA CloneFacts ==
  ASSUME NEW h \in Heaps, NEW v, IsTree(h, v)
  PROVE  LET r == cloneLeaf(h, v) IN
         /\ r.heap \in Heaps /\ Kept(h, r.heap) /\ IsTree(r.heap, r.value)
         /\ \A a \in DOMAIN h : r.heap[a] = h[a]
         /\ \A a \in DOMAIN h : Roomy(r.heap, r.value, a) => Roomy(h, v, a)
<1> DEFINE l == v[<<>>]
           s == Items(h, l)
           g == Append(h, s)
           c == Slice(Len(h) + 1, l.len, l.elem)
           r == cloneLeaf(h, v)
<1>1. l \in Leaves(h)
  BY DEF IsTree
<1>2. CASE l.kind = "list"
  <2>1. r = [heap |-> g, value |-> Leaf(c)]
    BY <1>2 DEF cloneLeaf, Kind
  <2>2. /\ s \in Seq(Scalars \cup {Unset}) /\ Len(s) = l.len /\ l.len \in Nat
        /\ l.elem \in Elems
    BY <1>1, <1>2, ItemsFacts, LeafFacts
  <2> HIDE DEF s
  <2>3. /\ g \in Heaps /\ Kept(h, g)
        /\ Len(h) + 1 \in DOMAIN g /\ Len(h) + 1 \notin DOMAIN h
        /\ g[Len(h) + 1] = s
        /\ \A a \in DOMAIN h : g[a] = h[a]
    BY <2>2, NewArray
  <2> HIDE DEF g
  <2>4. c \in Leaves(g)
    <3>1. l.len \in 0 .. Len(g[Len(h) + 1])
      BY <2>2, <2>3
    <3> QED
      BY <2>2, <2>3, <3>1, SliceIsLeaf
  <2>5. c.array = Len(h) + 1
    BY DEF Slice
  <2> HIDE DEF c
  <2>6. IsTree(g, Leaf(c)) /\ DOMAIN Leaf(c) = {<<>>} /\ Leaf(c)[<<>>] = c
    BY <2>4, LeafTree
  <2>7. \A a \in DOMAIN h : ~Roomy(g, Leaf(c), a)
    BY <2>3, <2>5, <2>6 DEF Roomy
  <2>8. r.heap = g /\ r.value = Leaf(c)
    BY <2>1
  <2> HIDE DEF r
  <2>9. /\ r.heap \in Heaps /\ Kept(h, r.heap) /\ IsTree(r.heap, r.value)
        /\ \A a \in DOMAIN h : r.heap[a] = h[a]
        /\ \A a \in DOMAIN h : Roomy(r.heap, r.value, a) => Roomy(h, v, a)
    BY <2>3, <2>6, <2>7, <2>8
  <2> QED
    BY <2>9 DEF r
<1>3. CASE l.kind # "list"
  <2>1. r.heap = h /\ r.value = v
    BY <1>3 DEF cloneLeaf, Kind
  <2> HIDE DEF r
  <2>2. /\ r.heap \in Heaps /\ Kept(h, r.heap) /\ IsTree(r.heap, r.value)
        /\ \A a \in DOMAIN h : r.heap[a] = h[a]
        /\ \A a \in DOMAIN h : Roomy(r.heap, r.value, a) => Roomy(h, v, a)
    BY <2>1 DEF Kept
  <2> QED
    BY <2>2 DEF r
<1> QED
  BY <1>2, <1>3

\* Nothing happens to the heap, and each list of u is one of t or of v.
LEMMA SameHeapStep ==
  ASSUME NEW h \in Heaps, NEW t, NEW v, NEW u, IsTree(h, u),
         \A r \in DOMAIN u : \/ r \in DOMAIN t /\ u[r] = t[r]
                             \/ \E e \in DOMAIN v : u[r] = v[e]
  PROVE  TreeStep(h, t, v, h, u)
<1>1. Kept(h, h)
  BY DEF Kept
<1>2. \A a \in DOMAIN h : Roomy(h, u, a) => Roomy(h, t, a) \/ Roomy(h, v, a)
  BY DEF Roomy
<1> QED
  BY <1>1, <1>2 DEF TreeStep

\* A patch that fails leaves an empty map, which nobody uses.
LEMMA FailureStep ==
  ASSUME NEW h \in Heaps, NEW g \in Heaps, Kept(h, g),
         \A a \in DOMAIN h : g[a] = h[a], NEW t, NEW v
  PROVE  TreeStep(h, t, v, Failure(g).heap, Failure(g).tree)
<1>1. Failure(g).heap = g /\ Failure(g).tree = Leaf(AMap)
  BY DEF Failure
<1>2. /\ IsTree(g, Leaf(AMap)) /\ DOMAIN Leaf(AMap) = {<<>>}
      /\ Leaf(AMap)[<<>>] = AMap
  BY LeafTree, PlainLeaves
<1>3. \A a \in DOMAIN h : ~Roomy(g, Leaf(AMap), a)
  BY <1>2 DEF Roomy, AMap
<1> QED
  BY <1>1, <1>2, <1>3, Zenon DEF TreeStep

\* A value added to a list that has room is the only change of an array.
LEMMA AddStep ==
  ASSUME NEW h \in Heaps, NEW t, IsTree(h, t), NEW v, IsTree(h, v), NEW path \in Path
  PROVE  TreeStep(h, t, v, treeAdd(h, t, path, v).heap, treeAdd(h, t, path, v).tree)
<1> DEFINE r == treeAdd(h, t, path, v)
           l == t[path]
           new == AppendTo(h, l, v[<<>>].value)
           onto == Exists(t, path) /\ l.kind = "list"
<1>1. TreeStep(h, t, v, Failure(h).heap, Failure(h).tree)
  <2>1. Kept(h, h)
    BY DEF Kept
  <2> QED
    BY <2>1, FailureStep
<1>2. CASE path = <<>>
  <2>1. r = Result(h, v) \/ r = Failure(h)
    BY <1>2 DEF treeAdd
  <2>2. TreeStep(h, t, v, h, v)
    BY SameHeapStep
  <2> QED
    BY <1>1, <2>1, <2>2 DEF Result
<1>3. CASE path # <<>> /\ (Kind(v) = "nil" \/ ~HasMap(t, parentPath(path)))
  <2>1. r = Failure(h)
    BY <1>3 DEF treeAdd
  <2> QED
    BY <1>1, <2>1
<1>4. CASE path # <<>> /\ HasMap(t, parentPath(path)) /\ Kind(v) # "nil" /\ ~onto
  <2>1. r = Result(h, With(t, path, v))
    BY <1>4 DEF treeAdd
  <2>2. TreeStep(h, t, v, h, With(t, path, v))
    BY <1>4, WithFacts, SameHeapStep
  <2> QED
    BY <2>1, <2>2 DEF Result
<1>5. CASE /\ path # <<>> /\ HasMap(t, parentPath(path)) /\ Kind(v) # "nil" /\ onto
           /\ ~Accepts(l, v)
  <2>1. r = Failure(h)
    BY <1>5 DEF treeAdd
  <2> QED
    BY <1>1, <2>1
<1>6. CASE /\ path # <<>> /\ HasMap(t, parentPath(path)) /\ Kind(v) # "nil" /\ onto
           /\ Accepts(l, v)
  <2>1. r = Result(new.heap, With(t, path, Leaf(new.list)))
    BY <1>6 DEF treeAdd
  <2>2. path \in DOMAIN t /\ l \in Leaves(h) /\ l.kind = "list"
    BY <1>6 DEF Exists, IsTree
  <2>3. v[<<>>].value \in Scalars
    <3>1. v[<<>>] \in Leaves(h)
      BY DEF IsTree
    <3> QED
      BY <1>6, <3>1, LeafFacts DEF Accepts, Kind
  <2>4. /\ new.heap \in Heaps /\ Kept(h, new.heap)
        /\ new.list \in Leaves(new.heap) /\ new.list.kind = "list"
        /\ \A a \in DOMAIN h : new.heap[a] # h[a] => a = l.array /\ l.len < Len(h[a])
        /\ new.list.array \in DOMAIN h => /\ new.list.array = l.array
                                          /\ l.len < Len(h[l.array])
    BY <2>2, <2>3, AppendToFacts
  <2> HIDE DEF new
  <2> DEFINE g == new.heap
             u == With(t, path, Leaf(new.list))
  <2>5. /\ IsTree(g, Leaf(new.list)) /\ DOMAIN Leaf(new.list) = {<<>>}
        /\ Leaf(new.list)[<<>>] = new.list
    BY <2>4, LeafTree
  <2>6. IsTree(g, t)
    BY <2>4, KeptTree
  <2>7. /\ IsTree(g, u)
        /\ \A e \in DOMAIN u : (e \in DOMAIN t /\ u[e] = t[e]) \/ u[e] = new.list
    BY <1>6, <2>5, <2>6, WithFacts
  <2>8. \A a \in DOMAIN h : g[a] # h[a] => Roomy(h, t, a)
    BY <2>2, <2>4 DEF Roomy
  <2>9. ASSUME NEW a \in DOMAIN h, Roomy(g, u, a)
        PROVE  Roomy(h, t, a)
    <3>1. PICK e \in DOMAIN u : u[e].kind = "list" /\ u[e].array = a /\ u[e].len < Len(g[a])
      BY <2>9 DEF Roomy
    <3>2. Len(g[a]) = Len(h[a])
      BY <2>4 DEF Kept
    <3>3. CASE e \in DOMAIN t /\ u[e] = t[e]
      BY <3>1, <3>2, <3>3 DEF Roomy
    <3>4. CASE u[e] = new.list
      <4>1. a = l.array /\ l.len < Len(h[l.array])
        BY <2>4, <3>1, <3>4
      <4> QED
        BY <2>2, <4>1 DEF Roomy
    <3> QED
      BY <2>7, <3>3, <3>4
  <2>10. TreeStep(h, t, v, g, u)
    BY <2>4, <2>7, <2>8, <2>9 DEF TreeStep
  <2>11. r.heap = g /\ r.tree = u
    BY <2>1 DEF Result
  <2> QED
    BY <2>10, <2>11
<1> QED
  BY <1>2, <1>3, <1>4, <1>5, <1>6

\* A copy is made before it is added; what it is added to may have lost members.
LEMMA CopyStep ==
  ASSUME NEW h \in Heaps, NEW t, IsTree(h, t), NEW from \in DOMAIN t, NEW v,
         NEW u, IsTree(h, u), \A a \in DOMAIN h : Roomy(h, u, a) => Roomy(h, t, a),
         NEW path \in Path
  PROVE  LET c == cloneLeaf(h, Subtree(t, from))
             r == treeAdd(c.heap, u, path, c.value)
         IN  TreeStep(h, t, v, r.heap, r.tree)
<1> DEFINE s == Subtree(t, from)
           c == cloneLeaf(h, s)
           g == c.heap
           w == c.value
           r == treeAdd(g, u, path, w)
<1>1. IsTree(h, s) /\ \A e \in DOMAIN s : from \o e \in DOMAIN t /\ s[e] = t[from \o e]
  BY SubtreeFacts
<1>2. \A a : Roomy(h, s, a) => Roomy(h, t, a)
  BY <1>1 DEF Roomy
<1> HIDE DEF s
<1>3. /\ g \in Heaps /\ Kept(h, g) /\ IsTree(g, w)
      /\ \A a \in DOMAIN h : g[a] = h[a]
      /\ \A a \in DOMAIN h : Roomy(g, w, a) => Roomy(h, s, a)
  BY <1>1, CloneFacts
<1>4. IsTree(g, u)
  BY <1>3, KeptTree
<1> HIDE DEF c
<1>5. TreeStep(g, u, w, r.heap, r.tree)
  BY <1>3, <1>4, AddStep
<1> HIDE DEF r
<1>6. \A a \in DOMAIN h : Roomy(g, u, a) => Roomy(h, t, a)
  BY <1>3 DEF Roomy, Kept
<1>7. Kept(h, r.heap)
  BY <1>3, <1>5 DEF TreeStep, Kept
<1>8. \A a \in DOMAIN h : r.heap[a] # h[a] => Roomy(h, t, a)
  BY <1>3, <1>5, <1>6 DEF TreeStep, Kept
<1>9. \A a \in DOMAIN h : Roomy(r.heap, r.tree, a) => Roomy(h, t, a)
  BY <1>2, <1>3, <1>5, <1>6 DEF TreeStep, Kept
<1>10. TreeStep(h, t, v, r.heap, r.tree)
  BY <1>5, <1>7, <1>8, <1>9 DEF TreeStep
<1> QED
  BY <1>10 DEF r, c, s

\* Each operation but a test is such a step.
LEMMA TransformStep ==
  ASSUME NEW h \in Heaps, NEW t, IsTree(h, t), NEW o \in Operations, o.op # "test",
         IsTree(h, o.value)
  PROVE  TreeStep(h, t, o.value, Transform(h, t, o).heap, Transform(h, t, o).tree)
<1> DEFINE r == Transform(h, t, o)
           v == o.value
<1>1. o.path \in Path /\ o.from \in Path
  BY OperationsAssumption DEF Path
<1>2. TreeStep(h, t, v, Failure(h).heap, Failure(h).tree)
  <2>1. Kept(h, h)
    BY DEF Kept
  <2> QED
    BY <2>1, FailureStep
<1>3. TreeStep(h, t, v, h, t)
  BY SameHeapStep
<1>4. TreeStep(h, t, v, treeAdd(h, t, o.path, v).heap, treeAdd(h, t, o.path, v).tree)
  BY <1>1, AddStep
<1>5. CASE o.op = "add"
  BY <1>4, <1>5 DEF Transform
<1>6. CASE o.op = "default"
  <2>1. r = treeDefault(h, t, o.path, v)
    BY <1>6 DEF Transform
  <2>2. CASE ~HasMap(t, parentPath(o.path))
    BY <1>2, <2>1, <2>2 DEF treeDefault
  <2>3. CASE HasMap(t, parentPath(o.path)) /\ Exists(t, o.path)
    BY <1>3, <2>1, <2>3 DEF treeDefault, Result
  <2>4. CASE HasMap(t, parentPath(o.path)) /\ ~Exists(t, o.path)
    <3>1. o.path # <<>>
      BY OperationsAssumption, <1>6
    <3>2. TreeStep(h, t, v, h, With(t, o.path, v))
      BY <1>1, <2>4, <3>1, WithFacts, SameHeapStep
    <3> QED
      BY <2>1, <2>4, <3>2 DEF treeDefault, Result
  <2> QED
    BY <2>2, <2>3, <2>4
<1>7. ASSUME NEW path \in Path
      PROVE  /\ TreeStep(h, t, v, treeRemove(h, t, path).heap, treeRemove(h, t, path).tree)
             /\ IsTree(h, treeRemove(h, t, path).tree)
             /\ \A a \in DOMAIN h :
                  Roomy(h, treeRemove(h, t, path).tree, a) => Roomy(h, t, a)
  <2>1. /\ IsTree(h, Leaf(AMap)) /\ DOMAIN Leaf(AMap) = {<<>>}
        /\ Leaf(AMap)[<<>>] = AMap
    BY LeafTree, PlainLeaves
  <2>2. TreeStep(h, t, v, h, Leaf(AMap)) /\ \A a : ~Roomy(h, Leaf(AMap), a)
    BY <1>2, <2>1 DEF Failure, Roomy, AMap
  <2>3. CASE path = <<>>
    BY <2>1, <2>2, <2>3 DEF treeRemove, Result
  <2>4. CASE path # <<>> /\ ~HasMap(t, parentPath(path))
    BY <2>1, <2>2, <2>4 DEF treeRemove, Failure
  <2>5. CASE path # <<>> /\ HasMap(t, parentPath(path))
    <3>1. treeRemove(h, t, path) = Result(h, Without(t, path))
      BY <2>5 DEF treeRemove
    <3>2. /\ IsTree(h, Without(t, path))
          /\ \A e \in DOMAIN Without(t, path) :
               e \in DOMAIN t /\ Without(t, path)[e] = t[e]
      BY <2>5, WithoutFacts
    <3>3. TreeStep(h, t, v, h, Without(t, path))
      BY <3>2, SameHeapStep
    <3>4. \A a : Roomy(h, Without(t, path), a) => Roomy(h, t, a)
      BY <3>2 DEF Roomy
    <3> QED
      BY <3>1, <3>2, <3>3, <3>4 DEF Result
  <2> QED
    BY <2>3, <2>4, <2>5
<1>8. CASE o.op = "remove"
  BY <1>1, <1>7, <1>8 DEF Transform
<1>9. CASE o.op = "replace"
  <2>1. r = Failure(h) \/ r = treeAdd(h, t, o.path, v)
    BY <1>9 DEF Transform, treeReplace
  <2> QED
    BY <1>2, <1>4, <2>1
<1>10. CASE o.op = "copy"
  <2>1. r = treeCopy(h, t, o.from, o.path)
    BY <1>10 DEF Transform
  <2>2. CASE ~Exists(t, o.from)
    BY <1>2, <2>1, <2>2 DEF treeCopy
  <2>3. CASE Exists(t, o.from)
    <3>1. o.from \in DOMAIN t
      BY <2>3 DEF Exists
    <3> DEFINE c == cloneLeaf(h, Subtree(t, o.from))
    <3>2. TreeStep(h, t, v, treeAdd(c.heap, t, o.path, c.value).heap,
                            treeAdd(c.heap, t, o.path, c.value).tree)
      BY <1>1, <3>1, CopyStep
    <3>3. r = treeAdd(c.heap, t, o.path, c.value)
      BY <2>1, <2>3 DEF treeCopy
    <3> QED
      BY <3>2, <3>3
  <2> QED
    BY <2>2, <2>3
<1>11. CASE o.op = "move"
  <2> DEFINE u == treeRemove(h, t, o.from)
             c == cloneLeaf(h, Subtree(t, o.from))
  <2>1. r = treeMove(h, t, o.from, o.path)
    BY <1>11 DEF Transform
  <2>2. CASE ~Exists(t, o.from) \/ ~u.ok
    <3>1. r = Failure(h)
      BY <2>1, <2>2 DEF treeMove
    <3> QED
      BY <1>2, <3>1
  <2>3. CASE Exists(t, o.from) /\ u.ok
    <3>1. o.from \in DOMAIN t
      BY <2>3 DEF Exists
    <3>2. r = treeAdd(c.heap, u.tree, o.path, c.value)
      BY <2>1, <2>3 DEF treeMove
    <3>3. IsTree(h, u.tree) /\ \A a \in DOMAIN h : Roomy(h, u.tree, a) => Roomy(h, t, a)
      BY <1>1, <1>7
    <3> HIDE DEF u
    <3>4. TreeStep(h, t, v, treeAdd(c.heap, u.tree, o.path, c.value).heap,
                            treeAdd(c.heap, u.tree, o.path, c.value).tree)
      BY <1>1, <3>1, <3>3, CopyStep, Zenon
    <3> QED
      BY <3>2, <3>4
  <2> QED
    BY <2>2, <2>3
<1> QED
  BY OperationsAssumption, <1>5, <1>6, <1>8, <1>9, <1>10, <1>11

-----------------------------------------------------------------------------
(* What is always so of a patcher.                                         *)

\* Trees are trees of the heap, and the operations those that were given.
PatcherType ==
  /\ heap \in Heaps
  /\ IsTree(heap, base) /\ IsTree(heap, tree)
  /\ \A o \in Operations : IsTree(heap, o.value)
  /\ ops \in Seq(Operations) /\ todo \in Seq(Operations)
  /\ results \in Seq({results[i] : i \in DOMAIN results})
  /\ \A i \in DOMAIN results : IsTree(heap, results[i].tree)

\* No tree that was returned has a list in the array a.
Unshared(a) ==
  \A i \in DOMAIN results : \A p \in ListsOf(results[i].tree) : results[i].tree[p].array # a

\* What append may still write to is in no tree that was returned.
Apart ==
  /\ \A i \in DOMAIN results : Plain(heap, results[i].tree) = results[i].value
  /\ state = "resolving" => \A a \in DOMAIN heap : Roomy(heap, tree, a) => Unshared(a)

PatcherInv == PatcherType /\ (Tight => Apart)

LEMMA InitType == PatcherInit => PatcherInv
<1> SUFFICES ASSUME PatcherInit PROVE PatcherInv
  OBVIOUS
<1>1. PICK b \in Bases : base = b.tree /\ heap = b.heap
  BY DEF PatcherInit
<1>2. /\ heap \in Heaps /\ IsTree(heap, base)
      /\ \A o \in Operations : IsTree(heap, o.value)
  BY BasesAssumption, <1>1
<1>3. tree = base /\ ops = <<>> /\ todo = <<>> /\ results = <<>> /\ state = "idle"
  BY DEF PatcherInit
<1>4. DOMAIN results = {}
  BY <1>3
<1>5. results \in Seq({results[i] : i \in DOMAIN results})
  BY <1>3, EmptySeq
<1>6. ops \in Seq(Operations) /\ todo \in Seq(Operations)
  BY <1>3, EmptySeq
<1> QED
  BY <1>2, <1>3, <1>4, <1>5, <1>6 DEF PatcherInv, PatcherType, Apart

\* An operation: every array keeps its length, and the patcher its trees.
LEMMA ApplyGrows ==
  PatcherType /\ Apply =>
    /\ TreeStep(heap, tree, Head(todo).value, heap', tree')
    /\ Head(todo) \in Operations
    /\ state' = "resolving" => state = "resolving"
<1> SUFFICES ASSUME PatcherType, Apply
             PROVE  /\ TreeStep(heap, tree, Head(todo).value, heap', tree')
                    /\ Head(todo) \in Operations
                    /\ state' = "resolving" => state = "resolving"
  OBVIOUS
<1> DEFINE o == Head(todo)
<1>1. o \in Operations /\ o.op # "test"
  <2>1. todo \in Seq(Operations) /\ todo # <<>>
    BY DEF PatcherType, Apply
  <2>2. o \in Operations
    BY <2>1, HeadTailProperties
  <2> QED
    BY <2>2 DEF Apply
<1>2. heap' = Transform(heap, tree, o).heap /\ tree' = Transform(heap, tree, o).tree
  BY DEF Apply
<1> HIDE DEF o
<1>3. TreeStep(heap, tree, o.value, heap', tree')
  <2>1. heap \in Heaps /\ IsTree(heap, tree) /\ IsTree(heap, o.value)
    BY <1>1 DEF PatcherType
  <2> QED
    BY <1>1, <1>2, <2>1, TransformStep
<1> QED
  BY <1>1, <1>3 DEF o, Apply

LEMMA StepType == PatcherType /\ [PatcherNext]_patcherVars => PatcherType'
<1> SUFFICES ASSUME PatcherType, [PatcherNext]_patcherVars PROVE PatcherType'
  OBVIOUS
<1>1. CASE AddOperation
  <2>1. PICK o \in Operations : ops' = Append(ops, o)
    BY <1>1 DEF AddOperation
  <2>2. ops' \in Seq(Operations)
    BY <2>1, AppendProperties DEF PatcherType
  <2> QED
    BY <1>1, <2>2 DEF AddOperation, PatcherType
<1>2. CASE NewPatcher
  <2>1. ops' \in Seq(Operations)
    BY <1>2, EmptySeq DEF NewPatcher
  <2> QED
    BY <1>2, <2>1 DEF NewPatcher, PatcherType
<1>3. CASE ResolveMap
  BY <1>3 DEF ResolveMap, PatcherType
<1>4. CASE Apply
  <2>1. TreeStep(heap, tree, Head(todo).value, heap', tree')
    BY <1>4, ApplyGrows
  <2>2. heap' \in Heaps /\ Kept(heap, heap') /\ IsTree(heap', tree')
    BY <2>1 DEF TreeStep
  <2>3. base' = base /\ ops' = ops /\ results' = results /\ todo' = Tail(todo) /\ todo # <<>>
    BY <1>4 DEF Apply
  <2>4. todo' \in Seq(Operations)
    BY <2>3, HeadTailProperties DEF PatcherType
  <2>5. IsTree(heap', base)
    BY <2>2, KeptTree DEF PatcherType
  <2>6. \A o \in Operations : IsTree(heap', o.value)
    BY <2>2, KeptTree DEF PatcherType
  <2>7. \A i \in DOMAIN results : IsTree(heap', results[i].tree)
    BY <2>2, KeptTree DEF PatcherType
  <2> QED
    BY <2>2, <2>3, <2>4, <2>5, <2>6, <2>7 DEF PatcherType
<1>5. CASE Test
  <2>1. /\ todo # <<>> /\ Head(todo).op = "test"
        /\ \/ todo' = Head(todo).then \o Tail(todo)
           \/ todo' = Head(todo).else \o Tail(todo)
    BY <1>5, Zenon DEF Test
  <2>2. Head(todo) \in Operations /\ Tail(todo) \in Seq(Operations)
    BY <2>1, HeadTailProperties DEF PatcherType
  <2>3. Head(todo).then \in Seq(Operations) /\ Head(todo).else \in Seq(Operations)
    BY OperationsAssumption, <2>1, <2>2
  <2>4. todo' \in Seq(Operations)
    BY <2>1, <2>2, <2>3, ConcatProperties, Zenon
  <2> QED
    BY <1>5, <2>4 DEF Test, PatcherType
<1>6. CASE Return
  <2> DEFINE x == [tree |-> tree, value |-> Plain(heap, tree)]
             S == {results[i] : i \in DOMAIN results} \cup {x}
  <2>1. results' = Append(results, x)
    BY <1>6 DEF Return
  <2>2. results \in Seq(S)
    BY SeqMonotonic, Zenon DEF PatcherType
  <2> HIDE DEF x
  <2>3. /\ results' \in Seq(S) /\ Len(results') = Len(results) + 1
        /\ \A i \in 1 .. Len(results) : results'[i] = results[i]
        /\ results'[Len(results) + 1] = x
    <3>1. x \in S
      OBVIOUS
    <3> HIDE DEF S
    <3> QED
      BY <2>1, <2>2, <3>1, AppendProperties
  <2> HIDE DEF S
  <2>4. /\ Len(results) \in Nat /\ DOMAIN results = 1 .. Len(results)
        /\ DOMAIN results' = 1 .. Len(results) + 1
    <3>1. Len(results) \in Nat /\ DOMAIN results = 1 .. Len(results)
      BY <2>2, LenProperties
    <3>2. DOMAIN results' = 1 .. Len(results')
      BY <2>3, LenProperties
    <3> QED
      BY <2>3, <3>1, <3>2
  <2>5. results' \in Seq({results'[i] : i \in DOMAIN results'})
    <3> DEFINE T == {results'[i] : i \in DOMAIN results'}
               n == Len(results) + 1
    <3>1. results' \in [1 .. n -> T]
      <4>1. results' \in [1 .. Len(results') -> S]
        BY <2>3, LenProperties
      <4> QED
        BY <2>3, <2>4, <4>1
    <3>2. n \in Nat
      BY <2>4
    <3> HIDE DEF T, n
    <3>3. results' \in Seq(T)
      BY <3>1, <3>2, SeqDef
    <3> QED
      BY <3>3 DEF T
  <2>6. x.tree = tree
    BY DEF x
  <2>7. \A i \in DOMAIN results' : i \in DOMAIN results \/ i = Len(results) + 1
    BY <2>4
  <2>8. \A i \in DOMAIN results' : IsTree(heap, results'[i].tree)
    BY <2>3, <2>4, <2>6, <2>7 DEF PatcherType
  <2>9. UNCHANGED <<base, heap, ops, todo, tree>>
    BY <1>6 DEF Return
  <2> QED
    BY <2>5, <2>8, <2>9 DEF PatcherType
<1>7. CASE UNCHANGED patcherVars
  BY <1>7 DEF patcherVars, PatcherType
<1> QED
  BY <1>1, <1>2, <1>3, <1>4, <1>5, <1>6, <1>7 DEF PatcherNext

\* Whether append finds room in a list that was given never changes.
LEMMA TightKept ==
  PatcherType /\ Kept(heap, heap') /\ base' = base => (Tight' => Tight)
<1> SUFFICES ASSUME PatcherType, Kept(heap, heap'), base' = base, Tight' PROVE Tight
  OBVIOUS
<1>1. ASSUME NEW t, IsTree(heap, t), NEW p \in ListsOf(t), HasRoom(t[p])
      PROVE  t[p].len < Len(heap'[t[p].array])
  <2>1. t[p] \in Leaves(heap) /\ t[p].kind = "list"
    BY <1>1 DEF IsTree, ListsOf
  <2>2. t[p].array \in DOMAIN heap
    BY <2>1, LeafFacts
  <2> QED
    BY <1>1, <2>2 DEF HasRoom, Kept
<1>2. \A o \in Operations : \A p \in ListsOf(o.value) :
        ~(o.value[p].len < Len(heap'[o.value[p].array]))
  BY DEF Tight, TightValues, HasRoom
<1>3. \A p \in ListsOf(base) : ~(base[p].len < Len(heap'[base[p].array]))
  BY DEF Tight, HasRoom, ListsOf
<1>4. TightValues
  BY <1>1, <1>2, Zenon DEF TightValues, PatcherType
<1>5. \A p \in ListsOf(base) : ~HasRoom(base[p])
  BY <1>1, <1>3, Zenon DEF PatcherType
<1> QED
  BY <1>4, <1>5 DEF Tight

\* A tree whose arrays stay as they are has the same value.
LEMMA PlainSame ==
  ASSUME NEW h, NEW g, NEW t,
         \A p \in DOMAIN t : t[p].kind = "list" => g[t[p].array] = h[t[p].array]
  PROVE  Plain(g, t) = Plain(h, t)
<1>1. \A p \in DOMAIN t : t[p].kind = "list" => Items(g, t[p]) = Items(h, t[p])
  BY Zenon DEF Items
<1> DEFINE D == {e \in DOMAIN t : t[e].kind # "nil"}
           F(k) == [p \in D |->
                     IF t[p].kind = "list"
                     THEN [kind |-> "list", elem |-> t[p].elem, items |-> Items(k, t[p])]
                     ELSE t[p]]
<1>2. F(g) = F(h)
  BY <1>1
<1>3. Plain(g, t) = F(g) /\ Plain(h, t) = F(h)
  BY DEF Plain, PlainLeaf
<1> QED
  BY <1>2, <1>3

LEMMA StepApart == PatcherInv /\ [PatcherNext]_patcherVars => (Tight' => Apart')
<1> SUFFICES ASSUME PatcherInv, [PatcherNext]_patcherVars, Tight' PROVE Apart'
  OBVIOUS
<1>0. PatcherType
  BY DEF PatcherInv
<1>1. ASSUME base' = base, Kept(heap, heap')
      PROVE  Tight /\ Apart
  BY <1>0, <1>1, TightKept DEF PatcherInv
<1>2. Kept(heap, heap)
  BY DEF Kept
<1>3. CASE AddOperation \/ NewPatcher
  <2>1. UNCHANGED <<base, heap, tree, results>> /\ state' = "idle"
    BY <1>3 DEF AddOperation, NewPatcher
  <2>2. Apart
    BY <1>1, <1>2, <2>1
  <2> QED
    BY <2>1, <2>2 DEF Apart
<1>4. CASE ResolveMap
  <2>1. UNCHANGED <<base, heap, results>> /\ tree' = base
    BY <1>4 DEF ResolveMap
  <2>2. Apart /\ Tight
    BY <1>1, <1>2, <2>1
  <2>3. \A a : ~Roomy(heap, base, a)
    BY <2>2 DEF Tight, HasRoom, ListsOf, Roomy
  <2> QED
    BY <2>1, <2>2, <2>3 DEF Apart
<1>5. CASE Apply
  <2>1. /\ TreeStep(heap, tree, Head(todo).value, heap', tree')
        /\ Head(todo) \in Operations
        /\ state' = "resolving" => state = "resolving"
    BY <1>0, <1>5, ApplyGrows
  <2>2. base' = base /\ results' = results /\ state = "resolving"
    BY <1>5 DEF Apply
  <2>3. Tight /\ Apart
    BY <1>1, <2>1, <2>2 DEF TreeStep
  <2>4. \A a \in DOMAIN heap : ~Roomy(heap, Head(todo).value, a)
    BY <2>1, <2>3 DEF Tight, TightValues, HasRoom, ListsOf, Roomy
  <2>5. \A i \in DOMAIN results : \A p \in ListsOf(results[i].tree) :
          results[i].tree[p].array \in DOMAIN heap
    <3> SUFFICES ASSUME NEW i \in DOMAIN results, NEW p \in ListsOf(results[i].tree)
                 PROVE  results[i].tree[p].array \in DOMAIN heap
      OBVIOUS
    <3>1. results[i].tree[p] \in Leaves(heap) /\ results[i].tree[p].kind = "list"
      BY <1>0, Zenon DEF PatcherType, IsTree, ListsOf
    <3> QED
      BY <3>1, LeafFacts
  <2>6. ASSUME NEW i \in DOMAIN results
        PROVE  Plain(heap', results[i].tree) = results[i].value
    <3>1. \A p \in ListsOf(results[i].tree) :
            heap'[results[i].tree[p].array] = heap[results[i].tree[p].array]
      BY <2>1, <2>2, <2>3, <2>5 DEF TreeStep, Apart, Unshared
    <3>2. Plain(heap', results[i].tree) = Plain(heap, results[i].tree)
      BY <3>1, PlainSame DEF ListsOf
    <3> QED
      BY <2>3, <3>2 DEF Apart
  <2>7. ASSUME NEW a \in DOMAIN heap', Roomy(heap', tree', a)
        PROVE  Unshared(a)
    <3>1. CASE a \in DOMAIN heap
      <4>1. Roomy(heap, tree, a)
        BY <2>1, <2>4, <2>7, <3>1 DEF TreeStep
      <4> QED
        BY <2>2, <2>3, <3>1, <4>1 DEF Apart
    <3>2. CASE a \notin DOMAIN heap
      BY <2>5, <3>2 DEF Unshared
    <3> QED
      BY <3>1, <3>2
  <2> QED
    BY <2>2, <2>6, <2>7 DEF Apart, Unshared
<1>6. CASE Test
  <2>1. UNCHANGED <<base, heap, tree, results>> /\ state = "resolving"
    BY <1>6 DEF Test
  <2>2. Apart
    BY <1>1, <1>2, <2>1
  <2> QED
    BY <2>1, <2>2 DEF Apart, Unshared
<1>7. CASE Return
  <2> DEFINE x == [tree |-> tree, value |-> Plain(heap, tree)]
  <2>1. results' = Append(results, x) /\ UNCHANGED <<base, heap, tree>> /\ state' = "idle"
    BY <1>7 DEF Return
  <2>2. Apart
    BY <1>1, <1>2, <2>1
  <2>3. \A i \in DOMAIN results' : (i \in DOMAIN results /\ results'[i] = results[i])
                                    \/ results'[i] = x
    <3> DEFINE S == {results[i] : i \in DOMAIN results} \cup {x}
    <3>1. results \in Seq(S)
      BY <1>0, SeqMonotonic, Zenon DEF PatcherType
    <3>2. x \in S
      OBVIOUS
    <3> HIDE DEF x, S
    <3>3. /\ results' \in Seq(S) /\ Len(results') = Len(results) + 1
          /\ \A i \in 1 .. Len(results) : results'[i] = results[i]
          /\ results'[Len(results) + 1] = x
      BY <2>1, <3>1, <3>2, AppendProperties
    <3>4. /\ Len(results) \in Nat /\ DOMAIN results = 1 .. Len(results)
          /\ DOMAIN results' = 1 .. Len(results')
      BY <3>1, <3>3, LenProperties
    <3>5. \A i \in DOMAIN results' : i \in 1 .. Len(results) \/ i = Len(results) + 1
      BY <3>3, <3>4
    <3> QED
      BY <3>3, <3>4, <3>5
  <2>4. x.value = Plain(heap, x.tree)
    OBVIOUS
  <2> HIDE DEF x
  <2>5. \A i \in DOMAIN results' : Plain(heap, results'[i].tree) = results'[i].value
    BY <2>2, <2>3, <2>4 DEF Apart
  <2> QED
    BY <2>1, <2>5 DEF Apart
<1>8. CASE UNCHANGED patcherVars
  <2>1. UNCHANGED <<base, heap, tree, results, state>>
    BY <1>8 DEF patcherVars
  <2>2. Apart
    BY <1>1, <1>2, <2>1
  <2> QED
    BY <2>1, <2>2 DEF Apart, Unshared
<1> QED
  BY <1>3, <1>4, <1>5, <1>6, <1>7, <1>8 DEF PatcherNext

\* The trees of a patcher are always trees: every member is in a map, and every
\* list within an array of the heap.
THEOREM PatcherTypeCorrect == PatcherSpec => []PatcherType
<1>1. PatcherInit => PatcherType
  BY InitType DEF PatcherInv
<1> QED
  BY <1>1, StepType, PTL DEF PatcherSpec

LEMMA AlwaysPatcherInv == PatcherSpec => []PatcherInv
<1>1. PatcherInv /\ [PatcherNext]_patcherVars => PatcherInv'
  BY StepType, StepApart DEF PatcherInv
<1> QED
  BY <1>1, InitType, PTL DEF PatcherSpec

\* ResolveMap: a tree that was returned never changes, whatever other patches are
\* made of the same tree, if append finds no room in the lists that were given.
THEOREM ResultsAreKept == PatcherSpec => []ResultsStay
<1>1. PatcherInv => ResultsStay
  BY DEF PatcherInv, Apart, ResultsStay
<1> QED
  BY <1>1, AlwaysPatcherInv, PTL

-----------------------------------------------------------------------------
(* Plain values.                                                           *)

IsFcn(f) == f = [x \in DOMAIN f |-> f[x]]

LEMMA SameFcn ==
  ASSUME NEW f, IsFcn(f), NEW g, IsFcn(g), DOMAIN f = DOMAIN g, \A x \in DOMAIN f : f[x] = g[x]
  PROVE  f = g
<1>1. [x \in DOMAIN f |-> f[x]] = [x \in DOMAIN g |-> g[x]]
  OBVIOUS
<1> QED
  BY <1>1 DEF IsFcn

LEMMA TreesAreFcns ==
  ASSUME NEW h, NEW t, NEW path, NEW v
  PROVE  /\ IsFcn(Plain(h, t)) /\ IsFcn(Subtree(t, path))
         /\ IsFcn(Without(t, path)) /\ IsFcn(With(t, path, v))
BY Zenon DEF IsFcn, Plain, Subtree, Without, With

LEMMA PlainFacts ==
  ASSUME NEW h, NEW t
  PROVE  /\ \A e : e \in DOMAIN Plain(h, t) <=> e \in DOMAIN t /\ t[e].kind # "nil"
         /\ \A e \in DOMAIN Plain(h, t) :
              Plain(h, t)[e] = PlainLeaf(h, t[e]) /\ Plain(h, t)[e].kind = t[e].kind
<1>1. \A e : e \in DOMAIN Plain(h, t) <=> e \in DOMAIN t /\ t[e].kind # "nil"
  BY DEF Plain
<1>2. \A e \in DOMAIN Plain(h, t) : Plain(h, t)[e] = PlainLeaf(h, t[e])
  BY DEF Plain, PlainLeaf
<1>3. \A l : PlainLeaf(h, l).kind = l.kind
  BY DEF PlainLeaf
<1> QED
  BY <1>1, <1>2, <1>3

\* A path finds the same in the plain value.
LEMMA PlainFinds ==
  ASSUME NEW h, NEW t, NEW path
  PROVE  /\ path \in DOMAIN Plain(h, t) <=> Exists(t, path)
         /\ HasMap(Plain(h, t), path) <=> HasMap(t, path)
BY PlainFacts DEF Exists, HasMap

LEMMA PlainDomain ==
  ASSUME NEW h, NEW t, IsTree(h, t)
  PROVE  DOMAIN t \subseteq Path /\ DOMAIN Plain(h, t) \subseteq Path
BY PlainFacts DEF IsTree, Path

LEMMA PlainSubtree ==
  ASSUME NEW h, NEW t, IsTree(h, t), NEW path \in Path
  PROVE  Plain(h, Subtree(t, path)) = Subtree(Plain(h, t), path)
<1> DEFINE f == Plain(h, Subtree(t, path))
           g == Subtree(Plain(h, t), path)
<1>1. DOMAIN t \subseteq Path /\ DOMAIN Plain(h, t) \subseteq Path
  BY PlainDomain
<1>2. /\ \A r : r \in DOMAIN Subtree(t, path) <=> r \in Path /\ path \o r \in DOMAIN t
      /\ \A r \in DOMAIN Subtree(t, path) : Subtree(t, path)[r] = t[path \o r]
  BY <1>1, SubtreeDomain
<1>3. /\ \A r : r \in DOMAIN g <=> r \in Path /\ path \o r \in DOMAIN Plain(h, t)
      /\ \A r \in DOMAIN g : g[r] = Plain(h, t)[path \o r]
  BY <1>1, SubtreeDomain
<1>4. \A r : r \in DOMAIN f <=> r \in DOMAIN g
  BY <1>2, <1>3, PlainFacts
<1>5. \A r \in DOMAIN f : f[r] = g[r]
  BY <1>2, <1>3, <1>4, PlainFacts
<1>6. IsFcn(f) /\ IsFcn(g)
  BY TreesAreFcns
<1> HIDE DEF f, g
<1>7. DOMAIN f = DOMAIN g
  BY <1>4
<1>8. f = g
  BY <1>5, <1>6, <1>7, SameFcn
<1> QED
  BY <1>8 DEF f, g

LEMMA PlainWithout ==
  ASSUME NEW h, NEW t, NEW path
  PROVE  Plain(h, Without(t, path)) = Without(Plain(h, t), path)
<1> DEFINE f == Plain(h, Without(t, path))
           g == Without(Plain(h, t), path)
<1>1. /\ \A r : r \in DOMAIN Without(t, path) <=> r \in DOMAIN t /\ ~Seqs!IsPrefix(path, r)
      /\ \A r \in DOMAIN Without(t, path) : Without(t, path)[r] = t[r]
  BY DEF Without, Under
<1>2. /\ \A r : r \in DOMAIN g <=> r \in DOMAIN Plain(h, t) /\ ~Seqs!IsPrefix(path, r)
      /\ \A r \in DOMAIN g : g[r] = Plain(h, t)[r]
  BY DEF Without, Under
<1>3. \A r : r \in DOMAIN f <=> r \in DOMAIN g
  BY <1>1, <1>2, PlainFacts
<1>4. \A r \in DOMAIN f : f[r] = g[r]
  BY <1>1, <1>2, <1>3, PlainFacts
<1>5. IsFcn(f) /\ IsFcn(g)
  BY TreesAreFcns
<1> HIDE DEF f, g
<1>6. DOMAIN f = DOMAIN g
  BY <1>3
<1>7. f = g
  BY <1>4, <1>5, <1>6, SameFcn
<1> QED
  BY <1>7 DEF f, g

LEMMA PlainWith ==
  ASSUME NEW h, NEW t, IsTree(h, t), NEW v, IsTree(h, v), NEW path \in Path
  PROVE  Plain(h, With(t, path, v)) = With(Plain(h, t), path, Plain(h, v))
<1> DEFINE s == With(t, path, v)
           f == Plain(h, s)
           k == Plain(h, t)
           w == Plain(h, v)
           g == With(k, path, w)
<1>1. DOMAIN t \subseteq Path /\ DOMAIN k \subseteq Path
  BY PlainDomain
<1>2. DOMAIN v \subseteq Path /\ DOMAIN w \subseteq Path
  BY PlainDomain
<1>3. IsFcn(f) /\ IsFcn(g)
  BY TreesAreFcns
<1>4. PutInto(s, t, path, v)
  BY <1>1, <1>2, WithDomain
<1>5. PutInto(g, k, path, w)
  BY <1>1, <1>2, WithDomain
<1>6. /\ \A e : e \in DOMAIN f <=> e \in DOMAIN s /\ s[e].kind # "nil"
      /\ \A e \in DOMAIN f : f[e] = PlainLeaf(h, s[e])
  BY PlainFacts
<1>7. /\ \A e : e \in DOMAIN k <=> e \in DOMAIN t /\ t[e].kind # "nil"
      /\ \A e \in DOMAIN k : k[e] = PlainLeaf(h, t[e])
  BY PlainFacts
<1>8. /\ \A e : e \in DOMAIN w <=> e \in DOMAIN v /\ v[e].kind # "nil"
      /\ \A e \in DOMAIN w : w[e] = PlainLeaf(h, v[e])
  BY PlainFacts
<1> HIDE DEF f, g, s, k, w
<1>9. ASSUME NEW r \in DOMAIN f
      PROVE  r \in DOMAIN g /\ f[r] = g[r]
  <2>1. CASE r \in DOMAIN t /\ ~Seqs!IsPrefix(path, r)
    <3>1. s[r] = t[r] /\ r \in DOMAIN k
      BY <1>4, <1>6, <1>7, <1>9, <2>1 DEF PutInto
    <3>2. r \in DOMAIN g /\ g[r] = k[r]
      BY <1>5, <2>1, <3>1 DEF PutInto
    <3> QED
      BY <1>6, <1>7, <1>9, <3>1, <3>2
  <2>2. ASSUME NEW e \in DOMAIN v, r = path \o e
        PROVE  r \in DOMAIN g /\ f[r] = g[r]
    <3>1. s[r] = v[e] /\ e \in DOMAIN w
      BY <1>4, <1>6, <1>8, <1>9, <2>2 DEF PutInto
    <3>2. r \in DOMAIN g /\ g[r] = w[e]
      BY <1>5, <2>2, <3>1 DEF PutInto
    <3> QED
      BY <1>6, <1>8, <1>9, <3>1, <3>2
  <2>3. r \in DOMAIN s
    BY <1>6, <1>9
  <2> QED
    BY <1>4, <2>1, <2>2, <2>3, Zenon DEF PutInto
<1>10. ASSUME NEW r \in DOMAIN g
       PROVE  r \in DOMAIN f
  <2>1. CASE r \in DOMAIN k /\ ~Seqs!IsPrefix(path, r)
    <3>1. r \in DOMAIN s /\ s[r] = t[r] /\ t[r].kind # "nil"
      BY <1>4, <1>7, <2>1 DEF PutInto
    <3> QED
      BY <1>6, <3>1
  <2>2. ASSUME NEW e \in DOMAIN w, r = path \o e
        PROVE  r \in DOMAIN f
    <3>1. r \in DOMAIN s /\ s[r] = v[e] /\ v[e].kind # "nil"
      BY <1>4, <1>8, <2>2 DEF PutInto
    <3> QED
      BY <1>6, <3>1
  <2> QED
    BY <1>5, <1>10, <2>1, <2>2, Zenon DEF PutInto
<1>11. DOMAIN f = DOMAIN g
  BY <1>9, <1>10
<1>12. f = g
  BY <1>3, <1>9, <1>11, SameFcn
<1> QED
  BY <1>12 DEF f, g, s, k, w

-----------------------------------------------------------------------------
(* What append and the operations do to plain values.                      *)

\* The items of a list that was appended to.
LEMMA AppendedItems ==
  ASSUME NEW h \in Heaps, NEW l \in Leaves(h), l.kind = "list", NEW v \in Scalars
  PROVE  LET r == AppendTo(h, l, v) IN Items(r.heap, r.list) = Append(Items(h, l), v)
<1> DEFINE S == Scalars \cup {Unset}
           r == AppendTo(h, l, v)
           w == Append(Items(h, l), v)
           n == l.len + 1
<1>1. l.array \in DOMAIN h /\ l.len \in 0 .. Len(h[l.array])
  BY LeafFacts
<1>2. /\ h[l.array] \in Seq(S) /\ Len(h[l.array]) \in Nat
  BY <1>1, HeapFacts
<1>3. v \in S
  OBVIOUS
<1>4. /\ Items(h, l) \in Seq(S) /\ Len(Items(h, l)) = l.len
      /\ \A i \in 1 .. l.len : Items(h, l)[i] = h[l.array][i]
  BY ItemsFacts
<1> HIDE DEF S
<1>5. /\ w \in Seq(S) /\ Len(w) = n
      /\ \A i \in 1 .. l.len : w[i] = h[l.array][i]
      /\ w[n] = v
  BY <1>3, <1>4, AppendProperties
<1> HIDE DEF w
<1>6. CASE l.len < Len(h[l.array])
  <2> DEFINE s == [h[l.array] EXCEPT ![n] = v]
             g == [h EXCEPT ![l.array] = s]
  <2>1. r.heap = g /\ r.list = Slice(l.array, n, l.elem)
    BY <1>6 DEF AppendTo
  <2>2. g[l.array] = s
    BY <1>1
  <2>3. Items(r.heap, r.list) = SubSeq(s, 1, n)
    <3> HIDE DEF r, g, s, n
    <3>1. r.list.array = l.array /\ r.list.len = n
      BY <2>1 DEF Slice
    <3> QED
      BY <2>1, <2>2, <3>1, Zenon DEF Items
  <2>4. n \in 1 .. Len(h[l.array])
    BY <1>1, <1>2, <1>6
  <2>5. /\ s \in Seq(S) /\ Len(s) = Len(h[l.array])
        /\ \A j \in 1 .. Len(h[l.array]) : s[j] = IF j = n THEN v ELSE h[l.array][j]
    BY <1>2, <1>3, <2>4, ExceptSeq
  <2> HIDE DEF s, g, r
  <2>6. /\ SubSeq(s, 1, n) \in Seq(S) /\ Len(SubSeq(s, 1, n)) = n
        /\ \A i \in 1 .. n : SubSeq(s, 1, n)[i] = s[i]
    <3> HIDE DEF n
    <3>1. n \in Nat /\ n <= Len(s) /\ Len(s) \in Nat
      BY <1>2, <2>4, <2>5
    <3> QED
      BY <2>5, <3>1, SMT
  <2>7. ASSUME NEW i \in 1 .. n
        PROVE  SubSeq(s, 1, n)[i] = w[i]
    <3>1. i \in 1 .. Len(h[l.array]) /\ (i = n \/ i \in 1 .. l.len)
      BY <1>1, <1>2, <2>4
    <3> QED
      BY <1>1, <1>5, <2>5, <2>6, <3>1, Zenon
  <2>8. SubSeq(s, 1, n) = w
    BY <1>5, <2>6, <2>7, SeqEqual
  <2>9. Items(r.heap, r.list) = w
    BY <2>3, <2>8
  <2> QED
    BY <2>9 DEF r, w
<1>7. CASE ~(l.len < Len(h[l.array]))
  <2> DEFINE m == 2 * l.len - Len(w)
             f == [i \in 1 .. m |-> Unset]
             s == w \o f
  <2>1. r.heap = Append(h, s) /\ r.list = Slice(Len(h) + 1, n, l.elem)
    BY <1>7, Zenon DEF AppendTo, Padded, w
  <2>2. m \in Int
    BY <1>1, <1>2, <1>5
  <2> HIDE DEF m
  <2>3. f \in Seq(S) /\ Len(f) \in Nat
    <3>1. CASE m \in Nat
      BY <3>1, SMT DEF S
    <3>2. CASE m \notin Nat
      <4>1. 1 .. m = {}
        BY <2>2, <3>2
      <4>2. f = <<>>
        BY <4>1, SMT
      <4> QED
        BY <4>2, EmptySeq, Zenon
    <3> QED
      BY <3>1, <3>2, Zenon
  <2> HIDE DEF f
  <2>4. /\ s \in Seq(S) /\ Len(s) = Len(w) + Len(f)
        /\ \A i \in 1 .. Len(w) + Len(f) : s[i] = IF i <= Len(w) THEN w[i] ELSE f[i - Len(w)]
    BY <1>5, <2>3, ConcatProperties, Zenon
  <2> HIDE DEF s
  <2>5. Append(h, s)[Len(h) + 1] = s
    BY <2>4, NewArray DEF S
  <2> HIDE DEF r
  <2>6. Items(r.heap, r.list) = SubSeq(s, 1, n)
    <3> HIDE DEF n
    <3>1. r.list.array = Len(h) + 1 /\ r.list.len = n
      BY <2>1 DEF Slice
    <3> QED
      BY <2>1, <2>5, <3>1, Zenon DEF Items
  <2>7. n \in Nat /\ n <= Len(s) /\ Len(s) \in Nat
    BY <1>1, <1>2, <1>5, <2>3, <2>4
  <2>8. /\ SubSeq(s, 1, n) \in Seq(S) /\ Len(SubSeq(s, 1, n)) = n
        /\ \A i \in 1 .. n : SubSeq(s, 1, n)[i] = s[i]
    <3> HIDE DEF n
    <3> QED
      BY <2>4, <2>7, SMT
  <2>9. \A i \in 1 .. n : SubSeq(s, 1, n)[i] = w[i]
    <3> HIDE DEF n
    <3> QED
      BY <1>5, <2>3, <2>4, <2>7, <2>8
  <2>10. SubSeq(s, 1, n) = w
    BY <1>5, <2>8, <2>9, SeqEqual, Zenon
  <2>11. Items(r.heap, r.list) = w
    BY <2>6, <2>10
  <2> QED
    BY <2>11 DEF r, w
<1> QED
  BY <1>6, <1>7

\* Nothing is in a member that is no map.
LEMMA NothingUnder ==
  ASSUME NEW h, NEW t, IsTree(h, t), NEW path \in DOMAIN t, t[path] # AMap,
         NEW e \in DOMAIN t, Seqs!IsPrefix(path, e)
  PROVE  e = path
<1> DEFINE Inside == {r \in DOMAIN t : Seqs!IsPrefix(path, r) /\ r # path}
           T == {Len(r) : r \in Inside}
<1>1. DOMAIN t \subseteq Path /\ path \in Path
  BY DEF IsTree, Path
<1> SUFFICES ASSUME e # path PROVE FALSE
  OBVIOUS
<1>2. T \subseteq Nat /\ T # {}
  <2>1. \A r \in Inside : Len(r) \in Nat
    BY <1>1, LenProperties DEF Path
  <2>2. e \in Inside
    OBVIOUS
  <2> QED
    BY <2>1, <2>2, Zenon
<1>3. PICK m \in T : \A k \in T : m <= k
  <2> HIDE DEF T
  <2> QED
    BY <1>2, LeastNatural, Zenon
<1>4. PICK r \in Inside : m = Len(r)
  BY <1>3
<1>5. r \in Path /\ r \in DOMAIN t /\ Seqs!IsPrefix(path, r) /\ r # path
  BY <1>1, <1>4
<1>6. /\ Len(path) \in Nat /\ Len(r) \in Nat /\ Len(path) <= Len(r)
      /\ \A i \in 1 .. Len(path) : path[i] = r[i]
  BY <1>1, <1>5, PrefixFacts, LenProperties DEF Path
<1>7. Len(path) < Len(r)
  <2> SUFFICES ASSUME Len(path) = Len(r) PROVE FALSE
    BY <1>6
  <2>1. path = r
    BY <1>1, <1>5, <1>6, SeqEqual DEF Path
  <2> QED
    BY <1>5, <2>1
<1>8. r # <<>>
  BY <1>6, <1>7, EmptySeq
<1>9. /\ parentPath(r) \in Path /\ Len(parentPath(r)) = Len(r) - 1
      /\ \A i \in 1 .. Len(r) - 1 : parentPath(r)[i] = r[i]
  BY <1>5, <1>8, ParentFacts
<1>10. parentPath(r) \in DOMAIN t /\ t[parentPath(r)] = AMap
  BY <1>5, <1>8 DEF IsTree
<1>11. Seqs!IsPrefix(path, parentPath(r))
  <2>1. Len(path) <= Len(parentPath(r))
    BY <1>6, <1>7, <1>9
  <2>2. \A i \in 1 .. Len(path) : path[i] = parentPath(r)[i]
    BY <1>6, <1>7, <1>9
  <2> QED
    BY <1>1, <1>9, <2>1, <2>2, PrefixFacts
<1>12. Len(parentPath(r)) \in T
  BY <1>10, <1>11
<1>13. Len(r) <= Len(parentPath(r))
  BY <1>3, <1>4, <1>12
<1> QED
  BY <1>6, <1>9, <1>13

\* A list with room has its array for itself: no other list of the tree has it, nor
\* a list of a value.
Private(h, t) ==
  \A p \in ListsOf(t) : t[p].len < Len(h[t[p].array]) =>
    /\ \A r \in ListsOf(t) : t[r].array = t[p].array => r = p
    /\ \A o \in Operations : \A r \in ListsOf(o.value) : o.value[r].array # t[p].array

\* Adding a value to a tree is adding its plain value to the plain tree.
LEMMA AddMatches ==
  ASSUME NEW h \in Heaps, NEW t, IsTree(h, t), NEW v, IsTree(h, v), NEW path \in Path,
         Private(h, t)
  PROVE  LET r == treeAdd(h, t, path, v) IN
         /\ r.ok <=> CanAdd(Plain(h, t), path, Plain(h, v))
         /\ r.ok => Plain(r.heap, r.tree) = ShouldAdd(Plain(h, t), path, Plain(h, v))
<1> DEFINE r == treeAdd(h, t, path, v)
           k == Plain(h, t)
           w == Plain(h, v)
           l == t[path]
           onto == Exists(t, path) /\ l.kind = "list"
           Match == /\ r.ok <=> CanAdd(k, path, w)
                    /\ r.ok => Plain(r.heap, r.tree) = ShouldAdd(k, path, w)
<1>1. <<>> \in DOMAIN v /\ v[<<>>] \in Leaves(h)
  BY DEF IsTree
<1>2. /\ <<>> \in DOMAIN w <=> Kind(v) # "nil"
      /\ Kind(v) # "nil" => Kind(w) = Kind(v)
  BY <1>1, PlainFacts DEF Kind
<1>3. /\ HasMap(k, parentPath(path)) <=> HasMap(t, parentPath(path))
      /\ path \in DOMAIN k <=> Exists(t, path)
      /\ path \in DOMAIN k => k[path] = PlainLeaf(h, l) /\ k[path].kind = l.kind
  BY PlainFinds, PlainFacts
<1>13. Kind(v) # "nil" /\ onto => (Accepts(k[path], w) <=> Accepts(l, v))
  <2>1. ASSUME Kind(v) # "nil", onto
        PROVE  Accepts(k[path], w) <=> Accepts(l, v)
    <3>1. k[path].elem = l.elem
      BY <1>3, <2>1 DEF PlainLeaf
    <3>2. w[<<>>] = PlainLeaf(h, v[<<>>])
      BY <1>2, <2>1, PlainFacts
    <3>3. Kind(v) = "scalar" => w[<<>>] = v[<<>>]
      BY <3>2 DEF PlainLeaf, Kind
    <3> HIDE DEF k, w, l
    <3> QED
      BY <1>2, <2>1, <3>1, <3>3 DEF Accepts
  <2> QED
    BY <2>1
<1>4. Failure(h).ok = FALSE /\ \A g, u : /\ Result(g, u).ok = TRUE /\ Result(g, u).heap = g
                                         /\ Result(g, u).tree = u
  BY DEF Failure, Result
<1>5. CASE path = <<>> /\ Kind(v) = "map"
  <2>1. r = Result(h, v)
    BY <1>5 DEF treeAdd
  <2>2. CanAdd(k, path, w) /\ ShouldAdd(k, path, w) = w
    BY <1>2, <1>5 DEF CanAdd, ShouldAdd
  <2> HIDE DEF r
  <2>3. Match
    BY <1>4, <2>1, <2>2
  <2> QED
    BY <2>3 DEF r
<1>6. CASE path = <<>> /\ Kind(v) # "map"
  <2>1. r = Failure(h)
    BY <1>6 DEF treeAdd
  <2>2. ~CanAdd(k, path, w)
    BY <1>2, <1>6 DEF CanAdd
  <2> HIDE DEF r
  <2>3. Match
    BY <1>4, <2>1, <2>2
  <2> QED
    BY <2>3 DEF r
<1>7. CASE path # <<>> /\ (Kind(v) = "nil" \/ ~HasMap(t, parentPath(path)))
  <2>1. r = Failure(h)
    BY <1>7 DEF treeAdd
  <2>2. ~CanAdd(k, path, w)
    BY <1>2, <1>3, <1>7 DEF CanAdd
  <2> HIDE DEF r
  <2>3. Match
    BY <1>4, <2>1, <2>2
  <2> QED
    BY <2>3 DEF r
<1>8. CASE path # <<>> /\ HasMap(t, parentPath(path)) /\ Kind(v) # "nil" /\ ~onto
  <2>1. r = Result(h, With(t, path, v))
    BY <1>8 DEF treeAdd
  <2>2. ~(path \in DOMAIN k /\ k[path].kind = "list")
    BY <1>3, <1>8
  <2>3. CanAdd(k, path, w)
    BY <1>2, <1>3, <1>8, <2>2 DEF CanAdd
  <2>4. ShouldAdd(k, path, w) = With(k, path, w)
    BY <1>8, <2>2 DEF ShouldAdd
  <2>5. Plain(h, With(t, path, v)) = With(k, path, w)
    BY PlainWith
  <2> HIDE DEF r
  <2>6. Match
    BY <1>4, <2>1, <2>3, <2>4, <2>5
  <2> QED
    BY <2>6 DEF r
<1>9. CASE /\ path # <<>> /\ HasMap(t, parentPath(path)) /\ Kind(v) # "nil" /\ onto
           /\ ~Accepts(l, v)
  <2>1. r = Failure(h)
    BY <1>9 DEF treeAdd
  <2>2. path \in DOMAIN k /\ k[path].kind = "list"
    BY <1>3, <1>9
  <2>3. ~CanAdd(k, path, w)
    BY <1>13, <1>9, <2>2 DEF CanAdd
  <2> HIDE DEF r
  <2>4. Match
    BY <1>4, <2>1, <2>3
  <2> QED
    BY <2>4 DEF r
<1>10. CASE /\ path # <<>> /\ HasMap(t, parentPath(path)) /\ Kind(v) # "nil" /\ onto
            /\ Accepts(l, v)
  <2> DEFINE x == v[<<>>].value
             new == AppendTo(h, l, x)
             g == new.heap
             c == new.list
             u == With(t, path, Leaf(c))
  <2>1. r = Result(g, u)
    BY <1>10 DEF treeAdd
  <2>2. path \in DOMAIN t /\ l \in Leaves(h) /\ l.kind = "list"
    BY <1>10 DEF Exists, IsTree
  <2>3. x \in Scalars
    BY <1>1, <1>10, LeafFacts DEF Accepts, Kind
  <2>4. /\ g \in Heaps /\ Kept(h, g)
        /\ c \in Leaves(g) /\ c.kind = "list" /\ c.elem = l.elem
        /\ \A a \in DOMAIN h : g[a] # h[a] => a = l.array /\ l.len < Len(h[a])
        /\ c.array \in DOMAIN h => c.array = l.array /\ l.len < Len(h[l.array])
    BY <2>2, <2>3, AppendToFacts
  <2>5. Items(g, c) = Append(Items(h, l), x)
    BY <2>2, <2>3, AppendedItems
  <2> HIDE DEF new
  <2>6. path \in DOMAIN k /\ k[path] = [kind |-> "list", elem |-> l.elem, items |-> Items(h, l)]
    BY <1>3, <1>10 DEF PlainLeaf
  <2>7. w[<<>>].value = x
    <3>1. w[<<>>] = PlainLeaf(h, v[<<>>])
      BY <1>2, <1>10, PlainFacts
    <3> QED
      BY <1>10, <3>1 DEF PlainLeaf, Accepts, Kind
  <2>8. CanAdd(k, path, w)
    BY <1>2, <1>3, <1>10, <1>13 DEF CanAdd
  <2> DEFINE y == [kind |-> "list", elem |-> l.elem, items |-> Append(Items(h, l), x)]
             z == [k EXCEPT ![path] = y]
  <2>9. ShouldAdd(k, path, w) = z
    <3>1. ShouldAdd(k, path, w) = [k EXCEPT ![path].items = Append(@, w[<<>>].value)]
      <4>1. path # <<>> /\ path \in DOMAIN k /\ k[path].kind = "list"
        BY <1>10, <2>6
      <4> QED
        BY <4>1 DEF ShouldAdd
    <3> HIDE DEF k, w, x
    <3> DEFINE f == [k EXCEPT ![path].items = Append(@, w[<<>>].value)]
    <3>2. IsFcn(f) /\ DOMAIN f = DOMAIN k /\ \A e \in DOMAIN k : e # path => f[e] = k[e]
      BY Zenon DEF IsFcn
    <3>3. f[path] = [k[path] EXCEPT !.items = Append(@, x)]
      BY <2>6, <2>7
    <3>4. f[path] = y
      BY <2>6, <3>3
    <3>5. IsFcn(z) /\ DOMAIN z = DOMAIN k /\ z[path] = y
          /\ \A e \in DOMAIN k : e # path => z[e] = k[e]
      BY <2>6, Zenon DEF IsFcn
    <3> HIDE DEF f, y, z
    <3>6. f = z
      BY <3>2, <3>4, <3>5, SameFcn
    <3> QED
      BY <3>1, <3>6 DEF f
  <2>10. PutInto(u, t, path, Leaf(c)) /\ IsFcn(u)
    <3>1. DOMAIN t \subseteq Path /\ DOMAIN Leaf(c) \subseteq Path
      BY EmptySeq, PlainDomain DEF Leaf, Path
    <3> QED
      BY <3>1, WithDomain, TreesAreFcns
  <2>11. path \o <<>> = path
    BY UnderFacts, EmptySeq DEF Path
  <2>12. Seqs!IsPrefix(path, path) /\ l # AMap
    <3>1. <<>> \in Path
      BY EmptySeq DEF Path
    <3>2. Seqs!IsPrefix(path, path \o <<>>)
      BY <3>1, UnderFacts, Zenon
    <3> QED
      BY <2>2, <2>11, <3>2 DEF AMap
  <2>13. \A e \in DOMAIN t : Seqs!IsPrefix(path, e) => e = path
    BY <2>2, <2>12, NothingUnder
  <2>14. /\ \A e : e \in DOMAIN u <=> e \in DOMAIN t
         /\ u[path] = c
         /\ \A e \in DOMAIN t : e # path => u[e] = t[e]
    <3>1. DOMAIN Leaf(c) = {<<>>} /\ Leaf(c)[<<>>] = c
      BY DEF Leaf
    <3> HIDE DEF u
    <3>2. path \in DOMAIN u /\ u[path] = c
      BY <2>10, <2>11, <3>1 DEF PutInto
    <3>3. \A e \in DOMAIN t : e # path => e \in DOMAIN u /\ u[e] = t[e]
      BY <2>10, <2>13 DEF PutInto
    <3>4. \A e \in DOMAIN u : e \in DOMAIN t
      BY <2>2, <2>10, <2>11, <3>1 DEF PutInto
    <3> QED
      BY <2>2, <3>2, <3>3, <3>4
  <2>15. ASSUME NEW e \in DOMAIN k, e # path
         PROVE  PlainLeaf(g, t[e]) = PlainLeaf(h, t[e])
    <3>1. e \in DOMAIN t /\ t[e] \in Leaves(h)
      BY <2>15, PlainFacts DEF IsTree
    <3>2. CASE t[e].kind = "list"
      <4>1. t[e].array \in DOMAIN h
        BY <3>1, <3>2, LeafFacts
      <4>2. ~(t[e].array = l.array /\ l.len < Len(h[l.array]))
        <5>1. path \in ListsOf(t) /\ e \in ListsOf(t)
          BY <2>2, <3>1, <3>2 DEF ListsOf
        <5> QED
          BY <2>15, <5>1 DEF Private
      <4>3. g[t[e].array] = h[t[e].array]
        BY <2>4, <4>1, <4>2
      <4> QED
        BY <4>3 DEF PlainLeaf, Items
    <3>3. CASE t[e].kind # "list"
      BY <3>3 DEF PlainLeaf
    <3> QED
      BY <3>2, <3>3
  <2> HIDE DEF u
  <2>16. /\ \A e : e \in DOMAIN Plain(g, u) <=> e \in DOMAIN u /\ u[e].kind # "nil"
         /\ \A e \in DOMAIN Plain(g, u) : Plain(g, u)[e] = PlainLeaf(g, u[e])
    BY PlainFacts
  <2>17. /\ \A e : e \in DOMAIN k <=> e \in DOMAIN t /\ t[e].kind # "nil"
         /\ \A e \in DOMAIN k : k[e] = PlainLeaf(h, t[e])
    BY PlainFacts
  <2>18. PlainLeaf(g, c) = y
    BY <2>4, <2>5 DEF PlainLeaf
  <2> HIDE DEF y
  <2>19. DOMAIN z = DOMAIN k /\ IsFcn(z) /\ z[path] = y /\ \A e \in DOMAIN k : e # path => z[e] = k[e]
    BY <2>6 DEF IsFcn
  <2> HIDE DEF k, z
  <2>20. \A e : e \in DOMAIN Plain(g, u) <=> e \in DOMAIN z
    BY <2>2, <2>4, <2>14, <2>16, <2>17, <2>19
  <2>21. ASSUME NEW e \in DOMAIN Plain(g, u)
         PROVE  Plain(g, u)[e] = z[e]
    <3>1. CASE e = path
      BY <2>14, <2>16, <2>18, <2>19, <2>21, <3>1
    <3>2. CASE e # path
      BY <2>14, <2>15, <2>16, <2>17, <2>19, <2>20, <2>21, <3>2
    <3> QED
      BY <3>1, <3>2
  <2>22. Plain(g, u) = z
    <3>1. IsFcn(Plain(g, u))
      BY TreesAreFcns
    <3>2. DOMAIN Plain(g, u) = DOMAIN z
      BY <2>20
    <3> QED
      BY <2>19, <2>21, <3>1, <3>2, SameFcn
  <2> HIDE DEF r, g, w
  <2>23. Match
    BY <1>4, <2>1, <2>8, <2>9, <2>22
  <2> QED
    BY <2>23 DEF r, k, w
<1>11. Match
  BY <1>5, <1>6, <1>7, <1>8, <1>9, <1>10
<1> QED
  BY <1>11

\* A list with room of the tree or of the value, but under the path, has an array that
\* the other has not.
Disjoint(h, t, v, path) ==
  \A p \in ListsOf(t), e \in ListsOf(v) :
    ~Seqs!IsPrefix(path, p) /\ t[p].array = v[e].array =>
      ~(t[p].len < Len(h[t[p].array])) /\ ~(v[e].len < Len(h[v[e].array]))

LEMMA PrivateKept ==
  ASSUME NEW h, NEW g, Kept(h, g), NEW t, IsTree(h, t), Private(h, t)
  PROVE  Private(g, t)
<1>1. ASSUME NEW p \in ListsOf(t)
      PROVE  Len(g[t[p].array]) = Len(h[t[p].array])
  <2>1. t[p] \in Leaves(h) /\ t[p].kind = "list"
    BY DEF IsTree, ListsOf
  <2> QED
    BY <2>1, LeafFacts DEF Kept
<1> QED
  BY <1>1 DEF Private

LEMMA NoListsPrivate ==
  ASSUME NEW h, NEW t, ListsOf(t) = {}
  PROVE  Private(h, t) /\ \A v, path : Disjoint(h, t, v, path) /\ Disjoint(h, v, t, path)
BY DEF Private, Disjoint

LEMMA PrivateWith ==
  ASSUME NEW h, NEW t, IsTree(h, t), NEW v, IsTree(h, v), NEW path \in Path,
         Private(h, t), Private(h, v), Disjoint(h, t, v, path)
  PROVE  Private(h, With(t, path, v))
<1> DEFINE u == With(t, path, v)
           Room(l) == l.len < Len(h[l.array])
<1>1. DOMAIN t \subseteq Path /\ DOMAIN v \subseteq Path
  BY PlainDomain
<1>2. PutInto(u, t, path, v)
  BY <1>1, WithDomain
<1> HIDE DEF u
<1>3. \A p \in ListsOf(u) :
        \/ p \in ListsOf(t) /\ ~Seqs!IsPrefix(path, p) /\ u[p] = t[p]
        \/ \E e \in ListsOf(v) : p = path \o e /\ u[p] = v[e]
  <2> SUFFICES ASSUME NEW p \in ListsOf(u)
               PROVE  \/ p \in ListsOf(t) /\ ~Seqs!IsPrefix(path, p) /\ u[p] = t[p]
                      \/ \E e \in ListsOf(v) : p = path \o e /\ u[p] = v[e]
    BY Zenon
  <2>1. p \in DOMAIN u /\ u[p].kind = "list"
    BY DEF ListsOf
  <2>2. CASE p \in DOMAIN t /\ ~Seqs!IsPrefix(path, p)
    BY <1>2, <2>1, <2>2 DEF PutInto, ListsOf
  <2>3. ASSUME NEW e \in DOMAIN v, p = path \o e
        PROVE  \E d \in ListsOf(v) : p = path \o d /\ u[p] = v[d]
    <3>1. u[p] = v[e]
      BY <1>2, <2>3 DEF PutInto
    <3>2. e \in ListsOf(v)
      BY <2>1, <3>1 DEF ListsOf
    <3> QED
      BY <2>3, <3>1, <3>2, Zenon
  <2> QED
    BY <1>2, <2>1, <2>2, <2>3, Zenon DEF PutInto
<1> SUFFICES Private(h, u)
  BY DEF u
<1>4. SUFFICES ASSUME NEW p \in ListsOf(u), Room(u[p])
               PROVE  /\ \A r \in ListsOf(u) : u[r].array = u[p].array => r = p
                      /\ \A o \in Operations : \A r \in ListsOf(o.value) :
                           o.value[r].array # u[p].array
  BY DEF Private
<1>5. CASE p \in ListsOf(t) /\ ~Seqs!IsPrefix(path, p) /\ u[p] = t[p]
  <2>1. ASSUME NEW r \in ListsOf(u), u[r].array = u[p].array
        PROVE  r = p
    <3>1. CASE r \in ListsOf(t) /\ u[r] = t[r]
      BY <1>4, <1>5, <2>1, <3>1 DEF Private
    <3>2. ASSUME NEW e \in ListsOf(v), u[r] = v[e]
          PROVE  FALSE
      BY <1>4, <1>5, <2>1, <3>2 DEF Disjoint
    <3> QED
      BY <1>3, <3>1, <3>2
  <2> QED
    BY <1>4, <1>5, <2>1 DEF Private
<1>6. ASSUME NEW d \in ListsOf(v), p = path \o d, u[p] = v[d]
      PROVE  /\ \A r \in ListsOf(u) : u[r].array = u[p].array => r = p
             /\ \A o \in Operations : \A r \in ListsOf(o.value) :
                  o.value[r].array # u[p].array
  <2>1. ASSUME NEW r \in ListsOf(u), u[r].array = u[p].array
        PROVE  r = p
    <3>1. CASE r \in ListsOf(t) /\ ~Seqs!IsPrefix(path, r) /\ u[r] = t[r]
      BY <1>4, <1>6, <2>1, <3>1 DEF Disjoint
    <3>2. ASSUME NEW e \in ListsOf(v), r = path \o e, u[r] = v[e]
          PROVE  r = p
      <4>1. e = d
        BY <1>4, <1>6, <2>1, <3>2 DEF Private
      <4> QED
        BY <1>6, <3>2, <4>1
    <3> QED
      BY <1>3, <3>1, <3>2
  <2> QED
    BY <1>4, <1>6, <2>1 DEF Private
<1> QED
  BY <1>3, <1>5, <1>6, Zenon

\* What keeps its arrays for itself still does when such a value is added.
LEMMA AddPrivate ==
  ASSUME NEW h \in Heaps, NEW t, IsTree(h, t), NEW v, IsTree(h, v), NEW path \in Path,
         \A o \in Operations : IsTree(h, o.value),
         Private(h, t), Private(h, v), Disjoint(h, t, v, path)
  PROVE  LET r == treeAdd(h, t, path, v) IN Private(r.heap, r.tree)
<1> DEFINE r == treeAdd(h, t, path, v)
           l == t[path]
           x == v[<<>>].value
           new == AppendTo(h, l, x)
           onto == Exists(t, path) /\ l.kind = "list"
           u == With(t, path, Leaf(new.list))
<1>1. Private(Failure(h).heap, Failure(h).tree)
  <2>1. ListsOf(Failure(h).tree) = {}
    BY DEF Failure, Leaf, AMap, ListsOf
  <2> QED
    BY <2>1, NoListsPrivate
<1>2. \/ r = Failure(h)
      \/ r = Result(h, v)
      \/ r = Result(h, With(t, path, v))
      \/ onto /\ Accepts(l, v) /\ r = Result(new.heap, u)
  BY DEF treeAdd
<1>3. \A g, s : Result(g, s).heap = g /\ Result(g, s).tree = s
  BY DEF Result
<1>4. ASSUME onto, Accepts(l, v)
      PROVE  Private(new.heap, u)
  <2> DEFINE g == new.heap
             c == new.list
  <2>1. path \in DOMAIN t /\ path \in ListsOf(t) /\ l \in Leaves(h) /\ l.kind = "list"
    BY <1>4 DEF Exists, IsTree, ListsOf
  <2>2. x \in Scalars
    <3>1. v[<<>>] \in Leaves(h)
      BY DEF IsTree
    <3> QED
      BY <1>4, <3>1, LeafFacts DEF Accepts, Kind
  <2>3. /\ g \in Heaps /\ Kept(h, g)
        /\ c \in Leaves(g) /\ c.kind = "list"
        /\ c.array \in DOMAIN h => c.array = l.array /\ l.len < Len(h[l.array])
    BY <2>1, <2>2, AppendToFacts
  <2> HIDE DEF new
  <2>4. IsTree(g, Leaf(c)) /\ ListsOf(Leaf(c)) = {<<>>} /\ Leaf(c)[<<>>] = c
    BY <2>3, LeafTree DEF ListsOf
  <2>5. IsTree(g, t) /\ Private(g, t)
    BY <2>3, KeptTree, PrivateKept
  <2>6. Private(g, Leaf(c))
    <3>1. ASSUME NEW o \in Operations, NEW e \in ListsOf(o.value)
          PROVE  o.value[e].array # c.array
      <4>1. o.value[e] \in Leaves(h) /\ o.value[e].kind = "list"
        BY DEF IsTree, ListsOf
      <4>2. o.value[e].array \in DOMAIN h
        BY <4>1, LeafFacts
      <4> QED
        BY <2>1, <2>3, <4>2 DEF Private
    <3> QED
      BY <2>4, <3>1 DEF Private
  <2>7. Seqs!IsPrefix(path, path)
    BY PrefixFacts, LenProperties DEF Path
  <2>8. Disjoint(g, t, Leaf(c), path)
    <3>1. ASSUME NEW p \in ListsOf(t), ~Seqs!IsPrefix(path, p)
          PROVE  t[p].array # c.array
      <4>1. t[p] \in Leaves(h) /\ t[p].kind = "list"
        BY DEF IsTree, ListsOf
      <4>2. t[p].array \in DOMAIN h
        BY <4>1, LeafFacts
      <4> QED
        BY <2>1, <2>3, <2>7, <3>1, <4>2 DEF Private
    <3> QED
      BY <2>4, <3>1 DEF Disjoint
  <2>9. Private(g, u)
    BY <2>3, <2>4, <2>5, <2>6, <2>8, PrivateWith
  <2> QED
    BY <2>9
<1>5. Private(h, With(t, path, v))
  BY PrivateWith
<1> HIDE DEF r, u, new, onto
<1>6. Private(r.heap, r.tree)
  BY <1>1, <1>2, <1>3, <1>4, <1>5
<1> QED
  BY <1>6 DEF r

\* A clone has the value of what was cloned; of a list it is a new array without room.
LEMMA CloneMatches ==
  ASSUME NEW h \in Heaps, NEW v, IsTree(h, v)
  PROVE  LET c == cloneLeaf(h, v) IN
         /\ Kind(v) # "list" => c.heap = h /\ c.value = v
         /\ Kind(v) = "list" =>
              \A e \in ListsOf(c.value) :
                /\ c.value[e].array \notin DOMAIN h
                /\ ~(c.value[e].len < Len(c.heap[c.value[e].array]))
         /\ Kind(v) = "list" /\ DOMAIN v = {<<>>} => Plain(c.heap, c.value) = Plain(h, v)
<1> DEFINE l == v[<<>>]
           s == Items(h, l)
           g == Append(h, s)
           b == Slice(Len(h) + 1, l.len, l.elem)
           c == cloneLeaf(h, v)
<1>1. l \in Leaves(h)
  BY DEF IsTree
<1>2. CASE l.kind # "list"
  BY <1>2 DEF cloneLeaf, Kind
<1>3. CASE l.kind = "list"
  <2>1. c.heap = g /\ c.value = Leaf(b)
    BY <1>3 DEF cloneLeaf, Kind
  <2>2. s \in Seq(Scalars \cup {Unset}) /\ Len(s) = l.len /\ l.len \in Nat
    BY <1>1, <1>3, ItemsFacts, LeafFacts
  <2>3. /\ b.kind = "list" /\ b.array = Len(h) + 1 /\ b.len = l.len
        /\ b.elem = l.elem
    BY DEF Slice
  <2>4. DOMAIN Leaf(b) = {<<>>} /\ Leaf(b)[<<>>] = b /\ IsFcn(Leaf(b))
    BY DEF Leaf, IsFcn
  <2> HIDE DEF s, b, c
  <2>5. Len(h) + 1 \notin DOMAIN h /\ g[Len(h) + 1] = s
    BY <2>2, NewArray
  <2> HIDE DEF g
  <2>6. \A e \in ListsOf(c.value) : /\ c.value[e].array \notin DOMAIN h
                                    /\ ~(c.value[e].len < Len(c.heap[c.value[e].array]))
    BY <2>1, <2>2, <2>3, <2>4, <2>5 DEF ListsOf
  <2>7. ASSUME DOMAIN v = {<<>>}
        PROVE  Plain(c.heap, c.value) = Plain(h, v)
    <3>1. SubSeq(s, 1, Len(s)) = s
      BY <2>2, SubSeqFull
    <3>2. Items(g, b) = s
      BY <2>2, <2>3, <2>5, <3>1 DEF Items
    <3>3. PlainLeaf(g, b) = PlainLeaf(h, l)
      BY <1>3, <2>3, <3>2 DEF PlainLeaf, s
    <3>4. \A e : e \in DOMAIN Plain(g, Leaf(b)) <=> e = <<>>
      BY <2>3, <2>4, PlainFacts
    <3>5. \A e : e \in DOMAIN Plain(h, v) <=> e = <<>>
      BY <1>3, <2>7, PlainFacts
    <3>6. Plain(g, Leaf(b))[<<>>] = Plain(h, v)[<<>>]
      BY <2>4, <3>3, <3>4, <3>5, PlainFacts
    <3>7. IsFcn(Plain(g, Leaf(b))) /\ IsFcn(Plain(h, v))
      BY TreesAreFcns
    <3>8. DOMAIN Plain(g, Leaf(b)) = DOMAIN Plain(h, v)
      BY <3>4, <3>5
    <3>9. \A e \in DOMAIN Plain(g, Leaf(b)) : Plain(g, Leaf(b))[e] = Plain(h, v)[e]
      BY <3>4, <3>6
    <3>10. Plain(g, Leaf(b)) = Plain(h, v)
      BY <3>7, <3>8, <3>9, SameFcn
    <3> QED
      BY <2>1, <3>10
  <2>8. /\ Kind(v) # "list" => c.heap = h /\ c.value = v
        /\ Kind(v) = "list" =>
             \A e \in ListsOf(c.value) :
               /\ c.value[e].array \notin DOMAIN h
               /\ ~(c.value[e].len < Len(c.heap[c.value[e].array]))
        /\ Kind(v) = "list" /\ DOMAIN v = {<<>>} => Plain(c.heap, c.value) = Plain(h, v)
    BY <1>3, <2>6, <2>7 DEF Kind
  <2> QED
    BY <2>8 DEF c
<1> QED
  BY <1>2, <1>3

\* A list has no members: its subtree is itself.
LEMMA ListSubtree ==
  ASSUME NEW h, NEW t, IsTree(h, t), NEW path \in DOMAIN t, t[path].kind = "list"
  PROVE  DOMAIN Subtree(t, path) = {<<>>}
<1> DEFINE s == Subtree(t, path)
<1>1. IsTree(h, s) /\ s[<<>>] = t[path] /\ s[<<>>] # AMap
  BY SubtreeFacts DEF AMap
<1>2. <<>> \in DOMAIN s /\ DOMAIN s \subseteq Path
  BY <1>1 DEF IsTree, Path
<1> HIDE DEF s
<1>3. ASSUME NEW e \in DOMAIN s
      PROVE  e = <<>>
  <2>1. <<>> \in Path /\ e \in Path /\ Len(<<>>) = 0 /\ Len(e) \in Nat
    BY <1>2, EmptySeq, LenProperties DEF Path
  <2>2. Seqs!IsPrefix(<<>>, e)
    BY <2>1, PrefixFacts
  <2> QED
    BY <1>1, <1>2, <2>2, NothingUnder
<1>4. DOMAIN s = {<<>>}
  BY <1>2, <1>3, Zenon
<1> QED
  BY <1>4 DEF s

\* A copy of a member added to a tree: u is the tree, or what a move left of it.
LEMMA CopyMatches ==
  ASSUME NEW h \in Heaps, NEW t, IsTree(h, t), NEW from \in DOMAIN t,
         NEW u, IsTree(h, u), Private(h, u), NEW path \in Path
  PROVE  LET s == Subtree(t, from)
             c == cloneLeaf(h, s)
             r == treeAdd(c.heap, u, path, c.value)
         IN  /\ r.ok <=> CanAdd(Plain(h, u), path, Subtree(Plain(h, t), from))
             /\ r.ok => Plain(r.heap, r.tree)
                          = ShouldAdd(Plain(h, u), path, Subtree(Plain(h, t), from))
<1> DEFINE s == Subtree(t, from)
           c == cloneLeaf(h, s)
           g == c.heap
           w == c.value
           r == treeAdd(g, u, path, w)
<1>1. IsTree(h, s) /\ s[<<>>] = t[from] /\ from \in Path
  <2>1. from \in Path
    BY DEF IsTree, Path
  <2> QED
    BY <2>1, SubtreeFacts
<1>2. Kind(s) = "list" => DOMAIN s = {<<>>}
  BY <1>1, ListSubtree DEF Kind
<1>3. Plain(h, s) = Subtree(Plain(h, t), from)
  BY <1>1, PlainSubtree
<1> HIDE DEF s
<1>4. /\ g \in Heaps /\ Kept(h, g) /\ IsTree(g, w)
      /\ \A a \in DOMAIN h : g[a] = h[a]
  BY <1>1, CloneFacts
<1>5. /\ Kind(s) # "list" => g = h /\ w = s
      /\ Kind(s) = "list" => Plain(g, w) = Plain(h, s)
  BY <1>1, <1>2, CloneMatches
<1>6. Plain(g, w) = Plain(h, s)
  BY <1>5
<1> HIDE DEF c
<1>7. IsTree(g, u) /\ Private(g, u)
  BY <1>4, KeptTree, PrivateKept
<1>8. Plain(g, u) = Plain(h, u)
  <2>1. ASSUME NEW p \in DOMAIN u, u[p].kind = "list"
        PROVE  g[u[p].array] = h[u[p].array]
    <3>1. u[p] \in Leaves(h)
      BY DEF IsTree
    <3> QED
      BY <1>4, <2>1, <3>1, LeafFacts
  <2> QED
    BY <2>1, PlainSame
<1>9. /\ r.ok <=> CanAdd(Plain(g, u), path, Plain(g, w))
      /\ r.ok => Plain(r.heap, r.tree) = ShouldAdd(Plain(g, u), path, Plain(g, w))
  BY <1>4, <1>7, AddMatches
<1> HIDE DEF r
<1>10. /\ r.ok <=> CanAdd(Plain(h, u), path, Subtree(Plain(h, t), from))
       /\ r.ok => Plain(r.heap, r.tree)
                    = ShouldAdd(Plain(h, u), path, Subtree(Plain(h, t), from))
  BY <1>3, <1>6, <1>8, <1>9
<1> QED
  BY <1>10 DEF r, c, s

\* Such a copy keeps its arrays for itself, if no list is left where it was.
LEMMA CopyPrivate ==
  ASSUME NEW h \in Heaps, NEW t, IsTree(h, t), NEW from \in DOMAIN t, Private(h, t),
         \A o \in Operations : IsTree(h, o.value),
         NEW u, IsTree(h, u), Private(h, u), NEW path \in Path,
         \/ ListsIn(Subtree(t, from)) = {}
         \/ \A p \in ListsOf(u) : p \in ListsOf(t) /\ u[p] = t[p] /\ ~Seqs!IsPrefix(from, p)
  PROVE  LET c == cloneLeaf(h, Subtree(t, from))
             r == treeAdd(c.heap, u, path, c.value)
         IN  Private(r.heap, r.tree)
<1> DEFINE s == Subtree(t, from)
           c == cloneLeaf(h, s)
           g == c.heap
           w == c.value
           r == treeAdd(g, u, path, w)
<1>1. /\ IsTree(h, s) /\ from \in Path
      /\ \A e \in DOMAIN s : from \o e \in DOMAIN t /\ s[e] = t[from \o e]
  <2>1. from \in Path
    BY DEF IsTree, Path
  <2> QED
    BY <2>1, SubtreeFacts
<1>2. DOMAIN s \subseteq Path
  BY <1>1, PlainDomain
<1>3. \A e \in ListsOf(s) : from \o e \in ListsOf(t) /\ s[e] = t[from \o e]
  BY <1>1 DEF ListsOf
<1>4. ListsIn(s) = {} \/ \A p \in ListsOf(u) : /\ p \in ListsOf(t) /\ u[p] = t[p]
                                               /\ ~Seqs!IsPrefix(from, p)
  OBVIOUS
<1> HIDE DEF s
<1>5. /\ g \in Heaps /\ Kept(h, g) /\ IsTree(g, w)
  BY <1>1, CloneFacts
<1>6. /\ Kind(s) # "list" => g = h /\ w = s
      /\ Kind(s) = "list" => \A e \in ListsOf(w) : /\ w[e].array \notin DOMAIN h
                                                   /\ ~(w[e].len < Len(g[w[e].array]))
  BY <1>1, CloneMatches
<1> HIDE DEF c
<1>7. IsTree(g, u) /\ Private(g, u) /\ \A o \in Operations : IsTree(g, o.value)
  BY <1>5, KeptTree, PrivateKept
<1>8. Private(g, w) /\ Disjoint(g, u, w, path)
  <2>1. CASE Kind(s) = "list"
    <3>1. Private(g, w)
      BY <1>6, <2>1 DEF Private
    <3>2. \A p \in ListsOf(u) : u[p].array \in DOMAIN h
      <4> SUFFICES ASSUME NEW p \in ListsOf(u) PROVE u[p].array \in DOMAIN h
        OBVIOUS
      <4>1. u[p] \in Leaves(h) /\ u[p].kind = "list"
        BY DEF IsTree, ListsOf
      <4> QED
        BY <4>1, LeafFacts
    <3> QED
      BY <1>6, <2>1, <3>1, <3>2 DEF Disjoint
  <2>2. CASE Kind(s) # "list" /\ ListsIn(s) = {}
    <3>1. ListsOf(s) = {}
      BY <2>2 DEF ListsOf, ListsIn, Kind
    <3> QED
      BY <1>6, <2>2, <3>1, NoListsPrivate, Zenon
  <2>3. CASE Kind(s) # "list" /\ \A p \in ListsOf(u) : /\ p \in ListsOf(t) /\ u[p] = t[p]
                                                        /\ ~Seqs!IsPrefix(from, p)
    <3>1. ASSUME NEW e \in ListsOf(s), NEW d \in ListsOf(s), from \o e = from \o d
          PROVE  e = d
      <4>1. e \in Path /\ d \in Path
        BY <1>2 DEF ListsOf
      <4>2. /\ SubSeq(from \o e, Len(from) + 1, Len(from \o e)) = e
            /\ SubSeq(from \o d, Len(from) + 1, Len(from \o d)) = d
        BY <1>1, <4>1, UnderFacts
      <4> QED
        BY <3>1, <4>2, Zenon
    <3>2. Private(h, s)
      <4> SUFFICES ASSUME NEW e \in ListsOf(s), s[e].len < Len(h[s[e].array])
                   PROVE  /\ \A d \in ListsOf(s) : s[d].array = s[e].array => d = e
                          /\ \A o \in Operations : \A d \in ListsOf(o.value) :
                               o.value[d].array # s[e].array
        BY DEF Private
      <4>1. from \o e \in ListsOf(t) /\ s[e] = t[from \o e]
        BY <1>3
      <4>2. ASSUME NEW d \in ListsOf(s), s[d].array = s[e].array
            PROVE  d = e
        <5>1. from \o d \in ListsOf(t) /\ s[d] = t[from \o d]
          BY <1>3
        <5>2. from \o d = from \o e
          BY <4>1, <4>2, <5>1, Zenon DEF Private
        <5> QED
          BY <3>1, <5>2, Zenon
      <4> QED
        BY <4>1, <4>2 DEF Private
    <3>3. \A e \in ListsOf(s) : Seqs!IsPrefix(from, from \o e)
      BY <1>1, <1>2, UnderFacts DEF ListsOf
    <3>4. Disjoint(h, u, s, path)
      <4> SUFFICES ASSUME NEW p \in ListsOf(u), NEW e \in ListsOf(s),
                          u[p].array = s[e].array
                   PROVE  ~(u[p].len < Len(h[u[p].array])) /\ ~(s[e].len < Len(h[s[e].array]))
        BY DEF Disjoint
      <4>1. p \in ListsOf(t) /\ u[p] = t[p] /\ p # from \o e
        BY <2>3, <3>3, Zenon
      <4>2. from \o e \in ListsOf(t) /\ s[e] = t[from \o e]
        BY <1>3
      <4> QED
        BY <4>1, <4>2, Zenon DEF Private
    <3> QED
      BY <1>6, <2>3, <3>2, <3>4
  <2> QED
    BY <1>4, <2>1, <2>2, <2>3
<1>9. Private(r.heap, r.tree)
  BY <1>5, <1>7, <1>8, AddPrivate
<1> QED
  BY <1>9 DEF c, s

\* What a removal leaves.
LEMMA RemoveMatches ==
  ASSUME NEW h \in Heaps, NEW t, IsTree(h, t), NEW path \in Path
  PROVE  LET u == treeRemove(h, t, path) IN
         /\ u.ok <=> path = <<>> \/ HasMap(t, parentPath(path))
         /\ u.heap = h /\ IsTree(h, u.tree)
         /\ u.ok => Plain(h, u.tree) = ShouldRemove(Plain(h, t), path)
         /\ \A p \in ListsOf(u.tree) :
              p \in ListsOf(t) /\ u.tree[p] = t[p] /\ ~Seqs!IsPrefix(path, p)
<1> DEFINE u == treeRemove(h, t, path)
           b == Leaf(AMap)
           Goal == /\ u.ok <=> path = <<>> \/ HasMap(t, parentPath(path))
                   /\ u.heap = h /\ IsTree(h, u.tree)
                   /\ u.ok => Plain(h, u.tree) = ShouldRemove(Plain(h, t), path)
                   /\ \A p \in ListsOf(u.tree) :
                        p \in ListsOf(t) /\ u.tree[p] = t[p] /\ ~Seqs!IsPrefix(path, p)
<1>1. /\ IsTree(h, b) /\ DOMAIN b = {<<>>} /\ b[<<>>] = AMap /\ IsFcn(b)
  BY LeafTree, PlainLeaves, Zenon DEF IsFcn, Leaf
<1>2. AMap.kind = "map" /\ ListsOf(b) = {}
  BY <1>1 DEF AMap, ListsOf
<1> HIDE DEF b
<1>3. Plain(h, b) = b
  <2>1. \A e : e \in DOMAIN Plain(h, b) <=> e \in DOMAIN b
    BY <1>1, <1>2, PlainFacts
  <2>2. \A e \in DOMAIN Plain(h, b) : Plain(h, b)[e] = b[e]
    BY <1>1, <1>2, <2>1, PlainFacts DEF PlainLeaf
  <2>3. IsFcn(Plain(h, b)) /\ DOMAIN Plain(h, b) = DOMAIN b
    BY <2>1, TreesAreFcns, Zenon
  <2> QED
    BY <1>1, <2>2, <2>3, SameFcn
<1>4. CASE path = <<>>
  <2>1. u.ok = TRUE /\ u.heap = h /\ u.tree = b
    BY <1>4 DEF treeRemove, Result, b
  <2>2. ShouldRemove(Plain(h, t), path) = b
    BY <1>4 DEF ShouldRemove, b
  <2> HIDE DEF u
  <2>3. Goal
    BY <1>1, <1>2, <1>3, <1>4, <2>1, <2>2
  <2> QED
    BY <2>3 DEF u
<1>5. CASE path # <<>> /\ ~HasMap(t, parentPath(path))
  <2>1. u.ok = FALSE /\ u.heap = h /\ u.tree = b
    BY <1>5 DEF treeRemove, Failure, b
  <2> HIDE DEF u
  <2>2. Goal
    BY <1>1, <1>2, <1>5, <2>1
  <2> QED
    BY <2>2 DEF u
<1>6. CASE path # <<>> /\ HasMap(t, parentPath(path))
  <2> DEFINE s == Without(t, path)
  <2>1. u.ok = TRUE /\ u.heap = h /\ u.tree = s
    BY <1>6 DEF treeRemove, Result
  <2>2. IsTree(h, s)
    BY <1>6, WithoutFacts
  <2>3. Plain(h, s) = ShouldRemove(Plain(h, t), path)
    BY <1>6, PlainWithout DEF ShouldRemove
  <2>4. \A p \in ListsOf(s) : p \in ListsOf(t) /\ s[p] = t[p] /\ ~Seqs!IsPrefix(path, p)
    BY DEF Without, Under, ListsOf
  <2> HIDE DEF u, s
  <2>5. Goal
    BY <1>6, <2>1, <2>2, <2>3, <2>4
  <2> QED
    BY <2>5 DEF u
<1> QED
  BY <1>4, <1>5, <1>6

LEMMA PrivatePart ==
  ASSUME NEW h, NEW t, Private(h, t), NEW u, \A p \in ListsOf(u) : p \in ListsOf(t) /\ u[p] = t[p]
  PROVE  Private(h, u)
BY DEF Private

\* The operation r of the heap and the tree, and the plain values w, does what it should.
Matches(h, t, o, r) ==
  /\ r.ok <=> Can(Plain(h, t), o, Plain(h, o.value))
  /\ r.ok => Plain(r.heap, r.tree) = Should(Plain(h, t), o, Plain(h, o.value))

\* Each operation but a test does what it should, and a tree that keeps its arrays
\* for itself still does, unless the operation copies a map with lists.
LEMMA TransformMatches ==
  ASSUME NEW h \in Heaps, NEW t, IsTree(h, t), Private(h, t),
         NEW o \in Operations, o.op # "test",
         \A p \in Operations : IsTree(h, p.value),
         \A p \in ListsOf(o.value) : ~(o.value[p].len < Len(h[o.value[p].array]))
  PROVE  LET r == Transform(h, t, o) IN
         /\ Matches(h, t, o, r)
         /\ r.ok /\ ~(o.op = "copy" /\ ListsIn(Subtree(t, o.from)) # {})
              => Private(r.heap, r.tree)
<1> DEFINE r == Transform(h, t, o)
           v == o.value
           k == Plain(h, t)
           w == Plain(h, v)
           M(x) == /\ x.ok <=> Can(k, o, w)
                   /\ x.ok => Plain(x.heap, x.tree) = Should(k, o, w)
           P(x) == /\ x.ok /\ ~(o.op = "copy" /\ ListsIn(Subtree(t, o.from)) # {})
                        => Private(x.heap, x.tree)
<1>1. o.path \in Path /\ o.from \in Path /\ IsTree(h, v) /\ (o.op = "default" => o.path # <<>>)
  BY OperationsAssumption DEF Path
<1>2. Failure(h).ok = FALSE /\ \A g, u : /\ Result(g, u).ok = TRUE /\ Result(g, u).heap = g
                                         /\ Result(g, u).tree = u
  BY DEF Failure, Result
<1>3. Private(h, v) /\ Disjoint(h, t, v, o.path)
  BY DEF Private, Disjoint
<1>4. \A p : (p \in DOMAIN k <=> Exists(t, p)) /\ (HasMap(k, p) <=> HasMap(t, p))
  BY PlainFinds
<1> DEFINE a == treeAdd(h, t, o.path, v)
<1>5. /\ a.ok <=> CanAdd(k, o.path, w)
      /\ a.ok => Plain(a.heap, a.tree) = ShouldAdd(k, o.path, w)
      /\ Private(a.heap, a.tree)
  BY <1>1, <1>3, AddMatches, AddPrivate
<1> HIDE DEF a, k, w, r
<1> SUFFICES M(r) /\ P(r)
  BY DEF Matches, k, w, r
<1>6. CASE o.op = "add"
  <2>1. r = a
    BY <1>6 DEF Transform, a, r
  <2>2. (Can(k, o, w) <=> CanAdd(k, o.path, w)) /\ Should(k, o, w) = ShouldAdd(k, o.path, w)
    BY <1>6 DEF Can, Should
  <2> QED
    BY <1>5, <2>1, <2>2
<1>7. CASE o.op = "replace"
  <2>1. r = IF ~Exists(t, o.path) THEN Failure(h) ELSE a
    BY <1>7 DEF Transform, treeReplace, a, r
  <2>2. /\ Can(k, o, w) <=> o.path \in DOMAIN k /\ CanAdd(k, o.path, w)
        /\ Should(k, o, w) = ShouldAdd(k, o.path, w)
    BY <1>7 DEF Can, Should
  <2> QED
    BY <1>2, <1>4, <1>5, <2>1, <2>2
<1>8. CASE o.op = "default"
  <2>1. r = IF ~HasMap(t, parentPath(o.path)) THEN Failure(h)
            ELSE Result(h, IF Exists(t, o.path) THEN t ELSE With(t, o.path, v))
    BY <1>8 DEF Transform, treeDefault, r
  <2>2. /\ Can(k, o, w) <=> HasMap(k, parentPath(o.path))
        /\ Should(k, o, w) = IF o.path \in DOMAIN k THEN k ELSE With(k, o.path, w)
    BY <1>1, <1>8 DEF Can, Should
  <2>3. Plain(h, With(t, o.path, v)) = With(k, o.path, w)
    BY <1>1, PlainWith DEF k, w
  <2>4. Private(h, With(t, o.path, v))
    BY <1>1, <1>3, PrivateWith
  <2>5. Plain(h, t) = k
    BY DEF k
  <2> QED
    BY <1>2, <1>4, <2>1, <2>2, <2>3, <2>4, <2>5
<1>9. CASE o.op = "remove"
  <2> DEFINE u == treeRemove(h, t, o.path)
  <2>1. r = u
    BY <1>9 DEF Transform, r
  <2>2. /\ u.ok <=> o.path = <<>> \/ HasMap(t, parentPath(o.path))
        /\ u.heap = h /\ IsTree(h, u.tree)
        /\ u.ok => Plain(h, u.tree) = ShouldRemove(k, o.path)
        /\ \A p \in ListsOf(u.tree) : p \in ListsOf(t) /\ u.tree[p] = t[p]
    BY <1>1, RemoveMatches DEF k
  <2> HIDE DEF u
  <2>3. Private(h, u.tree)
    BY <2>2, PrivatePart
  <2>4. /\ Can(k, o, w) <=> o.path = <<>> \/ HasMap(k, parentPath(o.path))
        /\ Should(k, o, w) = ShouldRemove(k, o.path)
    BY <1>9 DEF Can, Should
  <2> QED
    BY <1>4, <2>1, <2>2, <2>3, <2>4
<1>10. CASE o.op = "copy"
  <2> DEFINE c == cloneLeaf(h, Subtree(t, o.from))
             b == treeAdd(c.heap, t, o.path, c.value)
  <2>1. r = IF ~Exists(t, o.from) THEN Failure(h) ELSE b
    BY <1>10 DEF Transform, treeCopy, r
  <2>2. /\ Can(k, o, w) <=> o.from \in DOMAIN k /\ CanAdd(k, o.path, Subtree(k, o.from))
        /\ Should(k, o, w) = ShouldAdd(k, o.path, Subtree(k, o.from))
    BY <1>10 DEF Can, Should
  <2>3. ASSUME Exists(t, o.from)
        PROVE  /\ b.ok <=> CanAdd(k, o.path, Subtree(k, o.from))
               /\ b.ok => Plain(b.heap, b.tree) = ShouldAdd(k, o.path, Subtree(k, o.from))
    <3>1. o.from \in DOMAIN t
      BY <2>3 DEF Exists
    <3> QED
      BY <1>1, <3>1, CopyMatches DEF k
  <2>4. ASSUME Exists(t, o.from), ListsIn(Subtree(t, o.from)) = {}
        PROVE  Private(b.heap, b.tree)
    <3>1. o.from \in DOMAIN t
      BY <2>4 DEF Exists
    <3> QED
      BY <1>1, <2>4, <3>1, CopyPrivate
  <2> HIDE DEF b
  <2> QED
    BY <1>2, <1>4, <1>10, <2>1, <2>2, <2>3, <2>4
<1>11. CASE o.op = "move"
  <2> DEFINE u == treeRemove(h, t, o.from)
             c == cloneLeaf(h, Subtree(t, o.from))
             b == treeAdd(c.heap, u.tree, o.path, c.value)
  <2>1. r = IF ~Exists(t, o.from) \/ ~u.ok THEN Failure(h) ELSE b
    BY <1>11 DEF Transform, treeMove, r
  <2>2. /\ Can(k, o, w) <=> /\ o.from \in DOMAIN k
                            /\ CanAdd(ShouldRemove(k, o.from), o.path, Subtree(k, o.from))
        /\ Should(k, o, w) = ShouldAdd(ShouldRemove(k, o.from), o.path, Subtree(k, o.from))
    BY <1>11 DEF Can, Should
  <2>3. /\ u.ok <=> o.from = <<>> \/ HasMap(t, parentPath(o.from))
        /\ u.heap = h /\ IsTree(h, u.tree)
        /\ u.ok => Plain(h, u.tree) = ShouldRemove(k, o.from)
        /\ \A p \in ListsOf(u.tree) :
             p \in ListsOf(t) /\ u.tree[p] = t[p] /\ ~Seqs!IsPrefix(o.from, p)
    BY <1>1, RemoveMatches, Zenon DEF k
  <2> HIDE DEF u
  <2>4. Private(h, u.tree)
    BY <2>3, PrivatePart
  <2>5. ASSUME Exists(t, o.from)
        PROVE  /\ u.ok
               /\ b.ok <=> CanAdd(ShouldRemove(k, o.from), o.path, Subtree(k, o.from))
               /\ b.ok => Plain(b.heap, b.tree)
                            = ShouldAdd(ShouldRemove(k, o.from), o.path, Subtree(k, o.from))
               /\ Private(b.heap, b.tree)
    <3>1. o.from \in DOMAIN t
      BY <2>5 DEF Exists
    <3>2. u.ok
      <4>1. o.from # <<>> => HasMap(t, parentPath(o.from))
        BY <3>1 DEF IsTree, HasMap, AMap
      <4> QED
        BY <2>3, <4>1
    <3>3. /\ b.ok <=> CanAdd(Plain(h, u.tree), o.path, Subtree(k, o.from))
          /\ b.ok => Plain(b.heap, b.tree)
                       = ShouldAdd(Plain(h, u.tree), o.path, Subtree(k, o.from))
      BY <1>1, <2>3, <2>4, <3>1, CopyMatches DEF k
    <3>4. Private(b.heap, b.tree)
      BY <1>1, <2>3, <2>4, <3>1, CopyPrivate
    <3> HIDE DEF b
    <3> QED
      BY <2>3, <3>2, <3>3, <3>4
  <2> HIDE DEF b
  <2> QED
    BY <1>2, <1>4, <2>1, <2>2, <2>5
<1> HIDE DEF M, P
<1> QED
  BY OperationsAssumption, <1>6, <1>7, <1>8, <1>9, <1>10, <1>11

-----------------------------------------------------------------------------
(* The patches do what they say.                                           *)

\* While no map with lists was copied, the tree is what it should be, and what append
\* may write to is in one list only.
AsExpected ==
  state = "resolving" => Plain(heap, tree) = expected /\ Private(heap, tree)

Sound == ~shallow /\ TightValues /\ OwnArrays

LEMMA SoundKept ==
  PatcherType /\ Kept(heap, heap') /\ base' = base =>
    (TightValues' /\ OwnArrays' => TightValues /\ OwnArrays)
<1> SUFFICES ASSUME PatcherType, Kept(heap, heap'), base' = base, TightValues', OwnArrays'
             PROVE  TightValues /\ OwnArrays
  OBVIOUS
<1>1. ASSUME NEW t, IsTree(heap, t), NEW p \in ListsOf(t), HasRoom(t[p])
      PROVE  t[p].len < Len(heap'[t[p].array])
  <2>1. t[p] \in Leaves(heap) /\ t[p].kind = "list"
    BY <1>1 DEF IsTree, ListsOf
  <2>2. t[p].array \in DOMAIN heap
    BY <2>1, LeafFacts
  <2> QED
    BY <1>1, <2>2 DEF HasRoom, Kept
<1>2. \A o \in Operations : \A p \in ListsOf(o.value) :
        ~(o.value[p].len < Len(heap'[o.value[p].array]))
  BY DEF TightValues, HasRoom
<1>3. TightValues
  BY <1>1, <1>2, Zenon DEF TightValues, PatcherType
<1>4. \A p \in ListsOf(base) : base[p].len < Len(heap'[base[p].array]) =>
        /\ \A r \in ListsOf(base) : r # p => base[r].array # base[p].array
        /\ \A o \in Operations : \A r \in ListsOf(o.value) : o.value[r].array # base[p].array
  BY DEF OwnArrays, HasRoom, ListsOf
<1>5. \A p \in ListsOf(base) : HasRoom(base[p]) => base[p].len < Len(heap'[base[p].array])
  BY <1>1 DEF PatcherType
<1>6. OwnArrays
  BY <1>4, <1>5 DEF OwnArrays
<1> QED
  BY <1>3, <1>6

\* The next operation, on a tree that is what it should be.
LEMMA NextMatches ==
  ASSUME PatcherType, TightValues, AsExpected,
         state = "resolving", todo # <<>>, Head(todo).op # "test"
  PROVE  LET o == Head(todo)
             r == Transform(heap, tree, o)
         IN  /\ Plain(heap, tree) = expected
             /\ r.ok <=> Can(expected, o, Plain(heap, o.value))
             /\ r.ok => Plain(r.heap, r.tree) = Should(expected, o, Plain(heap, o.value))
             /\ r.ok /\ ~(o.op = "copy" /\ ListsIn(Subtree(tree, o.from)) # {})
                  => Private(r.heap, r.tree)
<1> DEFINE o == Head(todo)
           r == Transform(heap, tree, o)
           Goal == /\ Plain(heap, tree) = expected
                   /\ r.ok <=> Can(expected, o, Plain(heap, o.value))
                   /\ r.ok => Plain(r.heap, r.tree) = Should(expected, o, Plain(heap, o.value))
                   /\ r.ok /\ ~(o.op = "copy" /\ ListsIn(Subtree(tree, o.from)) # {})
                        => Private(r.heap, r.tree)
<1>1. o \in Operations
  BY HeadTailProperties DEF PatcherType
<1>2. Plain(heap, tree) = expected /\ Private(heap, tree)
  BY DEF AsExpected
<1>3. /\ heap \in Heaps /\ IsTree(heap, tree)
      /\ \A p \in Operations : IsTree(heap, p.value)
  BY DEF PatcherType
<1> HIDE DEF o
<1>4. \A p \in ListsOf(o.value) : ~(o.value[p].len < Len(heap[o.value[p].array]))
  BY <1>1 DEF TightValues, HasRoom
<1>5. o.op # "test"
  BY DEF o
<1>6. /\ Matches(heap, tree, o, r)
      /\ r.ok /\ ~(o.op = "copy" /\ ListsIn(Subtree(tree, o.from)) # {})
           => Private(r.heap, r.tree)
  BY <1>1, <1>2, <1>3, <1>4, <1>5, TransformMatches
<1> HIDE DEF r
<1>7. Goal
  BY <1>2, <1>6 DEF Matches
<1> QED
  BY <1>7 DEF o, r

LEMMA StepAsExpected ==
  PatcherType /\ (Sound => AsExpected) /\ [PatcherNext]_patcherVars => (Sound' => AsExpected')
<1> SUFFICES ASSUME PatcherType, Sound => AsExpected, [PatcherNext]_patcherVars, Sound'
             PROVE  AsExpected'
  OBVIOUS
<1>1. ASSUME base' = base, Kept(heap, heap'), ~shallow
      PROVE  TightValues /\ OwnArrays /\ AsExpected
  BY <1>1, SoundKept DEF Sound
<1>2. Kept(heap, heap)
  BY DEF Kept
<1>3. CASE AddOperation \/ NewPatcher
  <2>1. state' = "idle"
    BY <1>3 DEF AddOperation, NewPatcher
  <2> QED
    BY <2>1 DEF AsExpected
<1>4. CASE ResolveMap
  <2>1. UNCHANGED <<base, heap, shallow>> /\ tree' = base /\ expected' = Plain(heap, base)
    BY <1>4 DEF ResolveMap
  <2>2. OwnArrays
    BY <1>1, <1>2, <2>1 DEF Sound
  <2>3. Private(heap, base)
    BY <2>2 DEF OwnArrays, HasRoom, Private
  <2> QED
    BY <2>1, <2>3 DEF AsExpected, Private
<1>5. CASE Apply
  <2> SUFFICES ASSUME state' = "resolving"
               PROVE  Plain(heap', tree') = expected' /\ Private(heap', tree')
    BY DEF AsExpected, Private
  <2> DEFINE o == Head(todo)
             r == Transform(heap, tree, o)
  <2>1. /\ state = "resolving" /\ todo # <<>> /\ o.op # "test"
        /\ heap' = r.heap /\ tree' = r.tree
        /\ expected' = IF r.ok THEN Should(expected, o, Plain(heap, o.value)) ELSE expected
        /\ state' = IF r.ok THEN state ELSE "failed"
        /\ shallow' = (shallow \/ (o.op = "copy" /\ r.ok
                                     /\ ListsIn(Subtree(tree, o.from)) # {}))
        /\ base' = base
    BY <1>5 DEF Apply
  <2>2. Kept(heap, heap')
    BY <1>5, ApplyGrows DEF TreeStep
  <2> HIDE DEF r, o
  <2>3. r.ok
    BY <2>1
  <2>4. ~shallow /\ ~(o.op = "copy" /\ ListsIn(Subtree(tree, o.from)) # {})
    BY <2>1, <2>3, Zenon DEF Sound
  <2>5. TightValues /\ AsExpected
    BY <1>1, <2>1, <2>2, <2>4
  <2>6. /\ r.ok => Plain(r.heap, r.tree) = Should(expected, o, Plain(heap, o.value))
        /\ r.ok /\ ~(o.op = "copy" /\ ListsIn(Subtree(tree, o.from)) # {})
             => Private(r.heap, r.tree)
    BY <2>1, <2>5, NextMatches DEF r, o
  <2> QED
    BY <2>1, <2>3, <2>4, <2>6
<1>6. CASE Test
  <2>1. UNCHANGED <<base, heap, tree, expected, shallow>> /\ state = "resolving"
    BY <1>6 DEF Test
  <2>2. AsExpected
    BY <1>1, <1>2, <2>1 DEF Sound
  <2> QED
    BY <2>1, <2>2 DEF AsExpected, Private
<1>7. CASE Return
  <2>1. state' = "idle"
    BY <1>7 DEF Return
  <2> QED
    BY <2>1 DEF AsExpected
<1>8. CASE UNCHANGED patcherVars
  <2>1. UNCHANGED <<base, heap, tree, expected, shallow, state>>
    BY <1>8 DEF patcherVars
  <2>2. AsExpected
    BY <1>1, <1>2, <2>1 DEF Sound
  <2> QED
    BY <2>1, <2>2 DEF AsExpected, Private
<1> QED
  BY <1>3, <1>4, <1>5, <1>6, <1>7, <1>8 DEF PatcherNext

\* ResolveMap: each patch does what it says and nothing else changes, whatever the
\* lists of the tree share, and it fails only if it must; as long as no map with
\* lists was copied and no list given with room was given twice.
THEOREM PatchesMatchReference == PatcherSpec => []MatchesReference
<1> DEFINE I == PatcherType /\ (Sound => AsExpected)
<1>1. PatcherInit => I
  <2>1. PatcherInit => PatcherType
    BY InitType DEF PatcherInv
  <2>2. PatcherInit => AsExpected
    BY DEF PatcherInit, AsExpected
  <2> QED
    BY <2>1, <2>2
<1>2. I /\ [PatcherNext]_patcherVars => I'
  BY StepType, StepAsExpected
<1>3. I => MatchesReference
  <2> SUFFICES ASSUME PatcherType, Sound => AsExpected, Sound
               PROVE  /\ state = "resolving" => Plain(heap, tree) = expected
                      /\ state = "resolving" /\ todo # <<>> /\ Head(todo).op # "test" =>
                           (Transform(heap, tree, Head(todo)).ok
                              <=> Can(expected, Head(todo), Plain(heap, Head(todo).value)))
    BY DEF MatchesReference, Sound
  <2>1. state = "resolving" => Plain(heap, tree) = expected
    BY DEF AsExpected
  <2>2. state = "resolving" /\ todo # <<>> /\ Head(todo).op # "test" =>
          (Transform(heap, tree, Head(todo)).ok
             <=> Can(expected, Head(todo), Plain(heap, Head(todo).value)))
    BY NextMatches DEF Sound
  <2> QED
    BY <2>1, <2>2
<1> QED
  BY <1>1, <1>2, <1>3, PTL DEF PatcherSpec

-----------------------------------------------------------------------------
(* The ring of the queue.                                                  *)

USE NoneNotValue, NewIsBoolean, MaxLengthIsNat

Queue == [rep : Seq(Value \cup {None}), front : Nat, back : Nat, length : Nat]

\* The arithmetic of the ring: the slots 1 .. Len(rep) are each the place of
\* one value.
LEMMA SlotFacts ==
  ASSUME NEW x \in Queue, Ring(x)
  PROVE  /\ \A i \in 1 .. Len(x.rep) : Slot(x, i) \in 1 .. Len(x.rep)
         /\ \A i, j \in 1 .. Len(x.rep) : Slot(x, i) = Slot(x, j) => i = j
         /\ Len(x.rep) \in Nat \ {0}
         /\ DOMAIN x.rep = 1 .. Len(x.rep)
<1>1. Len(x.rep) \in Nat \ {0} /\ x.front \in 0 .. Len(x.rep) - 1
  BY EmptySeq, LenProperties DEF Ring
<1>2. \A i \in 1 .. Len(x.rep) : Slot(x, i) \in 1 .. Len(x.rep)
  BY <1>1 DEF Slot
<1>3. \A i, j \in 1 .. Len(x.rep) : Slot(x, i) = Slot(x, j) => i = j
  BY <1>1 DEF Slot
<1>4. DOMAIN x.rep = 1 .. Len(x.rep)
  BY LenProperties DEF Ring
<1>5. QED BY <1>1, <1>2, <1>3, <1>4, Zenon

\* Contents is a sequence of values.
LEMMA ContentsFacts ==
  ASSUME NEW x \in Queue, Ring(x)
  PROVE  /\ Contents(x) \in Seq(Value)
         /\ Len(Contents(x)) = x.length
         /\ \A i \in 1 .. x.length : Contents(x)[i] = x.rep[Slot(x, i)]
<1>1. x.length \in Nat /\ x.length <= Len(x.rep)
  BY DEF Ring, Queue
<1>2. \A i \in 1 .. x.length : x.rep[Slot(x, i)] \in Value
  <2> SUFFICES ASSUME NEW i \in 1 .. x.length PROVE x.rep[Slot(x, i)] \in Value
    OBVIOUS
  <2>1. i \in 1 .. Len(x.rep) /\ Slot(x, i) \in 1 .. Len(x.rep)
    BY <1>1, SlotFacts
  <2>2. x.rep[Slot(x, i)] # None
    BY <2>1 DEF Ring
  <2>3. x.rep[Slot(x, i)] \in Value \cup {None}
    BY <2>1, ElementOfSeq DEF Ring
  <2>4. QED BY <2>2, <2>3
<1>3. QED BY <1>1, <1>2 DEF Contents

\* resize copies the values in use, from front to back.
LEMMA UsedFacts ==
  ASSUME NEW x \in Queue, Ring(x), x.length > 0
  PROVE  /\ Used(x) \in Seq(Value \cup {None})
         /\ Len(Used(x)) = x.length
         /\ \A i \in 1 .. x.length : Used(x)[i] = x.rep[Slot(x, i)]
<1> DEFINE C == Len(x.rep)
           S == Value \cup {None}
<1>1. /\ C \in Nat \ {0} /\ DOMAIN x.rep = 1 .. C /\ x.rep \in Seq(S)
      /\ x.front \in 0 .. C - 1 /\ x.back \in 0 .. C - 1 /\ x.length \in 1 .. C
      /\ x.back + 1 = Slot(x, x.length + 1)
  BY SlotFacts DEF Ring
<1>2. \A i \in 1 .. C : x.rep[i] \in S
  BY <1>1, ElementOfSeq
<1> HIDE DEF C
<1>3. CASE x.front < x.back
  <2>1. x.length = x.back - x.front /\ \A i \in 1 .. x.length : Slot(x, i) = x.front + i
    BY <1>1, <1>3, SMTT(30) DEF Slot, C
  <2>2. \A i \in x.front + 1 .. x.back : x.rep[i] \in S
    BY <1>1, <1>2
  <2>3. /\ SubSeq(x.rep, x.front + 1, x.back) \in Seq(S)
        /\ Len(SubSeq(x.rep, x.front + 1, x.back)) = x.back - x.front
        /\ \A i \in 1 .. x.back - x.front :
             SubSeq(x.rep, x.front + 1, x.back)[i] = x.rep[x.front + i]
    <3>1. x.front + 1 \in Int /\ x.back \in Int /\ x.front + 1 <= x.back
      BY <1>1, <1>3
    <3>2. /\ x.back - (x.front + 1) + 1 = x.back - x.front
          /\ \A i \in Int : (x.front + 1) + i - 1 = x.front + i
      BY <3>1, <1>1, SMTT(30)
    <3>3. QED BY <2>2, <3>1, <3>2, SubSeqProperties
  <2>4. QED BY <1>3, <2>1, <2>3 DEF Used
<1>4. CASE ~(x.front < x.back)
  <2> DEFINE a == SubSeq(x.rep, x.front + 1, C)
             b == SubSeq(x.rep, 1, x.back)
  <2>1. /\ x.length = C - x.front + x.back
        /\ \A i \in 1 .. x.length :
             Slot(x, i) = IF i <= C - x.front THEN x.front + i ELSE i - (C - x.front)
    <3>1. /\ x.length \in Int /\ x.front \in Int /\ x.back \in Int /\ C \in Int
          /\ x.length >= 1 /\ x.back <= x.front
          /\ x.back + 1 = Slot(x, x.length + 1)
      BY <1>1, <1>4
    <3>2. Slot(x, x.length + 1) = IF x.front + (x.length + 1) <= C THEN x.front + (x.length + 1)
                                  ELSE x.front + (x.length + 1) - C
      BY <3>1 DEF Slot, C
    <3>3. x.length = C - x.front + x.back
      BY <3>1, <3>2
    <3>4. ASSUME NEW i \in 1 .. x.length
          PROVE  Slot(x, i) = IF i <= C - x.front THEN x.front + i ELSE i - (C - x.front)
      BY <3>1 DEF Slot, C
    <3>5. QED BY <3>3, <3>4
  <2>2. /\ a \in Seq(S) /\ Len(a) = C - x.front
        /\ \A i \in 1 .. C - x.front : a[i] = x.rep[x.front + i]
    <3>1. \A i \in x.front + 1 .. C : x.rep[i] \in S
      BY <1>1, <1>2
    <3>2. x.front + 1 \in Int /\ C \in Int /\ x.front + 1 <= C
      BY <1>1
    <3>3. /\ C - (x.front + 1) + 1 = C - x.front
          /\ \A i \in Int : (x.front + 1) + i - 1 = x.front + i
      BY <3>2, <1>1, SMTT(30)
    <3>4. QED BY <3>1, <3>2, <3>3, SubSeqProperties
  <2>3. /\ b \in Seq(S) /\ Len(b) = x.back
        /\ \A i \in 1 .. x.back : b[i] = x.rep[i]
    <3>1. \A i \in 1 .. x.back : x.rep[i] \in S
      BY <1>1, <1>2
    <3>2. x.back \in Nat /\ \A i \in Int : 1 + i - 1 = i
      BY <1>1
    <3>3. x.back - 1 + 1 = x.back /\ (~(1 <= x.back) => x.back = 0)
      BY <3>2
    <3>4. QED BY <3>1, <3>2, <3>3, SubSeqProperties
  <2>4. Used(x) = a \o b
    BY <1>4, Zenon DEF Used, C
  <2> HIDE DEF a, b
  <2>5. /\ a \o b \in Seq(S) /\ Len(a \o b) = Len(a) + Len(b)
        /\ \A i \in 1 .. Len(a) + Len(b) :
             (a \o b)[i] = IF i <= Len(a) THEN a[i] ELSE b[i - Len(a)]
    BY <2>2, <2>3, ConcatProperties, ZenonT(30)
  <2>6. ASSUME NEW i \in 1 .. x.length
        PROVE  Used(x)[i] = x.rep[Slot(x, i)]
    <3>1. i \in 1 .. Len(a) + Len(b)
      BY <2>1, <2>2, <2>3
    <3>2. CASE i <= C - x.front
      <4>1. i \in 1 .. C - x.front
        BY <1>1, <3>2
      <4>2. QED BY <2>1, <2>2, <2>4, <2>5, <3>1, <3>2, <4>1
    <3>3. CASE ~(i <= C - x.front)
      <4>1. i - (C - x.front) \in 1 .. x.back
        BY <1>1, <2>1, <3>3, SMTT(30)
      <4>2. QED BY <2>1, <2>2, <2>3, <2>4, <2>5, <3>1, <3>3, <4>1, SMTT(30)
    <3>4. QED BY <3>2, <3>3
  <2>7. QED BY <1>1, <2>1, <2>2, <2>3, <2>4, <2>5, <2>6, Zenon
<1>5. QED BY <1>3, <1>4

\* resize keeps the contents: the one place where the whole ring moves.
LEMMA ResizeFacts ==
  ASSUME NEW x \in Queue, Ring(x), x.length > 0,
         NEW size \in Nat, x.length < size
  PROVE  /\ resize(x, size) \in Queue
         /\ Ring(resize(x, size))
         /\ Len(resize(x, size).rep) = size
         /\ resize(x, size).length = x.length
         /\ Contents(resize(x, size)) = Contents(x)
<1> DEFINE y == resize(x, size)
           S == Value \cup {None}
<1>1. /\ Len(Used(x)) = x.length /\ x.length \in Nat
      /\ \A i \in 1 .. x.length : Used(x)[i] = x.rep[Slot(x, i)]
      /\ \A i \in 1 .. x.length : x.rep[Slot(x, i)] \in Value
  BY UsedFacts, ContentsFacts, ElementOfSeq, SMTT(30) DEF Queue
<1>2. /\ y.rep = [i \in 1 .. size |-> IF i <= x.length THEN Used(x)[i] ELSE None]
      /\ y.front = 0 /\ y.back = x.length /\ y.length = x.length
  BY <1>1 DEF resize
<1>3. y.rep \in Seq(S) /\ Len(y.rep) = size
  <2>1. \A i \in 1 .. size : (IF i <= x.length THEN Used(x)[i] ELSE None) \in S
    BY <1>1
  <2>2. QED BY <1>2, <2>1
<1>4. y \in Queue
  BY <1>1, <1>2, <1>3 DEF Queue, resize
<1>5. \A i \in 1 .. size : Slot(y, i) = i
  BY <1>2, <1>3 DEF Slot
<1>6. \A i \in 1 .. size : y.rep[Slot(y, i)] = IF i <= x.length THEN x.rep[Slot(x, i)] ELSE None
  BY <1>1, <1>2, <1>5
<1> HIDE DEF y
<1>7. Ring(y)
  <2>1. y.back + 1 = Slot(y, y.length + 1)
    BY <1>1, <1>2, <1>3 DEF Slot
  <2>2. y.rep # <<>>
    BY <1>1, <1>3
  <2>3. \A i \in 1 .. Len(y.rep) : i <= y.length <=> y.rep[Slot(y, i)] # None
    <3> SUFFICES ASSUME NEW i \in 1 .. size
                 PROVE  i <= x.length <=> y.rep[Slot(y, i)] # None
      BY <1>2, <1>3
    <3>1. CASE i <= x.length
      <4>1. i \in 1 .. x.length
        BY <1>1, <3>1
      <4>2. y.rep[Slot(y, i)] \in Value
        BY <1>1, <1>6, <3>1, <4>1
      <4>3. QED BY <3>1, <4>2
    <3>2. CASE ~(i <= x.length)
      BY <1>6, <3>2
    <3>3. QED BY <3>1, <3>2
  <2>4. y.front \in 0 .. Len(y.rep) - 1 /\ y.back \in 0 .. Len(y.rep) - 1 /\ y.length \in 0 .. Len(y.rep)
    BY <1>1, <1>2, <1>3
  <2>5. QED BY <1>3, <2>1, <2>2, <2>3, <2>4 DEF Ring
<1>8. Contents(y) = Contents(x)
  BY <1>1, <1>2, <1>6, SMTT(30) DEF Contents
<1>9. QED BY <1>2, <1>3, <1>4, <1>7, <1>8 DEF y

\* A cleared queue is an empty ring.
LEMMA ClearedFacts ==
  /\ Cleared \in Queue /\ Ring(Cleared) /\ Contents(Cleared) = <<>>
  /\ Zero \in Queue /\ Contents(Zero) = <<>>
<1>1. /\ Cleared.rep = <<None>> /\ Cleared.front = 0 /\ Cleared.back = 0 /\ Cleared.length = 0
      /\ Zero.rep = <<>> /\ Zero.front = 0 /\ Zero.back = 0 /\ Zero.length = 0
  BY DEF Cleared, Zero
<1>2. <<None>> \in Seq(Value \cup {None}) /\ Len(<<None>>) = 1 /\ <<>> \in Seq(Value \cup {None})
  OBVIOUS
<1>3. Cleared \in Queue /\ Zero \in Queue
  BY <1>2 DEF Cleared, Zero, Queue
<1>4. Slot(Cleared, 1) = 1
  BY <1>1, <1>2 DEF Slot
<1>5. Ring(Cleared)
  BY <1>1, <1>2, <1>4 DEF Ring
<1>6. Contents(Cleared) = <<>> /\ Contents(Zero) = <<>>
  BY <1>1 DEF Contents
<1>7. QED BY <1>3, <1>5, <1>6

\* lazyInit and lazyGrow make room for one more value.
LEMMA GrowFacts ==
  ASSUME NEW x \in Queue, Ring(x) \/ x = Zero
  PROVE  LET y == lazyGrow(lazyInit(x)) IN
         /\ y \in Queue /\ Ring(y)
         /\ y.length = x.length /\ y.length < Len(y.rep)
         /\ Contents(y) = Contents(x)
<1> DEFINE z == lazyInit(x)
           y == lazyGrow(z)
<1>1. z \in Queue /\ Ring(z) /\ z.length = x.length /\ Contents(z) = Contents(x)
  <2>1. CASE x = Zero
    BY <2>1, ClearedFacts DEF lazyInit, Zero, Cleared
  <2>2. CASE Ring(x)
    BY <2>2 DEF lazyInit, Ring
  <2>3. QED BY <2>1, <2>2
<1>a. y = lazyGrow(z)
  OBVIOUS
<1> HIDE DEF y, z
<1>2. Len(z.rep) \in Nat \ {0} /\ z.length \in 0 .. Len(z.rep)
  BY <1>1, SlotFacts DEF Ring
<1> DEFINE Good == y \in Queue /\ Ring(y) /\ y.length = z.length /\ y.length < Len(y.rep)
                   /\ Contents(y) = Contents(z)
<1>3. ASSUME full(z) PROVE Good
  <2>1. Len(z.rep) * 2 \in Nat /\ z.length < Len(z.rep) * 2 /\ z.length > 0
    BY <1>2, <1>3 DEF full
  <2>2. lazyGrow(z) = resize(z, Len(z.rep) * 2)
    BY <1>3 DEF lazyGrow
  <2>3. QED BY <1>1, <1>a, <2>1, <2>2, ResizeFacts, Zenon
<1>4. ASSUME ~full(z) PROVE Good
  <2>1. lazyGrow(z) = z /\ z.length < Len(z.rep)
    BY <1>2, <1>4 DEF lazyGrow, full
  <2>2. QED BY <1>1, <1>a, <2>1
<1>5. Good
  BY <1>3, <1>4
<1>6. QED BY <1>1, <1>5 DEF y, z

ShrunkSize(size, length) ==
  IF 1 < length /\ length < size \div 4 THEN size \div 2 ELSE size

\* lazyShrink halves the slice when the values fit in.
LEMMA ShrinkFacts ==
  ASSUME NEW x \in Queue, Ring(x)
  PROVE  /\ lazyShrink(x) \in Queue /\ Ring(lazyShrink(x))
         /\ Contents(lazyShrink(x)) = Contents(x)
         /\ lazyShrink(x).length = x.length
         /\ Len(lazyShrink(x).rep) = ShrunkSize(Len(x.rep), x.length)
<1>1. Len(x.rep) \in Nat \ {0} /\ x.length \in Nat
  BY SlotFacts DEF Queue
<1>2. CASE sparse(x)
  <2>1. Len(x.rep) \div 2 \in Nat /\ x.length < Len(x.rep) \div 2 /\ x.length > 0
    <3>1. \A n \in Nat : n \div 2 \in Nat /\ n \div 4 <= n \div 2 /\ n \div 4 \in Nat
      OBVIOUS
    <3>2. 1 < x.length /\ x.length < Len(x.rep) \div 4
      BY <1>2, Zenon DEF sparse
    <3> DEFINE C == Len(x.rep)
    <3> HIDE DEF C
    <3>3. C \in Nat /\ x.length \in Nat /\ 1 < x.length /\ x.length < C \div 4
      BY <1>1, <3>2, Zenon DEF C
    <3>4. C \div 2 \in Nat /\ C \div 4 <= C \div 2 /\ C \div 4 \in Nat
      BY <3>1, <3>3
    <3>5. C \div 2 \in Nat /\ x.length < C \div 2 /\ x.length > 0
      BY <3>3, <3>4
    <3>6. QED BY <3>5, Zenon DEF C
  <2>2. lazyShrink(x) = resize(x, Len(x.rep) \div 2)
    BY <1>2 DEF lazyShrink
  <2>3. ShrunkSize(Len(x.rep), x.length) = Len(x.rep) \div 2
    BY <1>2 DEF sparse, ShrunkSize
  <2>4. QED BY <2>1, <2>2, <2>3, ResizeFacts, Zenon
<1>3. CASE ~sparse(x)
  BY <1>3, Zenon DEF lazyShrink, sparse, ShrunkSize
<1>4. QED BY <1>2, <1>3

\* PushBack appends.
LEMMA PushedBackFacts ==
  ASSUME NEW x \in Queue, Ring(x) \/ x = Zero, NEW v \in Value
  PROVE  /\ PushedBack(x, v) \in Queue /\ Ring(PushedBack(x, v))
         /\ Contents(PushedBack(x, v)) = Append(Contents(x), v)
         /\ PushedBack(x, v).length = x.length + 1
         /\ Len(PushedBack(x, v).rep) = Len(lazyGrow(lazyInit(x)).rep)
<1> DEFINE y == lazyGrow(lazyInit(x))
           z == PushedBack(x, v)
           C == Len(y.rep)
<1>1. /\ y \in Queue /\ Ring(y) /\ Contents(y) = Contents(x)
      /\ y.length \in Nat /\ y.length < C /\ y.length = x.length
  BY GrowFacts DEF Queue
<1>2. z = [y EXCEPT !.rep[y.back + 1] = v, !.back = inc(y, y.back), !.length = @ + 1]
  BY DEF PushedBack
<1> HIDE DEF y, z
<1>3. /\ C \in Nat \ {0} /\ y.rep \in Seq(Value \cup {None}) /\ DOMAIN y.rep = 1 .. C
      /\ y.front \in 0 .. C - 1 /\ y.back \in 0 .. C - 1
      /\ y.back + 1 = Slot(y, y.length + 1)
  BY <1>1, SlotFacts DEF Ring
<1>a. z = [rep |-> [y.rep EXCEPT ![y.back + 1] = v], front |-> y.front,
           back |-> inc(y, y.back), length |-> y.length + 1]
  BY <1>1, <1>2, Zenon DEF Queue
<1>4. /\ z.rep = [y.rep EXCEPT ![y.back + 1] = v]
      /\ z.front = y.front /\ z.back = inc(y, y.back) /\ z.length = y.length + 1
  BY <1>a
<1>5. /\ z.rep \in Seq(Value \cup {None}) /\ Len(z.rep) = C
      /\ \A i \in 1 .. C : z.rep[i] = IF i = y.back + 1 THEN v ELSE y.rep[i]
  <2>1. y.back + 1 \in 1 .. C /\ v \in Value \cup {None}
    BY <1>3
  <2>2. QED BY <1>3, <1>4, <2>1, ExceptSeq
<1>6. z.back \in 0 .. C - 1
  BY <1>3, <1>4 DEF inc
<1>7. z \in Queue
  <2>1. z.front \in Nat /\ z.back \in Nat /\ z.length \in Nat
    BY <1>1, <1>3, <1>4, <1>6
  <2>2. QED BY <1>a, <1>4, <1>5, <2>1 DEF Queue
<1>8. \A i \in 1 .. C + 1 : Slot(z, i) = Slot(y, i)
  BY <1>4, <1>5 DEF Slot
<1>9. \A i \in 1 .. C : z.rep[Slot(z, i)] = IF i = y.length + 1 THEN v ELSE y.rep[Slot(y, i)]
  <2> SUFFICES ASSUME NEW i \in 1 .. C
               PROVE  z.rep[Slot(z, i)] = IF i = y.length + 1 THEN v ELSE y.rep[Slot(y, i)]
    OBVIOUS
  <2>1. Slot(z, i) = Slot(y, i) /\ Slot(y, i) \in 1 .. C /\ y.length + 1 \in 1 .. C
    <3>1. i \in 1 .. C + 1 /\ y.length + 1 \in 1 .. C
      BY <1>1, <1>3
    <3>2. QED BY <1>1, <1>8, <3>1, SlotFacts
  <2>2. Slot(y, i) = y.back + 1 <=> i = y.length + 1
    BY <1>1, <1>3, <2>1, SlotFacts, Zenon
  <2>3. QED BY <1>5, <2>1, <2>2
<1>10. z.back + 1 = Slot(z, z.length + 1)
  <2>1. y.back + 1 = IF y.front + (y.length + 1) <= C THEN y.front + (y.length + 1)
                     ELSE y.front + (y.length + 1) - C
    BY <1>1, <1>3 DEF Slot
  <2>2. z.back = IF y.back + 1 = C THEN 0 ELSE y.back + 1
    BY <1>4 DEF inc
  <2>3. Slot(z, z.length + 1) = IF y.front + (y.length + 2) <= C THEN y.front + (y.length + 2)
                                ELSE y.front + (y.length + 2) - C
    <3>1. z.length + 1 = y.length + 2
      BY <1>1, <1>4
    <3>2. QED BY <1>1, <1>3, <1>4, <1>5, <3>1, SMTT(30) DEF Slot
  <2>4. /\ C \in Nat /\ y.front \in Nat /\ y.back \in Nat /\ y.length \in Nat
        /\ y.front < C /\ y.back < C /\ y.length < C
    BY <1>1, <1>3
  <2> HIDE DEF C
  <2>5. QED BY <2>1, <2>2, <2>3, <2>4
<1>11. \A i \in 1 .. C : i <= z.length <=> z.rep[Slot(z, i)] # None
  <2> SUFFICES ASSUME NEW i \in 1 .. C
               PROVE  i <= z.length <=> z.rep[Slot(z, i)] # None
    OBVIOUS
  <2>1. i <= y.length <=> y.rep[Slot(y, i)] # None
    BY <1>1 DEF Ring
  <2>2. CASE i = y.length + 1
    BY <1>4, <1>9, <2>2
  <2>3. CASE i # y.length + 1
    BY <1>1, <1>4, <1>9, <2>1, <2>3
  <2>4. QED BY <2>2, <2>3
<1>12. Ring(z)
  <2>1. z.rep # <<>> /\ z.length \in 0 .. C
    BY <1>1, <1>3, <1>4, <1>5
  <2>2. QED BY <1>3, <1>4, <1>5, <1>6, <1>10, <1>11, <2>1 DEF Ring
<1>13. Contents(z) = Append(Contents(y), v)
  <2>1. /\ Contents(y) \in Seq(Value) /\ Len(Contents(y)) = y.length
        /\ \A i \in 1 .. y.length : Contents(y)[i] = y.rep[Slot(y, i)]
        /\ Contents(z) \in Seq(Value) /\ Len(Contents(z)) = y.length + 1
        /\ \A i \in 1 .. y.length + 1 : Contents(z)[i] = z.rep[Slot(z, i)]
    BY <1>1, <1>4, <1>7, <1>12, ContentsFacts, Zenon
  <2>2. \A i \in 1 .. y.length + 1 :
          Contents(z)[i] = IF i = y.length + 1 THEN v ELSE Contents(y)[i]
    <3> SUFFICES ASSUME NEW i \in 1 .. y.length + 1
                 PROVE  Contents(z)[i] = IF i = y.length + 1 THEN v ELSE Contents(y)[i]
      OBVIOUS
    <3>1. i \in 1 .. C /\ (i # y.length + 1 => i \in 1 .. y.length)
      BY <1>1, <1>3
    <3>2. QED BY <1>9, <2>1, <3>1
  <2>3. /\ Append(Contents(y), v) \in Seq(Value)
        /\ Len(Append(Contents(y), v)) = y.length + 1
        /\ \A i \in 1 .. y.length + 1 :
             Append(Contents(y), v)[i] = IF i = y.length + 1 THEN v ELSE Contents(y)[i]
    <3>1. \A i \in 1 .. y.length + 1 : i # y.length + 1 => i \in 1 .. y.length
      BY <1>1
    <3>2. QED BY <1>1, <2>1, <3>1, AppendProperties
  <2>4. QED BY <2>1, <2>2, <2>3, SeqEqual
<1>14. QED BY <1>1, <1>4, <1>5, <1>7, <1>12, <1>13 DEF y, z

\* PushFront puts the value before the others.
LEMMA PushedFrontFacts ==
  ASSUME NEW x \in Queue, Ring(x) \/ x = Zero, NEW v \in Value
  PROVE  /\ PushedFront(x, v) \in Queue /\ Ring(PushedFront(x, v))
         /\ Contents(PushedFront(x, v)) = <<v>> \o Contents(x)
         /\ PushedFront(x, v).length = x.length + 1
         /\ Len(PushedFront(x, v).rep) = Len(lazyGrow(lazyInit(x)).rep)
<1> DEFINE y == lazyGrow(lazyInit(x))
           z == PushedFront(x, v)
           C == Len(y.rep)
           f == dec(y, y.front)
<1>1. /\ y \in Queue /\ Ring(y) /\ Contents(y) = Contents(x)
      /\ y.length \in Nat /\ y.length < C /\ y.length = x.length
  BY GrowFacts DEF Queue
<1>2. z = [y EXCEPT !.front = f, !.rep[f + 1] = v, !.length = @ + 1]
  BY DEF PushedFront
<1> HIDE DEF y, z
<1>3. /\ C \in Nat \ {0} /\ y.rep \in Seq(Value \cup {None}) /\ DOMAIN y.rep = 1 .. C
      /\ y.front \in 0 .. C - 1 /\ y.back \in 0 .. C - 1
      /\ y.back + 1 = Slot(y, y.length + 1)
  BY <1>1, SlotFacts DEF Ring
<1>4. f \in 0 .. C - 1 /\ f = (IF y.front = 0 THEN C - 1 ELSE y.front - 1)
  BY <1>3 DEF dec
<1> HIDE DEF f
<1>5. z = [rep |-> [y.rep EXCEPT ![f + 1] = v], front |-> f,
           back |-> y.back, length |-> y.length + 1]
  BY <1>1, <1>2, Zenon DEF Queue
<1>6. /\ z.rep = [y.rep EXCEPT ![f + 1] = v]
      /\ z.front = f /\ z.back = y.back /\ z.length = y.length + 1
  BY <1>5
<1>7. /\ z.rep \in Seq(Value \cup {None}) /\ Len(z.rep) = C
      /\ \A i \in 1 .. C : z.rep[i] = IF i = f + 1 THEN v ELSE y.rep[i]
  <2>1. f + 1 \in 1 .. C /\ v \in Value \cup {None}
    BY <1>3, <1>4
  <2>2. QED BY <1>3, <1>6, <2>1, ExceptSeq
<1>8. z \in Queue
  <2>1. z.front \in Nat /\ z.back \in Nat /\ z.length \in Nat
    BY <1>1, <1>3, <1>4, <1>6
  <2>2. QED BY <1>5, <1>6, <1>7, <2>1 DEF Queue
\* the values move by one place
<1>9. /\ Slot(z, 1) = f + 1 /\ Slot(y, C) = f + 1
      /\ \A i \in 2 .. C + 1 : Slot(z, i) = Slot(y, i - 1)
  <2> DEFINE g == y.front
  <2>1. \A i \in Nat : Slot(z, i) = IF f + i <= C THEN f + i ELSE f + i - C
    BY <1>3, <1>4, <1>6, <1>7 DEF Slot
  <2>2. \A i \in Nat : Slot(y, i) = IF g + i <= C THEN g + i ELSE g + i - C
    BY <1>3 DEF Slot
  <2>3. C \in Nat \ {0} /\ g \in 0 .. C - 1 /\ f = (IF g = 0 THEN C - 1 ELSE g - 1)
    BY <1>3, <1>4
  <2> HIDE DEF C, g
  <2>4. Slot(z, 1) = f + 1 /\ Slot(y, C) = f + 1
    BY <2>1, <2>2, <2>3
  <2>5. ASSUME NEW i \in 2 .. C + 1 PROVE Slot(z, i) = Slot(y, i - 1)
    <3>1. i \in Nat /\ i - 1 \in Nat /\ i <= C + 1 /\ i >= 2
      BY <2>3
    <3>2. QED BY <2>1, <2>2, <2>3, <3>1
  <2>6. QED BY <2>4, <2>5
<1>10. \A i \in 1 .. C : z.rep[Slot(z, i)] = IF i = 1 THEN v ELSE y.rep[Slot(y, i - 1)]
  <2> SUFFICES ASSUME NEW i \in 1 .. C
               PROVE  z.rep[Slot(z, i)] = IF i = 1 THEN v ELSE y.rep[Slot(y, i - 1)]
    OBVIOUS
  <2>1. CASE i = 1
    <3>1. Slot(z, i) = f + 1 /\ f + 1 \in 1 .. C
      BY <1>3, <1>4, <1>9, <2>1
    <3>2. QED BY <1>7, <2>1, <3>1
  <2>2. CASE i # 1
    <3>1. i \in 2 .. C + 1 /\ i - 1 \in 1 .. C /\ C \in 1 .. C /\ i - 1 # C
      BY <1>3, <2>2
    <3>2. Slot(z, i) = Slot(y, i - 1) /\ Slot(y, i - 1) \in 1 .. C /\ Slot(y, i - 1) # f + 1
      BY <1>1, <1>9, <3>1, SlotFacts, Zenon
    <3>3. QED BY <1>7, <2>2, <3>2
  <2>3. QED BY <2>1, <2>2
<1>11. z.back + 1 = Slot(z, z.length + 1)
  <2>1. y.length + 2 \in 2 .. C + 1 /\ (y.length + 2) - 1 = y.length + 1
        /\ z.length + 1 = y.length + 2
    BY <1>1, <1>3, <1>6
  <2>2. QED BY <1>3, <1>6, <1>9, <2>1
<1>12. \A i \in 1 .. C : i <= z.length <=> z.rep[Slot(z, i)] # None
  <2> SUFFICES ASSUME NEW i \in 1 .. C
               PROVE  i <= z.length <=> z.rep[Slot(z, i)] # None
    OBVIOUS
  <2>1. CASE i = 1
    BY <1>1, <1>6, <1>10, <2>1
  <2>2. CASE i # 1
    <3>1. i - 1 \in 1 .. C
      BY <1>3, <2>2
    <3>2. i - 1 <= y.length <=> y.rep[Slot(y, i - 1)] # None
      BY <1>1, <3>1, Zenon DEF Ring
    <3>3. i - 1 <= y.length <=> i <= z.length
      BY <1>1, <1>6, <3>1
    <3>4. QED BY <1>10, <2>2, <3>2, <3>3
  <2>3. QED BY <2>1, <2>2
<1>13. Ring(z)
  <2>1. z.rep # <<>> /\ z.length \in 0 .. C
    BY <1>1, <1>3, <1>6, <1>7
  <2>2. QED BY <1>3, <1>4, <1>6, <1>7, <1>11, <1>12, <2>1 DEF Ring
<1>14. Contents(z) = <<v>> \o Contents(y)
  <2>1. /\ Contents(y) \in Seq(Value) /\ Len(Contents(y)) = y.length
        /\ \A i \in 1 .. y.length : Contents(y)[i] = y.rep[Slot(y, i)]
        /\ Contents(z) \in Seq(Value) /\ Len(Contents(z)) = y.length + 1
        /\ \A i \in 1 .. y.length + 1 : Contents(z)[i] = z.rep[Slot(z, i)]
    BY <1>1, <1>6, <1>8, <1>13, ContentsFacts, Zenon
  <2>2. \A i \in 1 .. y.length + 1 :
          Contents(z)[i] = IF i = 1 THEN v ELSE Contents(y)[i - 1]
    <3> SUFFICES ASSUME NEW i \in 1 .. y.length + 1
                 PROVE  Contents(z)[i] = IF i = 1 THEN v ELSE Contents(y)[i - 1]
      OBVIOUS
    <3>1. i \in 1 .. C /\ (i # 1 => i - 1 \in 1 .. y.length)
      BY <1>1, <1>3
    <3>2. QED BY <1>10, <2>1, <3>1
  <2>3. /\ <<v>> \o Contents(y) \in Seq(Value)
        /\ Len(<<v>> \o Contents(y)) = y.length + 1
        /\ \A i \in 1 .. y.length + 1 :
             (<<v>> \o Contents(y))[i] = IF i = 1 THEN v ELSE Contents(y)[i - 1]
    <3>1. <<v>> \in Seq(Value) /\ Len(<<v>>) = 1 /\ <<v>>[1] = v
      OBVIOUS
    <3>2. /\ <<v>> \o Contents(y) \in Seq(Value)
          /\ Len(<<v>> \o Contents(y)) = 1 + y.length
          /\ \A i \in 1 .. 1 + y.length :
               (<<v>> \o Contents(y))[i] = IF i <= 1 THEN <<v>>[i] ELSE Contents(y)[i - 1]
      BY <2>1, <3>1, ConcatProperties
    <3>3. 1 + y.length = y.length + 1 /\ \A i \in 1 .. y.length + 1 : i <= 1 <=> i = 1
      BY <1>1
    <3>4. QED BY <3>1, <3>2, <3>3
  <2>4. QED BY <2>1, <2>2, <2>3, SeqEqual
<1>15. QED BY <1>1, <1>6, <1>7, <1>8, <1>13, <1>14 DEF y, z

\* PopFront removes the first value, and lazyShrink loses none.
LEMMA PoppedFrontFacts ==
  ASSUME NEW x \in Queue, Ring(x), x.length > 0
  PROVE  /\ PoppedFront(x) \in Queue /\ Ring(PoppedFront(x))
         /\ Contents(PoppedFront(x)) = Tail(Contents(x))
         /\ PoppedFront(x).length = x.length - 1
         /\ Len(PoppedFront(x).rep) = ShrunkSize(Len(x.rep), x.length - 1)
<1> DEFINE z == [x EXCEPT !.rep[x.front + 1] = None, !.front = inc(x, x.front), !.length = @ - 1]
           C == Len(x.rep)
           f == inc(x, x.front)
<1>1. /\ C \in Nat \ {0} /\ x.rep \in Seq(Value \cup {None}) /\ DOMAIN x.rep = 1 .. C
      /\ x.front \in 0 .. C - 1 /\ x.back \in 0 .. C - 1
      /\ x.length \in 1 .. C
      /\ x.back + 1 = Slot(x, x.length + 1)
  BY SlotFacts DEF Ring
<1>2. f \in 0 .. C - 1 /\ f = (IF x.front + 1 = C THEN 0 ELSE x.front + 1)
  BY <1>1 DEF inc
<1>a. z = [x EXCEPT !.rep[x.front + 1] = None, !.front = f, !.length = @ - 1]
  OBVIOUS
<1>b. PoppedFront(x) = lazyShrink(z)
  BY DEF PoppedFront
<1> HIDE DEF z, f
<1>3. z = [rep |-> [x.rep EXCEPT ![x.front + 1] = None], front |-> f,
           back |-> x.back, length |-> x.length - 1]
  BY <1>a, Zenon DEF Queue
<1>4. /\ z.rep = [x.rep EXCEPT ![x.front + 1] = None]
      /\ z.front = f /\ z.back = x.back /\ z.length = x.length - 1
  BY <1>3
<1>5. /\ z.rep \in Seq(Value \cup {None}) /\ Len(z.rep) = C
      /\ \A i \in 1 .. C : z.rep[i] = IF i = x.front + 1 THEN None ELSE x.rep[i]
  <2>1. x.front + 1 \in 1 .. C /\ None \in Value \cup {None}
    BY <1>1
  <2>2. QED BY <1>1, <1>4, <2>1, ExceptSeq
<1>6. z \in Queue
  <2>1. z.front \in Nat /\ z.back \in Nat /\ z.length \in Nat
    BY <1>1, <1>2, <1>4
  <2>2. QED BY <1>3, <1>4, <1>5, <2>1 DEF Queue
<1>7. /\ Slot(x, 1) = x.front + 1 /\ Slot(z, C) = x.front + 1
      /\ \A i \in 1 .. C : Slot(z, i) = Slot(x, i + 1)
  <2> DEFINE g == x.front
  <2>1. \A i \in Nat : Slot(z, i) = IF f + i <= C THEN f + i ELSE f + i - C
    <3>1. Len(z.rep) = C /\ z.front = f /\ f \in Nat /\ C \in Nat
      BY <1>1, <1>2, <1>4, <1>5
    <3> HIDE DEF C
    <3>2. QED BY <3>1 DEF Slot
  <2>2. \A i \in Nat : Slot(x, i) = IF g + i <= C THEN g + i ELSE g + i - C
    BY <1>1 DEF Slot
  <2>3. C \in Nat \ {0} /\ g \in 0 .. C - 1 /\ f = (IF g + 1 = C THEN 0 ELSE g + 1)
    BY <1>1, <1>2
  <2> HIDE DEF C, g
  <2>4. Slot(x, 1) = g + 1 /\ Slot(z, C) = g + 1
    BY <2>1, <2>2, <2>3
  <2>5. ASSUME NEW i \in 1 .. C PROVE Slot(z, i) = Slot(x, i + 1)
    <3>1. i \in Nat /\ i + 1 \in Nat /\ i <= C /\ i >= 1
      BY <2>3
    <3>2. QED BY <2>1, <2>2, <2>3, <3>1
  <2>6. QED BY <2>4, <2>5 DEF g
<1>8. \A i \in 1 .. C : z.rep[Slot(z, i)] = IF i = C THEN None ELSE x.rep[Slot(x, i + 1)]
  <2> SUFFICES ASSUME NEW i \in 1 .. C
               PROVE  z.rep[Slot(z, i)] = IF i = C THEN None ELSE x.rep[Slot(x, i + 1)]
    OBVIOUS
  <2>1. CASE i = C
    <3>1. Slot(z, i) = x.front + 1 /\ x.front + 1 \in 1 .. C
      BY <1>1, <1>7, <2>1
    <3>2. QED BY <1>5, <2>1, <3>1
  <2>2. CASE i # C
    <3>1. i + 1 \in 1 .. C /\ 1 \in 1 .. C /\ i + 1 # 1
      BY <1>1, <2>2
    <3>2. Slot(z, i) = Slot(x, i + 1) /\ Slot(x, i + 1) \in 1 .. C /\ Slot(x, i + 1) # Slot(x, 1)
      BY <1>7, <3>1, SlotFacts
    <3>3. QED BY <1>5, <1>7, <2>2, <3>2
  <2>3. QED BY <2>1, <2>2
<1>9. z.back + 1 = Slot(z, z.length + 1)
  <2>1. z.length + 1 = x.length
    BY <1>1, <1>4
  <2>2. QED BY <1>1, <1>4, <1>7, <2>1
<1>10. \A i \in 1 .. C : i <= z.length <=> z.rep[Slot(z, i)] # None
  <2> SUFFICES ASSUME NEW i \in 1 .. C
               PROVE  i <= z.length <=> z.rep[Slot(z, i)] # None
    OBVIOUS
  <2>1. CASE i = C
    BY <1>1, <1>4, <1>8, <2>1, SMTT(60)
  <2>2. CASE i # C
    <3>1. i + 1 \in 1 .. C
      BY <1>1, <2>2
    <3>2. i + 1 <= x.length <=> x.rep[Slot(x, i + 1)] # None
      BY <3>1 DEF Ring
    <3>3. i + 1 <= x.length <=> i <= z.length
      BY <1>1, <1>4
    <3>4. QED BY <1>8, <2>2, <3>2, <3>3
  <2>3. QED BY <2>1, <2>2
<1>11. Ring(z)
  <2>1. z.rep # <<>> /\ z.length \in 0 .. C
    BY <1>1, <1>4, <1>5
  <2>2. QED BY <1>1, <1>2, <1>4, <1>5, <1>9, <1>10, <2>1 DEF Ring
<1>12. Contents(z) = Tail(Contents(x))
  <2>1. /\ Contents(x) \in Seq(Value) /\ Len(Contents(x)) = x.length
        /\ \A i \in 1 .. x.length : Contents(x)[i] = x.rep[Slot(x, i)]
        /\ Contents(z) \in Seq(Value) /\ Len(Contents(z)) = x.length - 1
        /\ \A i \in 1 .. x.length - 1 : Contents(z)[i] = z.rep[Slot(z, i)]
    BY <1>4, <1>6, <1>11, ContentsFacts, Zenon
  <2>2. \A i \in 1 .. x.length - 1 : Contents(z)[i] = Contents(x)[i + 1]
    <3> SUFFICES ASSUME NEW i \in 1 .. x.length - 1
                 PROVE  Contents(z)[i] = Contents(x)[i + 1]
      OBVIOUS
    <3>1. i \in 1 .. C /\ i # C /\ i + 1 \in 1 .. x.length
      BY <1>1
    <3>2. QED BY <1>8, <2>1, <3>1
  <2>3. /\ Tail(Contents(x)) \in Seq(Value)
        /\ Len(Tail(Contents(x))) = x.length - 1
        /\ \A i \in 1 .. x.length - 1 : Tail(Contents(x))[i] = Contents(x)[i + 1]
    <3>1. Contents(x) # <<>>
      BY <1>1, <2>1
    <3>2. QED BY <2>1, <3>1, HeadTailProperties
  <2>4. QED BY <2>1, <2>2, <2>3, SeqEqual
<1>13. QED BY <1>4, <1>5, <1>6, <1>11, <1>12, <1>b, ShrinkFacts

\* PopBack removes the last value, and lazyShrink loses none.
LEMMA PoppedBackFacts ==
  ASSUME NEW x \in Queue, Ring(x), x.length > 0
  PROVE  /\ PoppedBack(x) \in Queue /\ Ring(PoppedBack(x))
         /\ Contents(PoppedBack(x)) = SubSeq(Contents(x), 1, x.length - 1)
         /\ PoppedBack(x).length = x.length - 1
         /\ Len(PoppedBack(x).rep) = ShrunkSize(Len(x.rep), x.length - 1)
         /\ dec(x, x.back) + 1 = Slot(x, x.length)
<1> DEFINE b == dec(x, x.back)
           z == [x EXCEPT !.rep[b + 1] = None, !.back = b, !.length = @ - 1]
           C == Len(x.rep)
<1>1. /\ C \in Nat \ {0} /\ x.rep \in Seq(Value \cup {None}) /\ DOMAIN x.rep = 1 .. C
      /\ x.front \in 0 .. C - 1 /\ x.back \in 0 .. C - 1
      /\ x.length \in 1 .. C
      /\ x.back + 1 = Slot(x, x.length + 1)
  BY SlotFacts DEF Ring
<1>2. b \in 0 .. C - 1 /\ b = (IF x.back = 0 THEN C - 1 ELSE x.back - 1)
  BY <1>1 DEF dec
<1>a. z = [x EXCEPT !.rep[b + 1] = None, !.back = b, !.length = @ - 1]
  OBVIOUS
<1>5. PoppedBack(x) = lazyShrink(z)
  BY DEF PoppedBack
<1> HIDE DEF z, b
<1>3. b + 1 = Slot(x, x.length)
  <2> DEFINE g == x.front
             n == x.length
             h == x.back
  <2>1. \A i \in Nat : Slot(x, i) = IF g + i <= C THEN g + i ELSE g + i - C
    BY <1>1 DEF Slot
  <2>2. /\ C \in Nat \ {0} /\ g \in 0 .. C - 1 /\ h \in 0 .. C - 1 /\ n \in 1 .. C
        /\ h + 1 = Slot(x, n + 1) /\ b = (IF h = 0 THEN C - 1 ELSE h - 1)
    BY <1>1, <1>2
  <2> HIDE DEF C, g, n, h
  <2>3. n \in Nat /\ n + 1 \in Nat
    BY <2>2
  <2>4. b + 1 = Slot(x, n)
    BY <2>1, <2>2, <2>3
  <2>5. QED BY <2>4 DEF n
<1>4. z = [rep |-> [x.rep EXCEPT ![b + 1] = None], front |-> x.front,
           back |-> b, length |-> x.length - 1]
  BY <1>a, Zenon DEF Queue
<1>6. /\ z.rep = [x.rep EXCEPT ![b + 1] = None]
      /\ z.front = x.front /\ z.back = b /\ z.length = x.length - 1
  BY <1>4
<1>7. /\ z.rep \in Seq(Value \cup {None}) /\ Len(z.rep) = C
      /\ \A i \in 1 .. C : z.rep[i] = IF i = b + 1 THEN None ELSE x.rep[i]
  <2>1. b + 1 \in 1 .. C /\ None \in Value \cup {None}
    BY <1>1, <1>2
  <2>2. QED BY <1>1, <1>6, <2>1, ExceptSeq
<1>8. z \in Queue
  <2>1. z.front \in Nat /\ z.back \in Nat /\ z.length \in Nat
    BY <1>1, <1>2, <1>6
  <2>2. QED BY <1>4, <1>6, <1>7, <2>1 DEF Queue
<1>9. \A i \in 1 .. C : Slot(z, i) = Slot(x, i)
  BY <1>6, <1>7 DEF Slot
<1>10. \A i \in 1 .. C : z.rep[Slot(z, i)] = IF i = x.length THEN None ELSE x.rep[Slot(x, i)]
  <2> SUFFICES ASSUME NEW i \in 1 .. C
               PROVE  z.rep[Slot(z, i)] = IF i = x.length THEN None ELSE x.rep[Slot(x, i)]
    OBVIOUS
  <2>1. Slot(z, i) = Slot(x, i) /\ Slot(x, i) \in 1 .. C /\ x.length \in 1 .. C
    BY <1>1, <1>9, SlotFacts
  <2>2. Slot(x, i) = b + 1 <=> i = x.length
    BY <1>3, <2>1, SlotFacts
  <2>3. QED BY <1>7, <2>1, <2>2
<1>11. z.back + 1 = Slot(z, z.length + 1)
  <2>1. z.length + 1 = x.length
    BY <1>1, <1>6
  <2>2. QED BY <1>1, <1>3, <1>6, <1>9, <2>1
<1>12. \A i \in 1 .. C : i <= z.length <=> z.rep[Slot(z, i)] # None
  <2> SUFFICES ASSUME NEW i \in 1 .. C
               PROVE  i <= z.length <=> z.rep[Slot(z, i)] # None
    OBVIOUS
  <2>1. i <= x.length <=> x.rep[Slot(x, i)] # None
    BY DEF Ring
  <2>2. CASE i = x.length
    BY <1>1, <1>6, <1>10, <2>2
  <2>3. CASE i # x.length
    <3>1. i <= x.length <=> i <= z.length
      BY <1>1, <1>6, <2>3
    <3>2. QED BY <1>10, <2>1, <2>3, <3>1
  <2>4. QED BY <2>2, <2>3
<1>13. Ring(z)
  <2>1. z.rep # <<>> /\ z.length \in 0 .. C
    BY <1>1, <1>6, <1>7
  <2>2. QED BY <1>1, <1>2, <1>6, <1>7, <1>11, <1>12, <2>1 DEF Ring
<1>14. Contents(z) = SubSeq(Contents(x), 1, x.length - 1)
  <2> DEFINE n == x.length - 1
  <2>1. /\ Contents(x) \in Seq(Value) /\ Len(Contents(x)) = x.length
        /\ \A i \in 1 .. x.length : Contents(x)[i] = x.rep[Slot(x, i)]
        /\ Contents(z) \in Seq(Value) /\ Len(Contents(z)) = n
        /\ \A i \in 1 .. n : Contents(z)[i] = z.rep[Slot(z, i)]
    BY <1>6, <1>8, <1>13, ContentsFacts, Zenon
  <2>2. /\ n \in Nat /\ 1 .. n - 1 + 1 = 1 .. n
        /\ \A i \in 1 .. n : i \in 1 .. C /\ i # x.length /\ i \in 1 .. x.length
    BY <1>1
  <2>3. \A i \in 1 .. n : Contents(z)[i] = Contents(x)[i]
    BY <1>10, <2>1, <2>2
  <2>4. \A i \in 1 .. n : Contents(x)[i] \in Value
    BY <2>1, <2>2, ElementOfSeq
  <2> HIDE DEF n
  <2>5. /\ SubSeq(Contents(x), 1, n) \in Seq(Value)
        /\ Len(SubSeq(Contents(x), 1, n)) = n
        /\ \A i \in 1 .. n : SubSeq(Contents(x), 1, n)[i] = Contents(x)[i]
    <3>1. /\ SubSeq(Contents(x), 1, n) \in Seq(Value)
          /\ Len(SubSeq(Contents(x), 1, n)) = IF 1 <= n THEN n - 1 + 1 ELSE 0
          /\ \A i \in 1 .. n - 1 + 1 : SubSeq(Contents(x), 1, n)[i] = Contents(x)[1 + i - 1]
      BY <2>2, <2>4, SubSeqProperties
    <3>2. \A i \in 1 .. n : 1 + i - 1 = i
      BY <2>2
    <3>3. (IF 1 <= n THEN n - 1 + 1 ELSE 0) = n
      BY <2>2
    <3>4. QED BY <2>2, <3>1, <3>2, <3>3
  <2>6. Contents(z) = SubSeq(Contents(x), 1, n)
    BY <2>1, <2>3, <2>5, SeqEqual
  <2>7. QED BY <2>6 DEF n
<1>15. QED BY <1>3, <1>5, <1>6, <1>7, <1>8, <1>13, <1>14, ShrinkFacts, Zenon DEF b

(***************************************************************************)
(* The theorems.                                                           *)
(***************************************************************************)
\* What a call returns: the ends of the contents.
LEMMA EndsFacts ==
  ASSUME NEW x \in Queue, Ring(x)
  PROVE  /\ x.length = 0 => /\ Contents(x) = <<>>
                            /\ At(x, x.front) = None /\ At(x, dec(x, x.back)) = None
         /\ x.length > 0 => /\ Contents(x) # <<>> /\ Len(Contents(x)) = x.length
                            /\ At(x, x.front) = Contents(x)[1]
                            /\ At(x, dec(x, x.back)) = Contents(x)[Len(Contents(x))]
<1>1. /\ Len(x.rep) \in Nat \ {0} /\ DOMAIN x.rep = 1 .. Len(x.rep)
      /\ x.front \in 0 .. Len(x.rep) - 1 /\ x.back \in 0 .. Len(x.rep) - 1
      /\ x.length \in 0 .. Len(x.rep)
  BY SlotFacts DEF Ring
<1>2. dec(x, x.back) \in 0 .. Len(x.rep) - 1
  BY <1>1 DEF dec
<1>3. /\ At(x, x.front) = x.rep[x.front + 1]
      /\ At(x, dec(x, x.back)) = x.rep[dec(x, x.back) + 1]
  BY <1>1, <1>2 DEF At
<1>4. Slot(x, 1) = x.front + 1
  BY <1>1 DEF Slot
<1>5. CASE x.length = 0
  <2>1. Contents(x) = <<>>
    BY <1>5 DEF Contents
  <2>2. \A k \in 1 .. Len(x.rep) : x.rep[k] = None
    <3> SUFFICES ASSUME NEW k \in 1 .. Len(x.rep) PROVE x.rep[k] = None
      OBVIOUS
    <3> DEFINE C == Len(x.rep)
               g == x.front
               i == IF k <= g THEN k - g + C ELSE k - g
    <3>1. C \in Nat \ {0} /\ g \in 0 .. C - 1 /\ k \in 1 .. C
      BY <1>1
    <3>2. Slot(x, i) = IF g + i <= C THEN g + i ELSE g + i - C
      BY <3>1 DEF Slot
    <3> HIDE DEF C, g
    <3>3. i \in 1 .. C /\ Slot(x, i) = k
      BY <3>1, <3>2
    <3>4. ~(i <= x.length)
      BY <1>5, <3>3, <3>1
    <3>5. QED BY <3>3, <3>4 DEF Ring, C
  <2>3. x.front + 1 \in 1 .. Len(x.rep) /\ dec(x, x.back) + 1 \in 1 .. Len(x.rep)
    BY <1>1, <1>2
  <2>4. QED BY <1>3, <1>5, <2>1, <2>2, <2>3
<1>6. CASE x.length # 0
  <2>1. /\ Len(Contents(x)) = x.length /\ x.length \in Nat \ {0}
        /\ Contents(x)[1] = x.rep[Slot(x, 1)]
        /\ Contents(x)[x.length] = x.rep[Slot(x, x.length)]
    BY <1>1, <1>6, ContentsFacts
  <2>2. Contents(x) # <<>>
    BY <2>1, EmptySeq
  <2>3. dec(x, x.back) + 1 = Slot(x, x.length)
    BY <1>1, <1>6, PoppedBackFacts
  <2>4. QED BY <1>3, <1>4, <1>6, <2>1, <2>2, <2>3
<1>7. QED BY <1>5, <1>6

\* Doubling a size leaves a power of two.
LEMMA DoubledFacts ==
  ASSUME NEW n \in Nat, IsPowerOfTwo(n)
  PROVE  IsPowerOfTwo(n * 2)
<1> SUFFICES ASSUME NEW d \in 1 .. n * 2, NEW e \in 1 .. n * 2, d * e = n * 2, d % 2 # 0
             PROVE  d = 1
  BY DEF IsPowerOfTwo
<1>1. PICK h \in Nat : d = 2 * h + 1
  <2>1. d = 2 * (d \div 2) + 1 /\ d \div 2 \in Nat
    OBVIOUS
  <2>2. QED BY <2>1
<1> DEFINE g == n - h * e
<1>2. h * e \in Nat /\ g \in Int
  OBVIOUS
<1>3. e = 2 * g
  <2>1. d * e = 2 * (h * e) + e
    BY <1>1
  <2>2. QED BY <1>2, <2>1
<1>4. d * g = n
  <2>1. d * e = 2 * (d * g)
    BY <1>2, <1>3
  <2>2. d * g \in Int
    BY <1>2
  <2>3. QED BY <2>1, <2>2
<1>5. g \in 1 .. n /\ d \in 1 .. n
  <2>1. g >= 1
    BY <1>2, <1>3
  <2>2. d * g >= d /\ d * g >= g
    BY <1>2, <2>1
  <2>3. QED BY <1>2, <1>4, <2>1, <2>2
<1>6. QED BY <1>4, <1>5 DEF IsPowerOfTwo

\* A power of two above 1 is twice a power of two.
LEMMA HalvedFacts ==
  ASSUME NEW n \in Nat, IsPowerOfTwo(n), n > 1
  PROVE  n \div 2 \in Nat \ {0} /\ n = 2 * (n \div 2) /\ IsPowerOfTwo(n \div 2)
<1> DEFINE h == n \div 2
<1>1. n % 2 = 0
  BY DEF IsPowerOfTwo
<1>2. h \in Nat \ {0} /\ n = 2 * h
  BY <1>1
<1> HIDE DEF h
<1>3. ASSUME NEW d \in 1 .. h, NEW e \in 1 .. h, d * e = h
      PROVE  d = 1 \/ d % 2 = 0
  <2>1. d \in 1 .. n /\ 2 * e \in 1 .. n
    BY <1>2
  <2>2. d * (2 * e) = n
    BY <1>2, <1>3
  <2>3. QED BY <2>1, <2>2, Zenon DEF IsPowerOfTwo
<1>4. IsPowerOfTwo(h)
  BY <1>3, Zenon DEF IsPowerOfTwo
<1>5. QED BY <1>2, <1>4 DEF h

\* A power of two above 4 is a multiple of 8.
LEMMA EighthFacts ==
  ASSUME NEW n \in Nat, IsPowerOfTwo(n), n > 4
  PROVE  \E k \in Nat : n = 8 * k
<1> DEFINE h == n \div 2
           g == h \div 2
           k == g \div 2
<1>1. h \in Nat \ {0} /\ n = 2 * h /\ IsPowerOfTwo(h)
  BY HalvedFacts
<1> HIDE DEF h
<1>2. g \in Nat \ {0} /\ h = 2 * g /\ IsPowerOfTwo(g)
  BY <1>1, HalvedFacts
<1> HIDE DEF g
<1>3. k \in Nat \ {0} /\ g = 2 * k
  BY <1>1, <1>2, HalvedFacts
<1> HIDE DEF k
<1>4. QED BY <1>1, <1>2, <1>3

\* What the size of the slice is after a push or a pop.
Sized(x) == IsPowerOfTwo(Len(x.rep)) /\ RoomFor(Len(x.rep), x.length)

LEMMA GrowSizes ==
  ASSUME NEW x \in Queue, Ring(x) \/ x = Zero, Sized(x)
  PROVE  LET y == lazyGrow(lazyInit(x)) IN
         IsPowerOfTwo(Len(y.rep)) /\ RoomFor(Len(y.rep), x.length + 1)
<1> DEFINE z == lazyInit(x)
           y == lazyGrow(z)
<1>1. /\ z \in Queue /\ Ring(z) /\ z.length = x.length
      /\ IsPowerOfTwo(Len(z.rep)) /\ RoomFor(Len(z.rep), z.length)
  <2>1. CASE x = Zero
    <3>1. z = Cleared /\ Len(Cleared.rep) = 1 /\ Cleared.length = 0 /\ x.length = 0
      BY <2>1 DEF lazyInit, Zero, Cleared
    <3>2. QED BY <3>1, ClearedFacts DEF IsPowerOfTwo, RoomFor
  <2>2. CASE Ring(x)
    <3>1. z = x
      BY <2>2 DEF lazyInit, Ring
    <3>2. QED BY <2>2, <3>1 DEF Sized
  <2>3. QED BY <2>1, <2>2
<1>2. y = lazyGrow(z)
  OBVIOUS
<1> HIDE DEF y, z
<1>3. Len(z.rep) \in Nat \ {0} /\ z.length \in 0 .. Len(z.rep)
  BY <1>1, SlotFacts DEF Ring
<1> DEFINE Good == IsPowerOfTwo(Len(y.rep)) /\ RoomFor(Len(y.rep), x.length + 1)
<1>4. ASSUME full(z) PROVE Good
  <2>1. Len(z.rep) * 2 \in Nat /\ z.length < Len(z.rep) * 2 /\ z.length > 0
    BY <1>3, <1>4 DEF full
  <2>2. Len(y.rep) = Len(z.rep) * 2
    BY <1>1, <1>2, <1>4, <2>1, ResizeFacts, Zenon DEF lazyGrow
  <2>3. IsPowerOfTwo(Len(z.rep) * 2)
    BY <1>1, <1>3, DoubledFacts
  <2>4. RoomFor(Len(z.rep) * 2, x.length + 1)
    BY <1>1, <1>3, <1>4 DEF full, RoomFor
  <2>5. QED BY <2>2, <2>3, <2>4
<1>5. ASSUME ~full(z) PROVE Good
  <2>1. y = z
    BY <1>2, <1>5 DEF lazyGrow
  <2>2. QED BY <1>1, <1>3, <2>1 DEF RoomFor
<1>6. Good
  BY <1>4, <1>5
<1>7. QED BY <1>6 DEF y, z

LEMMA ShrinkSizes ==
  ASSUME NEW size \in Nat \ {0}, NEW length \in 1 .. size,
         IsPowerOfTwo(size), RoomFor(size, length)
  PROVE  /\ IsPowerOfTwo(ShrunkSize(size, length - 1))
         /\ RoomFor(ShrunkSize(size, length - 1), length - 1)
<1> DEFINE n == length - 1
<1>1. n \in Nat /\ length = n + 1
  OBVIOUS
<1> HIDE DEF n
<1>2. CASE size <= 4
  <2>1. size \div 4 <= 1
    BY <1>2
  <2>2. ShrunkSize(size, n) = size
    BY <1>1, <2>1 DEF ShrunkSize
  <2>3. QED BY <1>2, <2>2 DEF RoomFor, n
<1>3. CASE size > 4
  <2>1. PICK k \in Nat : size = 8 * k
    BY <1>3, EighthFacts
  <2>2. size \div 4 = 2 * k /\ size \div 2 = 4 * k /\ k >= 1
    BY <1>3, <2>1
  <2>3. IsPowerOfTwo(size \div 2)
    BY <1>3, HalvedFacts
  <2>4. CASE 1 < n /\ n < size \div 4
    <3>1. ShrunkSize(size, n) = size \div 2
      BY <2>4 DEF ShrunkSize
    <3>2. RoomFor(4 * k, n)
      BY <1>1, <2>1, <2>2, <2>4 DEF RoomFor
    <3>3. QED BY <2>2, <2>3, <3>1, <3>2 DEF n
  <2>5. CASE ~(1 < n /\ n < size \div 4)
    <3>1. ShrunkSize(size, n) = size
      BY <2>5 DEF ShrunkSize
    <3>2. RoomFor(8 * k, n)
      BY <1>1, <2>1, <2>2, <2>5 DEF RoomFor
    <3>3. QED BY <2>1, <3>1, <3>2 DEF n
  <2>6. QED BY <2>4, <2>5
<1>4. QED BY <1>2, <1>3

\* What every reachable state satisfies.
Inv == /\ q \in Queue
       /\ Ring(q) \/ (q = Zero /\ ~NewQueue)
       /\ result \in Value \cup {None, Panic}

LEMMA InitInv == Init => Inv
  BY ClearedFacts DEF Init, Inv

LEMMA StepInv == Inv /\ [Next]_vars => Inv'
<1> SUFFICES ASSUME Inv, [Next]_vars PROVE Inv'
  OBVIOUS
<1> USE DEF Inv
<1>1. \A i : At(q, i) \in Value \cup {None, Panic}
  <2> SUFFICES ASSUME NEW i PROVE At(q, i) \in Value \cup {None, Panic}
    OBVIOUS
  <2>1. CASE i + 1 \in DOMAIN q.rep
    <3>1. q.rep \in Seq(Value \cup {None}) /\ i + 1 \in 1 .. Len(q.rep)
      BY <2>1, LenProperties DEF Queue
    <3>2. q.rep[i + 1] \in Value \cup {None}
      BY <3>1, ElementOfSeq
    <3>3. QED BY <2>1, <3>2 DEF At
  <2>2. QED BY <2>1 DEF At
<1>2. q.length > 0 => Ring(q)
  BY DEF Zero
<1>3. CASE Clear
  BY <1>3, ClearedFacts DEF Clear
<1>4. CASE Front \/ Back
  BY <1>1, <1>4 DEF Front, Back
<1>5. CASE PopFront
  BY <1>1, <1>2, <1>5, PoppedFrontFacts DEF PopFront
<1>6. CASE PopBack
  BY <1>1, <1>2, <1>6, PoppedBackFacts DEF PopBack
<1>7. ASSUME NEW v \in Value, PushFront(v) PROVE Inv'
  BY <1>7, PushedFrontFacts, Zenon DEF PushFront
<1>8. ASSUME NEW v \in Value, PushBack(v) PROVE Inv'
  BY <1>8, PushedBackFacts DEF PushBack
<1>9. CASE UNCHANGED vars
  BY <1>9 DEF vars
<1>10. QED
  BY <1>3, <1>4, <1>5, <1>6, <1>7, <1>8, <1>9 DEF Next

\* front, back, length and the slots agree after any sequence of calls, for a
\* queue made by NewQueue and for the zero value.
THEOREM QueueTypeCorrect == Spec => []TypeOK
<1>1. Inv => TypeOK
  BY DEF Inv, TypeOK, Queue
<1>2. QED
  BY <1>1, InitInv, StepInv, PTL DEF Spec

\* The sizes go with Inv: a slice is halved only when it is a multiple of 8,
\* so that the half is a power of two and still a quarter full.
LEMMA StepSized == Inv /\ Sized(q) /\ [Next]_vars => Sized(q)'
<1> SUFFICES ASSUME Inv, Sized(q), [Next]_vars PROVE Sized(q)'
  OBVIOUS
<1>1. q \in Queue /\ (Ring(q) \/ q = Zero) /\ (q.length > 0 => Ring(q))
  BY DEF Inv, Zero
<1>2. ASSUME q.length > 0
      PROVE  Sized(PoppedFront(q)) /\ Sized(PoppedBack(q))
  <2>1. Len(q.rep) \in Nat \ {0} /\ q.length \in 1 .. Len(q.rep)
    BY <1>1, <1>2, SlotFacts DEF Ring
  <2>2. QED BY <1>1, <1>2, <2>1, PoppedFrontFacts, PoppedBackFacts, ShrinkSizes DEF Sized
<1>3. CASE Clear
  <2>1. q' = Cleared /\ Len(Cleared.rep) = 1
    BY <1>3 DEF Clear, Cleared
  <2>2. QED BY <2>1 DEF Sized, IsPowerOfTwo, RoomFor
<1>4. CASE Front \/ Back
  BY <1>4 DEF Front, Back
<1>5. CASE PopFront
  BY <1>2, <1>5 DEF PopFront
<1>6. CASE PopBack
  BY <1>2, <1>6 DEF PopBack
<1>7. ASSUME NEW v \in Value, PushFront(v) PROVE Sized(q)'
  BY <1>1, <1>7, GrowSizes, PushedFrontFacts, Zenon DEF PushFront, Sized
<1>8. ASSUME NEW v \in Value, PushBack(v) PROVE Sized(q)'
  BY <1>1, <1>8, GrowSizes, PushedBackFacts DEF PushBack, Sized
<1>9. CASE UNCHANGED vars
  BY <1>9 DEF vars
<1>10. QED
  BY <1>3, <1>4, <1>5, <1>6, <1>7, <1>8, <1>9 DEF Next

LEMMA AlwaysSized == Spec => []Sized(q)
<1>1. Init => Sized(q)
  <2> SUFFICES ASSUME Init PROVE Sized(q)
    OBVIOUS
  <2>1. Len(q.rep) \in {0, 1}
    BY DEF Init, Cleared, Zero
  <2>2. IsPowerOfTwo(0) /\ IsPowerOfTwo(1) /\ \A n : RoomFor(0, n) /\ RoomFor(1, n)
    BY DEF IsPowerOfTwo, RoomFor
  <2>3. QED BY <2>1, <2>2, Zenon DEF Sized
<1>2. QED
  BY <1>1, InitInv, StepInv, StepSized, PTL DEF Spec

\* The size of the slice stays a power of two, which the masks of inc and dec
\* take for granted, through any sequence of growing and shrinking.
THEOREM SizeIsPowerOfTwo == Spec => []PowerOfTwo
<1>1. Sized(q) => PowerOfTwo
  BY DEF Sized, PowerOfTwo
<1>2. QED
  BY <1>1, AlwaysSized, PTL

\* lazyShrink gives memory back at every pop: no queue keeps a slice larger
\* than 8 with less than a quarter of it in use.
THEOREM SliceIsGivenBack == Spec => []NotSparse
<1>1. Sized(q) => NotSparse
  BY DEF Sized, NotSparse
<1>2. QED
  BY <1>1, AlwaysSized, PTL

\* A queue made by NewQueue is the double-ended queue of Deque, whatever its
\* length: no wrap, growth or shrink loses, repeats or reorders a value.
THEOREM QueueImplementsDeque ==
  ASSUME NewQueue
  PROVE  Spec => ImplementsDeque
<1> USE DEF Inv
<1>1. Init => Abstract!Init
  BY ClearedFacts DEF Init, Abstract!Init
<1>2. ASSUME Inv, [Next]_vars PROVE [Abstract!Next]_(Abstract!vars)
  <2> USE <1>2, NewQueue
  <2>0. q \in Queue /\ Ring(q) /\ q.length \in Nat
    BY DEF Queue
  <2>1. CASE Clear
    <3>1. Abstract!Clear
      BY <2>1, ClearedFacts DEF Clear, Abstract!Clear
    <3>2. QED BY <3>1 DEF Abstract!Next
  <2>2. CASE Front
    <3>1. Abstract!Front
      BY <2>0, <2>2, EndsFacts DEF Front, Abstract!Front, Abstract!First
    <3>2. QED BY <3>1 DEF Abstract!Next
  <2>3. CASE Back
    <3>1. Abstract!Back
      BY <2>0, <2>3, EndsFacts DEF Back, Abstract!Back, Abstract!Last
    <3>2. QED BY <3>1 DEF Abstract!Next
  <2>4. CASE PopFront
    <3>1. CASE q.length = 0
      <4>1. result' = None /\ UNCHANGED q /\ Contents(q) = <<>>
        BY <2>0, <2>4, <3>1, EndsFacts DEF PopFront
      <4>2. Abstract!PopFront
        BY <4>1 DEF Abstract!PopFront, Abstract!First
      <4>3. QED BY <4>2 DEF Abstract!Next
    <3>2. CASE q.length > 0
      <4>1. /\ result' = At(q, q.front) /\ Contents(q)' = Tail(Contents(q))
            /\ Contents(q) # <<>> /\ At(q, q.front) = Contents(q)[1]
        BY <2>0, <2>4, <3>2, EndsFacts, PoppedFrontFacts DEF PopFront
      <4>2. Abstract!PopFront
        BY <4>1 DEF Abstract!PopFront, Abstract!First
      <4>3. QED BY <4>2 DEF Abstract!Next
    <3>3. QED BY <2>0, <3>1, <3>2
  <2>5. CASE PopBack
    <3>1. CASE q.length = 0
      <4>1. result' = None /\ UNCHANGED q /\ Contents(q) = <<>>
        BY <2>0, <2>5, <3>1, EndsFacts DEF PopBack
      <4>2. Abstract!PopBack
        BY <4>1 DEF Abstract!PopBack, Abstract!Last
      <4>3. QED BY <4>2 DEF Abstract!Next
    <3>2. CASE q.length > 0
      <4>1. /\ result' = At(q, dec(q, q.back))
            /\ Contents(q)' = SubSeq(Contents(q), 1, q.length - 1)
            /\ Contents(q) # <<>> /\ Len(Contents(q)) = q.length
            /\ At(q, dec(q, q.back)) = Contents(q)[Len(Contents(q))]
        BY <2>0, <2>5, <3>2, EndsFacts, PoppedBackFacts DEF PopBack
      <4>2. Abstract!PopBack
        BY <4>1 DEF Abstract!PopBack, Abstract!Last
      <4>3. QED BY <4>2 DEF Abstract!Next
    <3>3. QED BY <2>0, <3>1, <3>2
  <2>6. ASSUME NEW v \in Value, PushFront(v) PROVE [Abstract!Next]_(Abstract!vars)
    <3>1. Abstract!PushFront(v)
      BY <2>0, <2>6, PushedFrontFacts, Zenon DEF PushFront, Abstract!PushFront
    <3>2. QED BY <3>1 DEF Abstract!Next
  <2>7. ASSUME NEW v \in Value, PushBack(v) PROVE [Abstract!Next]_(Abstract!vars)
    <3>1. Abstract!PushBack(v)
      BY <2>0, <2>7, PushedBackFacts DEF PushBack, Abstract!PushBack
    <3>2. QED BY <3>1 DEF Abstract!Next
  <2>8. CASE UNCHANGED vars
    BY <2>8 DEF vars, Abstract!vars
  <2>9. QED
    BY <2>1, <2>2, <2>3, <2>4, <2>5, <2>6, <2>7, <2>8 DEF Next
<1>3. QED
  BY <1>1, <1>2, InitInv, StepInv, PTL DEF Spec, ImplementsDeque, Abstract!Spec

-----------------------------------------------------------------------------
(* Texts and lines.                                                        *)

Text == Seq(Bytes)
\* a text without the end of a line; a line
Part == Seq(Bytes \ {NewLine})
Line == {Append(p, NewLine) : p \in Part}

\* FlattenSeq, one sequence after the other.
LEMMA FlattenReads ==
  ASSUME NEW S, NEW ls \in Seq(Seq(S))
  PROVE  \E f \in [0 .. Len(ls) -> Seq(S)] :
           /\ f[0] = <<>> /\ \A i \in 1 .. Len(ls) : f[i] = f[i - 1] \o ls[i]
           /\ Texts!FlattenSeq(ls) = f[Len(ls)]
<1> DEFINE n    == Len(ls)
           Step == [i \in 1 .. n |-> [v \in Seq(S) |-> v \o ls[i]]]
<1>0. n \in Nat /\ (\A i \in 1 .. n : ls[i] \in Seq(S)) /\ (n = 0 => ls = <<>>)
  OBVIOUS
<1>1. Step \in [1 .. n -> [Seq(S) -> Seq(S)]]
  BY <1>0
<1>2. <<>> \in Seq(S)
  OBVIOUS
<1>3. PICK f \in [0 .. n -> Seq(S)] : f[0] = <<>> /\ \A i \in 1 .. n : f[i] = Step[i][f[i - 1]]
  <2> HIDE DEF Step, n
  <2> QED
    <3>1. HasSteps(n, Seq(S), <<>>, Step)
      BY <1>0, <1>1, <1>2, StepsExist, Zenon
    <3> QED
      BY <3>1, Zenon DEF HasSteps
<1>4. \A i \in 1 .. n : f[i] = f[i - 1] \o ls[i]
  <2> TAKE i \in 1 .. n
  <2>1. i - 1 \in 0 .. n
    BY <1>0
  <2>2. f[i - 1] \in Seq(S)
    BY <2>1, Zenon
  <2> QED
    BY <1>3, <2>2, Zenon
<1> HIDE DEF Step
<1>5. CASE n = 0
  <2>1. Texts!FlattenSeq(ls) = ls
    BY <1>5 DEF Texts!FlattenSeq, n
  <2> QED
    BY <1>0, <1>3, <1>5, <2>1 DEF n
<1>6. CASE n # 0
  <2> DEFINE g == [i \in 1 .. n |-> f[i]]
             r == CHOOSE h : h = [i \in 1 .. n |-> IF i = 1 THEN ls[i] ELSE h[i - 1] \o ls[i]]
  <2>1. f[1] = ls[1]
    <3>1. 1 \in 1 .. n
      BY <1>0, <1>6
    <3>2. f[1] = f[1 - 1] \o ls[1] /\ ls[1] \in Seq(S)
      BY <1>0, <1>4, <3>1, Zenon
    <3>3. f[1 - 1] = <<>>
      BY <1>3
    <3>4. <<>> \o ls[1] = ls[1]
      BY <3>2
    <3> QED
      BY <3>2, <3>3, <3>4
  <2>2. g = [i \in 1 .. n |-> IF i = 1 THEN ls[i] ELSE g[i - 1] \o ls[i]]
    <3> SUFFICES ASSUME NEW i \in 1 .. n
                 PROVE  f[i] = IF i = 1 THEN ls[i] ELSE g[i - 1] \o ls[i]
      BY Zenon
    <3>1. CASE i = 1
      BY <2>1, <3>1
    <3>2. CASE i # 1
      <4>1. i - 1 \in 1 .. n
        BY <1>0, <3>2
      <4>2. g[i - 1] = f[i - 1]
        BY <4>1
      <4> QED
        BY <1>4, <3>2, <4>2, Zenon
    <3> QED
      BY <3>1, <3>2
  <2> HIDE DEF g
  <2>3. r = [i \in 1 .. n |-> IF i = 1 THEN ls[i] ELSE r[i - 1] \o ls[i]]
    BY <2>2, Zenon
  <2>4. Texts!FlattenSeq(ls) = r[n]
    BY <1>6, Zenon DEF Texts!FlattenSeq, n
  <2> HIDE DEF r
  <2> DEFINE h == [i \in 0 .. n |-> IF i = 0 THEN <<>> ELSE r[i]]
  <2>5. h[0] = f[0]
    BY <1>0, <1>3
  <2>6. ASSUME NEW i \in 1 .. n, h[i - 1] = f[i - 1]
        PROVE  h[i] = f[i]
    <3>1. h[i] = r[i] /\ r[i] = IF i = 1 THEN ls[i] ELSE r[i - 1] \o ls[i]
      <4>1. h[i] = r[i]
        BY <1>0
      <4> QED
        BY <2>3, <4>1, Zenon
    <3>2. CASE i = 1
      BY <2>1, <3>1, <3>2
    <3>3. CASE i # 1
      <4>1. h[i - 1] = r[i - 1]
        BY <1>0, <3>3
      <4> QED
        BY <1>4, <2>6, <3>1, <3>3, <4>1, Zenon
    <3> QED
      BY <3>2, <3>3
  <2>7. \A i \in 0 .. n : h[i] = f[i]
    <3> HIDE DEF h
    <3>1. SameUpTo(n, h, f)
      BY <1>0, <2>5, <2>6, StepsAgree, Zenon
    <3> QED
      BY <3>1 DEF SameUpTo
  <2>8. h[n] = r[n] /\ h[n] = f[n]
    BY <1>0, <1>6, <2>7
  <2> QED
    BY <1>3, <1>4, <2>4, <2>8, Zenon DEF n
<1> QED
  BY <1>5, <1>6

LEMMA FlattenFacts ==
  ASSUME NEW S, NEW ls \in Seq(Seq(S)), NEW l \in Seq(S)
  PROVE  /\ Texts!FlattenSeq(<<>>) = <<>> /\ Texts!FlattenSeq(ls) \in Seq(S)
         /\ Texts!FlattenSeq(Append(ls, l)) = Texts!FlattenSeq(ls) \o l
<1> DEFINE t == Append(ls, l)
           n == Len(ls)
<1>1. t \in Seq(Seq(S)) /\ Len(t) = n + 1 /\ t[n + 1] = l /\ (\A i \in 1 .. n : t[i] = ls[i]) /\ n \in Nat
  OBVIOUS
<1>2. PICK f \in [0 .. n -> Seq(S)] :
        f[0] = <<>> /\ (\A i \in 1 .. n : f[i] = f[i - 1] \o ls[i]) /\ Texts!FlattenSeq(ls) = f[n]
  BY FlattenReads, Zenon
<1> HIDE DEF t
<1>7. PICK g \in [0 .. Len(t) -> Seq(S)] :
        /\ g[0] = <<>> /\ \A i \in 1 .. Len(t) : g[i] = g[i - 1] \o t[i]
        /\ Texts!FlattenSeq(t) = g[Len(t)]
  BY <1>1, FlattenReads, Zenon
<1>3. /\ g[0] = <<>> /\ \A i \in 1 .. n + 1 : g[i] = g[i - 1] \o t[i]
      /\ Texts!FlattenSeq(t) = g[n + 1]
  BY <1>1, <1>7, Zenon
<1> HIDE DEF n
<1>4. \A i \in 0 .. n : f[i] = g[i]
  <2>1. ASSUME NEW i \in 1 .. n, f[i - 1] = g[i - 1]
        PROVE  f[i] = g[i]
    <3>1. f[i] = f[i - 1] \o ls[i]
      BY <1>2, Zenon
    <3>2. i \in 1 .. n + 1 /\ t[i] = ls[i]
      BY <1>1
    <3>3. g[i] = g[i - 1] \o t[i]
      BY <1>3, <3>2, Zenon
    <3> QED
      BY <2>1, <3>1, <3>2, <3>3
  <2>2. SameUpTo(n, f, g)
    BY <1>1, <1>2, <1>3, <2>1, StepsAgree, Zenon
  <2> QED
    BY <2>2 DEF SameUpTo
<1>5. Texts!FlattenSeq(t) = f[n] \o l
  <2>1. ASSUME NEW i \in 1 .. n + 1, i = n + 1
        PROVE  Texts!FlattenSeq(t) = f[n] \o l
    <3>1. g[i] = g[i - 1] \o t[i]
      BY <1>3, Zenon
    <3>2. i - 1 = n /\ f[n] = g[n] /\ t[i] = l /\ Texts!FlattenSeq(t) = g[i]
      BY <1>1, <1>3, <1>4, <2>1
    <3> QED
      BY <3>1, <3>2, Zenon
  <2> QED
    BY <1>1, <2>1
<1>6. Texts!FlattenSeq(<<>>) = <<>>
  BY DEF Texts!FlattenSeq
<1> QED
  BY <1>1, <1>2, <1>5, <1>6 DEF t

\* What is used of texts.
LEMMA TextFacts ==
  /\ <<>> \in Text
  /\ \A a \in Text : a \o <<>> = a /\ <<>> \o a = a
  /\ \A a, b \in Text : a \o b \in Text
  /\ \A a, b, c \in Text : (a \o b) \o c = a \o (b \o c)
<1>1. <<>> \in Text /\ \A a, b \in Text : a \o b \in Text
  BY DEF Text
<1>2. \A a \in Text : a \o <<>> = a /\ <<>> \o a = a
  BY ConcatEmptySeq DEF Text
<1>3. \A a, b, c \in Text : (a \o b) \o c = a \o (b \o c)
  BY ConcatAssociative DEF Text
<1> QED
  BY <1>1, <1>2, <1>3, Zenon

LEMMA TextAssociative == \A a, b, c \in Text : (a \o b) \o c = a \o (b \o c)
BY TextFacts, Zenon

\* A sequence from the k-th on.
LEMMA SuffixReads ==
  ASSUME NEW S, NEW s \in Seq(S), NEW k \in 0 .. Len(s)
  PROVE  /\ SubSeq(s, k + 1, Len(s)) \in Seq(S) /\ Len(SubSeq(s, k + 1, Len(s))) = Len(s) - k
         /\ \A i \in 1 .. Len(s) - k : SubSeq(s, k + 1, Len(s))[i] = s[k + i]
OBVIOUS

\* Lists of texts.
LEMMA ListFacts ==
  ASSUME NEW ls \in Seq(Text), NEW ms \in Seq(Text), NEW l \in Text
  PROVE  ls \o Append(ms, l) = Append(ls \o ms, l) /\ ls \o ms \in Seq(Text)
<1>1. ls \o ms \in Seq(Text) /\ Append(ms, l) \in Seq(Text) /\ <<l>> \in Seq(Text)
  OBVIOUS
<1>2. Append(ms, l) = ms \o <<l>> /\ Append(ls \o ms, l) = (ls \o ms) \o <<l>>
  BY <1>1, AppendIsConcat
<1>3. (ls \o ms) \o <<l>> = ls \o (ms \o <<l>>)
  BY <1>1, ConcatAssociative
<1> QED
  BY <1>1, <1>2, <1>3

LEMMA FlattenTexts ==
  /\ Texts!FlattenSeq(<<>>) = <<>>
  /\ \A ls \in Seq(Text) : Texts!FlattenSeq(ls) \in Text
  /\ \A ls \in Seq(Text), l \in Text :
       Texts!FlattenSeq(Append(ls, l)) = Texts!FlattenSeq(ls) \o l
<1>1. <<>> \in Seq(Text) /\ <<>> \in Text
  BY TextFacts
<1> QED
  BY <1>1, FlattenFacts, Zenon DEF Text

LEMMA FlattenConcat ==
  ASSUME NEW ls \in Seq(Text), NEW ms \in Seq(Text)
  PROVE  Texts!FlattenSeq(ls \o ms) = Texts!FlattenSeq(ls) \o Texts!FlattenSeq(ms)
<1> DEFINE Holds(s) == Texts!FlattenSeq(ls \o s) = Texts!FlattenSeq(ls) \o Texts!FlattenSeq(s)
           T == {n \in Nat : \E s \in Seq(Text) : Len(s) = n /\ ~Holds(s)}
<1> SUFFICES ASSUME T # {}
             PROVE  FALSE
  <2>1. T = {} => Holds(ms)
    BY Zenon, LenProperties
  <2> QED
    BY <2>1
<1>0. T \subseteq Nat
  OBVIOUS
<1>1. PICK n \in T : \A k \in T : n <= k
  BY <1>0, LeastNatural, Zenon
<1>2. n \in Nat /\ \E s \in Seq(Text) : Len(s) = n /\ ~Holds(s)
  OBVIOUS
<1>5. \A s \in Seq(Text) : Len(s) \in Nat /\ (Len(s) < n => Holds(s))
  BY <1>1
<1> HIDE DEF T
<1> SUFFICES ASSUME NEW s \in Seq(Text), Len(s) = n
             PROVE  Holds(s)
  BY <1>2
<1>3. CASE s = <<>>
  <2>1. ls \o s = ls /\ Texts!FlattenSeq(ls) \in Text /\ Texts!FlattenSeq(s) = <<>>
    BY <1>3, FlattenTexts, ConcatEmptySeq
  <2> QED
    BY <2>1, TextFacts
<1>4. CASE s # <<>>
  <2>1. PICK t \in Seq(Text), l \in Text : s = Append(t, l)
    BY <1>4, SequenceEmptyOrAppend, Zenon
  <2>2. Holds(t)
    <3>1. Len(t) = n - 1
      BY <2>1
    <3> HIDE DEF Holds
    <3> QED
      BY <1>2, <1>5, <3>1
  <2>3. ls \o s = Append(ls \o t, l) /\ ls \o t \in Seq(Text)
    BY <2>1, ListFacts
  <2>4. Texts!FlattenSeq(ls \o s) = Texts!FlattenSeq(ls \o t) \o l
    BY <2>3, FlattenTexts, Zenon
  <2>5. Texts!FlattenSeq(s) = Texts!FlattenSeq(t) \o l
    BY <2>1, FlattenTexts, Zenon
  <2>6. Texts!FlattenSeq(ls) \in Text /\ Texts!FlattenSeq(t) \in Text
    BY FlattenTexts
  <2> QED
    <3> DEFINE a == Texts!FlattenSeq(ls)
               b == Texts!FlattenSeq(t)
    <3>1. a \in Text /\ b \in Text
      BY <2>6
    <3> HIDE DEF a, b
    <3>2. (a \o b) \o l = a \o (b \o l)
      BY <3>1, TextFacts, Zenon
    <3> QED
      BY <2>2, <2>4, <2>5, <3>2 DEF a, b
<1> QED
  BY <1>3, <1>4

-----------------------------------------------------------------------------
(* Split, byte by byte.                                                    *)

Splits  == [lines : Seq(Line), rest : Part]
NoSplit == [lines |-> <<>>, rest |-> <<>>]
More(v, b) ==
  IF b = NewLine THEN [lines |-> Append(v.lines, Append(v.rest, b)), rest |-> <<>>]
  ELSE [v EXCEPT !.rest = Append(@, b)]

LEMMA MoreType ==
  ASSUME NEW v \in Splits, NEW b \in Bytes
  PROVE  More(v, b) \in Splits
<1>1. v.lines \in Seq(Line) /\ v.rest \in Part
  BY DEF Splits
<1>2. CASE b = NewLine
  <2>1. Append(v.rest, b) \in Line
    BY <1>1, <1>2 DEF Line
  <2>2. Append(v.lines, Append(v.rest, b)) \in Seq(Line) /\ <<>> \in Part
    BY <1>1, <2>1 DEF Part
  <2> QED
    BY <1>2, <2>2 DEF More, Splits
<1>3. CASE b # NewLine
  <2>1. Append(v.rest, b) \in Part
    BY <1>1, <1>3 DEF Part
  <2>2. [v EXCEPT !.rest = Append(v.rest, b)] \in Splits
    BY <2>1, Zenon DEF Splits
  <2> QED
    BY <1>3, <2>2 DEF More
<1> QED
  BY <1>2, <1>3

LEMMA SplitReads ==
  ASSUME NEW s \in Text
  PROVE  \E f \in [0 .. Len(s) -> Splits] :
           /\ f[0] = NoSplit /\ \A i \in 1 .. Len(s) : f[i] = More(f[i - 1], s[i])
           /\ Split(s) = f[Len(s)]
<1> DEFINE n    == Len(s)
           Step == [i \in 1 .. n |-> [v \in Splits |-> More(v, s[i])]]
<1>0. n \in Nat /\ \A i \in 1 .. n : s[i] \in Bytes
  BY DEF Text
<1> HIDE DEF n
<1>1. Step \in [1 .. n -> [Splits -> Splits]]
  BY <1>0, MoreType
<1>2. NoSplit \in Splits
  BY DEF NoSplit, Splits, Part
<1>3. PICK f \in [0 .. n -> Splits] : f[0] = NoSplit /\ \A i \in 1 .. n : f[i] = Step[i][f[i - 1]]
  <2> HIDE DEF Step
  <2>1. HasSteps(n, Splits, NoSplit, Step)
    BY <1>0, <1>1, <1>2, StepsExist
  <2> QED
    BY <2>1, Zenon DEF HasSteps
<1>4. \A i \in 1 .. n : f[i] = More(f[i - 1], s[i])
  <2> TAKE i \in 1 .. n
  <2>1. i - 1 \in 0 .. n
    BY <1>0
  <2>2. f[i - 1] \in Splits
    BY <2>1
  <2> QED
    BY <1>3, <2>2, Zenon
<1> HIDE DEF Step
<1> DEFINE Row(g, k) ==
             IF k = 0 THEN [lines |-> <<>>, rest |-> <<>>]
             ELSE LET sofar == g[k - 1] IN
                  IF s[k] = NewLine
                  THEN [lines |-> Append(sofar.lines, Append(sofar.rest, s[k])), rest |-> <<>>]
                  ELSE [sofar EXCEPT !.rest = Append(@, s[k])]
           r == CHOOSE g : g = [k \in 0 .. n |-> Row(g, k)]
<1>5. \A g : \A k : Row(g, k) = IF k = 0 THEN NoSplit ELSE More(g[k - 1], s[k])
  BY Zenon DEF More, NoSplit
<1>6. Split(s) = r[n]
  BY Zenon DEF Split, n
<1> HIDE DEF Row
<1>7. f = [k \in 0 .. n |-> Row(f, k)]
  <2> SUFFICES ASSUME NEW k \in 0 .. n
               PROVE  f[k] = Row(f, k)
    BY Zenon
  <2>1. CASE k = 0
    BY <1>3, <1>5, <2>1
  <2>2. CASE k # 0
    <3>1. k \in 1 .. n
      BY <1>0, <2>2
    <3>2. f[k] = More(f[k - 1], s[k])
      BY <1>4, <3>1
    <3> QED
      BY <1>5, <2>2, <3>2, Zenon
  <2> QED
    BY <2>1, <2>2
<1>8. r = [k \in 0 .. n |-> Row(r, k)]
  BY <1>7, Zenon
<1> HIDE DEF r
<1>9. SameUpTo(n, f, r)
  <2>1. r[0] = NoSplit
    <3>1. 0 \in 0 .. n
      BY <1>0
    <3>2. r[0] = Row(r, 0)
      BY <1>8, <3>1, Zenon
    <3> QED
      BY <1>5, <3>2
  <2>2. ASSUME NEW i \in 1 .. n, f[i - 1] = r[i - 1]
        PROVE  f[i] = r[i]
    <3>1. i \in 0 .. n /\ i # 0
      BY <1>0
    <3>2. r[i] = Row(r, i)
      BY <1>8, <3>1, Zenon
    <3>3. r[i] = More(r[i - 1], s[i])
      BY <1>5, <3>1, <3>2, Zenon
    <3> QED
      BY <1>4, <2>2, <3>3
  <2> QED
    BY <1>0, <1>3, <2>1, <2>2, StepsAgree, Zenon
<1>10. r[n] = f[n]
  BY <1>0, <1>9 DEF SameUpTo
<1> QED
  BY <1>3, <1>4, <1>6, <1>10 DEF n

\* The first lines and the rest of a text, then one byte more.
LEMMA SplitAppend ==
  ASSUME NEW s \in Text, NEW b \in Bytes
  PROVE  Split(<<>>) = NoSplit /\ Split(s) \in Splits /\ Split(Append(s, b)) = More(Split(s), b)
<1> DEFINE t == Append(s, b)
           n == Len(s)
<1>1. t \in Text /\ Len(t) = n + 1 /\ t[n + 1] = b /\ (\A i \in 1 .. n : t[i] = s[i]) /\ n \in Nat
  BY DEF Text
<1>2. PICK f \in [0 .. n -> Splits] :
        f[0] = NoSplit /\ (\A i \in 1 .. n : f[i] = More(f[i - 1], s[i])) /\ Split(s) = f[n]
  BY SplitReads
<1> HIDE DEF t
<1>3. PICK g \in [0 .. Len(t) -> Splits] :
        g[0] = NoSplit /\ (\A i \in 1 .. Len(t) : g[i] = More(g[i - 1], t[i])) /\ Split(t) = g[Len(t)]
  BY <1>1, SplitReads, Zenon
<1> HIDE DEF n
<1>4. \A i \in 0 .. n : f[i] = g[i]
  <2>1. ASSUME NEW i \in 1 .. n, f[i - 1] = g[i - 1]
        PROVE  f[i] = g[i]
    <3>1. f[i] = More(f[i - 1], s[i])
      BY <1>2
    <3>2. i \in 1 .. Len(t) /\ t[i] = s[i]
      BY <1>1
    <3>3. g[i] = More(g[i - 1], t[i])
      BY <1>3, <3>2, Zenon
    <3> QED
      BY <2>1, <3>1, <3>2, <3>3
  <2>2. SameUpTo(n, f, g)
    BY <1>1, <1>2, <1>3, <2>1, StepsAgree, Zenon
  <2> QED
    BY <2>2 DEF SameUpTo
<1>5. ASSUME NEW i \in 1 .. Len(t), i = n + 1
      PROVE  Split(t) = More(Split(s), b)
  <2>1. g[i] = More(g[i - 1], t[i])
    BY <1>3, Zenon
  <2>2. i - 1 = n /\ f[n] = g[n] /\ t[i] = b /\ Split(t) = g[i]
    BY <1>1, <1>3, <1>4, <1>5
  <2> QED
    BY <1>2, <2>1, <2>2
<1>6. Split(<<>>) = NoSplit
  <2> DEFINE e == <<>>
  <2>1. e \in Text /\ Len(e) = 0
    BY DEF Text
  <2> HIDE DEF e
  <2>2. Split(e) = NoSplit
    BY <2>1, SplitReads
  <2> QED
    BY <2>2 DEF e
<1>7. Split(s) \in Splits
  BY <1>1, <1>2
<1> QED
  BY <1>1, <1>5, <1>6, <1>7 DEF t

LEMMA LinesAreTexts ==
  /\ \A p \in Part : p \in Text
  /\ \A l \in Line : l \in Text
  /\ \A ls \in Seq(Line) : ls \in Seq(Text)
<1>1. \A p \in Part : p \in Text
  BY DEF Part, Text
<1>2. \A l \in Line : l \in Text
  <2> TAKE l \in Line
  <2>1. PICK p \in Part : l = Append(p, NewLine)
    BY Zenon DEF Line
  <2>2. p \in Seq(Bytes) /\ NewLine \in Bytes
    BY <1>1, <2>1, BytesAssumption DEF Text
  <2> QED
    BY <2>1, <2>2 DEF Text
<1>3. \A ls \in Seq(Line) : ls \in Seq(Text)
  BY <1>2
<1> QED
  BY <1>1, <1>2, <1>3

LEMMA OneMore ==
  ASSUME NEW f \in Text, NEW p \in Text, NEW b \in Bytes
  PROVE  Append(p, b) \in Text /\ f \o Append(p, b) = Append(f \o p, b)
<1>1. f \o p \in Text /\ Append(p, b) \in Text /\ <<b>> \in Text
  BY DEF Text
<1>2. Append(p, b) = p \o <<b>> /\ Append(f \o p, b) = (f \o p) \o <<b>>
  BY <1>1, AppendIsConcat DEF Text
<1> QED
  BY <1>1, <1>2, TextFacts

LEMMA SplitTyped ==
  Split(<<>>) = NoSplit /\ \A s \in Text : Split(s) \in Splits
BY SplitAppend, BytesAssumption DEF Text

\* A text is its lines and what is left of it.
LEMMA SplitFacts ==
  ASSUME NEW s \in Text
  PROVE  /\ WholeLines(s) \in Seq(Line) /\ Rest(s) \in Part
         /\ Texts!FlattenSeq(WholeLines(s)) \o Rest(s) = s
<1> DEFINE Holds(t) == Texts!FlattenSeq(WholeLines(t)) \o Rest(t) = t
           T == {n \in Nat : \E t \in Text : Len(t) = n /\ ~Holds(t)}
<1>1. \A t \in Text : WholeLines(t) \in Seq(Line) /\ Rest(t) \in Part
  BY SplitTyped DEF Splits, WholeLines, Rest
<1> SUFFICES ASSUME T # {}
             PROVE  FALSE
  <2>1. T = {} => Holds(s)
    BY Zenon, LenProperties DEF Text
  <2> QED
    BY <1>1, <2>1
<1>2. T \subseteq Nat
  OBVIOUS
<1>3. PICK n \in T : \A k \in T : n <= k
  BY <1>2, LeastNatural, Zenon
<1>4. n \in Nat /\ \E t \in Text : Len(t) = n /\ ~Holds(t)
  OBVIOUS
<1>5. \A t \in Text : Len(t) \in Nat /\ (Len(t) < n => Holds(t))
  BY <1>3 DEF Text
<1> HIDE DEF T
<1> SUFFICES ASSUME NEW t \in Text, Len(t) = n
             PROVE  Holds(t)
  BY <1>4, Zenon
<1>6. CASE t = <<>>
  <2>1. WholeLines(t) = <<>> /\ Rest(t) = <<>>
    BY <1>6, SplitTyped DEF WholeLines, Rest, NoSplit
  <2> QED
    BY <1>6, <2>1, FlattenTexts, TextFacts
<1>7. CASE t # <<>>
  <2>1. PICK u \in Text, b \in Bytes : t = Append(u, b)
    BY <1>7, SequenceEmptyOrAppend, Zenon DEF Text
  <2>2. Holds(u)
    <3>1. Len(u) = n - 1
      BY <2>1 DEF Text
    <3> HIDE DEF Holds
    <3> QED
      BY <1>4, <1>5, <3>1
  <2>3. Split(t) = More(Split(u), b) /\ Split(u) \in Splits
    BY <2>1, SplitAppend
  <2> DEFINE ls == WholeLines(u)
             p  == Rest(u)
             f  == Texts!FlattenSeq(ls)
  <2>4. ls \in Seq(Text) /\ p \in Text /\ f \in Text /\ f \o p = u
    <3>1. ls \in Seq(Line) /\ p \in Part
      BY <1>1
    <3>2. ls \in Seq(Text) /\ p \in Text
      BY <3>1, LinesAreTexts
    <3> QED
      BY <2>2, <3>2, FlattenTexts
  <2>5. Append(p, b) \in Text /\ f \o Append(p, b) = t
    <3> HIDE DEF f, p
    <3> QED
      BY <2>1, <2>4, OneMore, Zenon
  <2>6. CASE b = NewLine
    <3>1. WholeLines(t) = Append(ls, Append(p, b)) /\ Rest(t) = <<>>
      BY <2>3, <2>6 DEF More, WholeLines, Rest
    <3>2. Texts!FlattenSeq(WholeLines(t)) = f \o Append(p, b)
      BY <2>4, <2>5, <3>1, FlattenTexts, Zenon
    <3> QED
      BY <2>5, <3>1, <3>2, TextFacts
  <2>7. CASE b # NewLine
    <3>1. WholeLines(t) = ls /\ Rest(t) = Append(p, b)
      BY <2>3, <2>7 DEF More, WholeLines, Rest, Splits
    <3> QED
      BY <2>5, <3>1
  <2> QED
    BY <2>6, <2>7
<1> QED
  BY <1>6, <1>7

\* A text that is put together of lines and a part of a line has these, and no others.
LEMMA SplitUnique ==
  ASSUME NEW s \in Text, NEW ls \in Seq(Line), NEW p \in Part, s = Texts!FlattenSeq(ls) \o p
  PROVE  WholeLines(s) = ls /\ Rest(s) = p
<1> DEFINE Holds(t) == \A ms \in Seq(Line), r \in Part :
                         t = Texts!FlattenSeq(ms) \o r => Split(t) = [lines |-> ms, rest |-> r]
           T == {n \in Nat : \E t \in Text : Len(t) = n /\ ~Holds(t)}
<1> SUFFICES ASSUME T # {}
             PROVE  FALSE
  <2>1. T = {} => Holds(s)
    BY Zenon, LenProperties DEF Text
  <2> SUFFICES ASSUME T = {}
               PROVE  WholeLines(s) = ls /\ Rest(s) = p
    BY Zenon
  <2>2. Split(s) = [lines |-> ls, rest |-> p]
    <3> HIDE DEF T
    <3> QED
      BY <2>1, Zenon
  <2> QED
    BY <2>2 DEF WholeLines, Rest
<1>2. T \subseteq Nat
  OBVIOUS
<1>3. PICK n \in T : \A k \in T : n <= k
  BY <1>2, LeastNatural, Zenon
<1>4. n \in Nat /\ \E t \in Text : Len(t) = n /\ ~Holds(t)
  BY Zenon
<1>5. \A t \in Text : Len(t) \in Nat /\ (Len(t) < n => Holds(t))
  <2> HIDE DEF Holds
  <2> QED
    BY <1>3 DEF Text
<1> HIDE DEF T
<1> SUFFICES ASSUME NEW t \in Text, Len(t) = n
             PROVE  Holds(t)
  BY <1>4, Zenon
<1> SUFFICES ASSUME NEW ms \in Seq(Line), NEW r \in Part, t = Texts!FlattenSeq(ms) \o r
             PROVE  Split(t) = [lines |-> ms, rest |-> r]
  BY Zenon
<1>6. ms \in Seq(Text) /\ r \in Text /\ Texts!FlattenSeq(ms) \in Text
  BY LinesAreTexts, FlattenTexts
<1>7. CASE r # <<>>
  <2>1. PICK r0 \in Part, b \in Bytes \ {NewLine} : r = Append(r0, b)
    BY <1>7, SequenceEmptyOrAppend DEF Part
  <2> DEFINE f == Texts!FlattenSeq(ms)
             u == f \o r0
  <2>2. r0 \in Text /\ u \in Text /\ t = Append(u, b)
    <3>1. r0 \in Text /\ f \in Text /\ t = f \o Append(r0, b)
      BY <1>6, <2>1, LinesAreTexts
    <3> HIDE DEF f
    <3>2. f \o r0 \in Text
      BY <3>1, TextFacts
    <3>3. f \o Append(r0, b) = Append(f \o r0, b)
      BY <3>1, OneMore
    <3> QED
      BY <3>1, <3>2, <3>3
  <2>3. Split(u) = [lines |-> ms, rest |-> r0]
    <3>1. Len(u) = n - 1
      BY <2>2 DEF Text
    <3>2. Holds(u)
      <4> HIDE DEF Holds, u
      <4> QED
        BY <1>4, <1>5, <2>2, <3>1
    <3> QED
      BY <3>2, Zenon
  <2>4. Split(t) = More(Split(u), b)
    <3> HIDE DEF u
    <3> QED
      BY <2>2, SplitAppend
  <2> QED
    BY <2>1, <2>3, <2>4 DEF More
<1>8. CASE r = <<>> /\ ms # <<>>
  <2>1. PICK ms0 \in Seq(Line), l \in Line : ms = Append(ms0, l)
    BY <1>8, SequenceEmptyOrAppend
  <2>2. PICK p0 \in Part : l = Append(p0, NewLine)
    BY DEF Line
  <2> DEFINE f == Texts!FlattenSeq(ms0)
             u == f \o p0
  <2>3. p0 \in Text /\ f \in Text /\ l \in Text /\ t = f \o l /\ ms0 \in Seq(Text)
    <3>1. p0 \in Text /\ l \in Text /\ ms0 \in Seq(Text)
      BY LinesAreTexts
    <3>2. f \in Text /\ Texts!FlattenSeq(ms) = f \o l
      BY <2>1, <3>1, FlattenTexts
    <3> QED
      BY <1>6, <1>8, <3>1, <3>2, TextFacts
  <2>4. u \in Text /\ t = Append(u, NewLine) /\ NewLine \in Bytes
    <3> HIDE DEF f
    <3>1. f \o p0 \in Text /\ NewLine \in Bytes
      BY <2>3, TextFacts, BytesAssumption
    <3>2. f \o Append(p0, NewLine) = Append(f \o p0, NewLine)
      BY <2>3, <3>1, OneMore
    <3> QED
      BY <2>2, <2>3, <3>1, <3>2
  <2>5. Split(u) = [lines |-> ms0, rest |-> p0]
    <3>1. Len(u) = n - 1
      BY <2>4 DEF Text
    <3>2. Holds(u)
      <4> HIDE DEF Holds, u
      <4> QED
        BY <1>4, <1>5, <2>4, <3>1
    <3> QED
      BY <3>2, Zenon
  <2>6. Split(t) = More(Split(u), NewLine)
    <3> HIDE DEF u
    <3> QED
      BY <2>4, SplitAppend
  <2> QED
    BY <1>8, <2>1, <2>2, <2>5, <2>6 DEF More
<1>9. CASE r = <<>> /\ ms = <<>>
  <2>1. t = <<>>
    BY <1>9, FlattenTexts, TextFacts
  <2> QED
    BY <1>9, <2>1, SplitTyped DEF NoSplit
<1> QED
  BY <1>7, <1>8, <1>9

LEMMA LinesOf ==
  ASSUME NEW ls \in Seq(Line)
  PROVE  /\ Texts!FlattenSeq(ls) \in Text
         /\ WholeLines(Texts!FlattenSeq(ls)) = ls /\ Rest(Texts!FlattenSeq(ls)) = <<>>
<1> DEFINE s == Texts!FlattenSeq(ls)
<1>1. s \in Text /\ <<>> \in Part
  BY LinesAreTexts, FlattenTexts DEF Part
<1>2. s = s \o <<>>
  <2> HIDE DEF s
  <2> QED
    BY <1>1, TextFacts
<1> QED
  BY <1>1, <1>2, SplitUnique, Zenon

\* What is read after s continues the part of a line that s ends with.
LEMMA SplitConcat ==
  ASSUME NEW s \in Text, NEW t \in Text
  PROVE  /\ s \o t \in Text /\ Rest(s) \o t \in Text
         /\ WholeLines(s \o t) = WholeLines(s) \o WholeLines(Rest(s) \o t)
         /\ Rest(s \o t) = Rest(Rest(s) \o t)
<1> DEFINE a == WholeLines(s)
           p == Rest(s)
           b == WholeLines(p \o t)
           r == Rest(p \o t)
           f == Texts!FlattenSeq(a)
           g == Texts!FlattenSeq(b)
<1>1. a \in Seq(Line) /\ p \in Part /\ f \o p = s
  BY SplitFacts
<1>2. p \in Text /\ f \in Text
  BY <1>1, LinesAreTexts, FlattenTexts
<1>3. p \o t \in Text /\ s \o t \in Text
  <2> HIDE DEF p
  <2> QED
    BY <1>2, TextFacts
<1>4. b \in Seq(Line) /\ r \in Part /\ g \o r = p \o t
  BY <1>3, SplitFacts, Zenon
<1>5. r \in Text /\ g \in Text
  BY <1>4, LinesAreTexts, FlattenTexts
<1>6. a \o b \in Seq(Line)
  <2> HIDE DEF a, b
  <2> QED
    BY <1>1, <1>4
<1>7. Texts!FlattenSeq(a \o b) = f \o g
  <2>1. a \in Seq(Text) /\ b \in Seq(Text)
    BY <1>1, <1>4, LinesAreTexts
  <2> HIDE DEF a, b
  <2> QED
    BY <2>1, FlattenConcat
<1>8. s \o t = (f \o g) \o r
  <2> HIDE DEF f, g, p, r
  <2>0. f \in Text /\ g \in Text /\ r \in Text /\ p \in Text
    BY <1>2, <1>5
  <2>3. \A x, y \in Text : (f \o x) \o y = f \o (x \o y)
    BY <2>0, TextAssociative, Zenon
  <2>1. (f \o p) \o t = f \o (p \o t)
    BY <2>0, <2>3, Zenon
  <2>2. (f \o g) \o r = f \o (g \o r)
    BY <2>0, <2>3, Zenon
  <2> QED
    BY <1>1, <1>4, <2>1, <2>2
<1> HIDE DEF a, b, p, r, f, g
<1>9. WholeLines(s \o t) = a \o b /\ Rest(s \o t) = r
  BY <1>3, <1>4, <1>6, <1>7, <1>8, SplitUnique, Zenon
<1> QED
  BY <1>3, <1>9 DEF a, b, p, r

\* What is left of a text after its first k lines.
Behind(s, k) ==
  Texts!FlattenSeq(SubSeq(WholeLines(s), k + 1, Len(WholeLines(s)))) \o Rest(s)

LEMMA BehindFacts ==
  ASSUME NEW s \in Text, NEW k \in 0 .. Len(WholeLines(s))
  PROVE  LET ls == WholeLines(s)
             ms == SubSeq(ls, k + 1, Len(ls))
         IN  /\ Behind(s, k) \in Text
             /\ ms \in Seq(Line) /\ SubSeq(ls, 1, k) \in Seq(Line) /\ SubSeq(ls, 1, k) \o ms = ls
             /\ WholeLines(Behind(s, k)) = ms /\ Rest(Behind(s, k)) = Rest(s)
             /\ Texts!FlattenSeq(SubSeq(ls, 1, k)) \in Text
             /\ s = Texts!FlattenSeq(SubSeq(ls, 1, k)) \o Behind(s, k)
<1> DEFINE ls == WholeLines(s)
           n  == Len(ls)
           hs == SubSeq(ls, 1, k)
           ms == SubSeq(ls, k + 1, n)
           p  == Rest(s)
           f  == Texts!FlattenSeq(hs)
           g  == Texts!FlattenSeq(ms)
<1>1. ls \in Seq(Line) /\ p \in Part /\ Texts!FlattenSeq(ls) \o p = s
  BY SplitFacts
<1>2. hs \in Seq(Line) /\ ms \in Seq(Line) /\ hs \o ms = ls
  <2> HIDE DEF ls
  <2>1. n \in Nat /\ k \in 0 .. n
    BY <1>1 DEF ls
  <2>2. hs \in Seq(Line) /\ ms \in Seq(Line)
    BY <1>1, <2>1
  <2>3. hs \o ms = SubSeq(ls, 1, n)
    <3>1. 1 \in 1 .. Len(ls) + 1 /\ k \in 1 - 1 .. Len(ls) /\ n \in k .. Len(ls)
      BY <2>1
    <3> QED
      BY <1>1, <3>1, ConcatAdjacentSubSeq, Zenon
  <2> QED
    BY <1>1, <2>2, <2>3, SubSeqFull, Zenon
<1>3. f \in Text /\ g \in Text /\ p \in Text /\ Texts!FlattenSeq(hs \o ms) = f \o g
  <2>1. hs \in Seq(Text) /\ ms \in Seq(Text) /\ p \in Text
    BY <1>1, <1>2, LinesAreTexts, Zenon
  <2> HIDE DEF hs, ms
  <2> QED
    BY <2>1, FlattenConcat, FlattenTexts, Zenon
<1>4. Behind(s, k) = g \o p
  BY DEF Behind
<1>5. g \o p \in Text /\ s = f \o (g \o p)
  <2>1. s = (f \o g) \o p
    BY <1>1, <1>2, <1>3, Zenon
  <2> HIDE DEF f, g, p
  <2> QED
    BY <1>3, <2>1, TextFacts, Zenon
<1>6. WholeLines(g \o p) = ms /\ Rest(g \o p) = p
  <2> HIDE DEF ms, p
  <2> QED
    BY <1>1, <1>2, <1>5, SplitUnique, Zenon
<1> QED
  BY <1>2, <1>3, <1>4, <1>5, <1>6, Zenon

\* The first processer got s, has gone through the first k lines, and gets t.
LEMMA FirstFacts ==
  ASSUME NEW s \in Text, NEW k \in 0 .. Len(WholeLines(s)), NEW t \in Text
  PROVE  LET u  == s \o t
             ls == WholeLines(s)
             ms == WholeLines(u)
         IN  /\ u \in Text /\ Behind(s, k) \o t = Behind(u, k)
             /\ ls \in Seq(Line) /\ ms \in Seq(Line) /\ Len(ls) <= Len(ms)
             /\ \A j \in DOMAIN ls : ms[j] = ls[j]
<1> DEFINE u  == s \o t
           ls == WholeLines(s)
           ms == WholeLines(u)
           b  == WholeLines(Rest(s) \o t)
           hs == SubSeq(ls, 1, k)
           f  == Texts!FlattenSeq(hs)
<1>1. u \in Text /\ Rest(s) \o t \in Text /\ ms = ls \o b
  BY SplitConcat
<1>2. ls \in Seq(Line) /\ ms \in Seq(Line) /\ b \in Seq(Line)
  BY <1>1, SplitFacts
<1>3. Len(ls) <= Len(ms) /\ \A j \in DOMAIN ls : ms[j] = ls[j]
  <2> HIDE DEF ls, ms, b
  <2> QED
    BY <1>1, <1>2
<1>4. k \in 0 .. Len(ms) /\ SubSeq(ms, 1, k) = hs
  <2>1. k \in Nat /\ k <= Len(ls) /\ Len(ls) \in Nat /\ Len(ms) \in Nat
    BY <1>2
  <2> HIDE DEF ls, ms
  <2>2. \A j \in 1 .. k : ms[j] = ls[j]
    BY <1>2, <1>3, <2>1
  <2> QED
    BY <1>2, <1>3, <2>1, <2>2
<1>5. f \in Text /\ Behind(s, k) \in Text /\ s = f \o Behind(s, k)
  BY BehindFacts, Zenon
<1>6. Behind(u, k) \in Text /\ u = f \o Behind(u, k)
  <2> HIDE DEF u
  <2> QED
    BY <1>1, <1>4, BehindFacts, Zenon DEF u
<1>7. f \o (Behind(s, k) \o t) = f \o Behind(u, k)
  <2> HIDE DEF f
  <2>1. (f \o Behind(s, k)) \o t = f \o (Behind(s, k) \o t)
    BY <1>5, TextFacts, Zenon
  <2> QED
    BY <1>5, <1>6, <2>1, Zenon
<1>8. Behind(s, k) \o t \in Text
  BY <1>5, TextFacts
<1>9. Behind(s, k) \o t = Behind(u, k)
  <2> DEFINE x == Behind(s, k) \o t
             y == Behind(u, k)
  <2>1. x \in Text /\ y \in Text /\ f \in Text /\ f \o x = f \o y
    BY <1>5, <1>6, <1>7, <1>8, Zenon
  <2> HIDE DEF x, y, f
  <2>2. x = y
    BY <2>1, ConcatSimplifications, Zenon DEF Text
  <2> QED
    BY <2>2 DEF x, y
<1> QED
  BY <1>1, <1>2, <1>3, <1>9

\* After the first k lines of what is behind the first c.
LEMMA BehindBehind ==
  ASSUME NEW s \in Text, NEW c \in 0 .. Len(WholeLines(s)),
         NEW k \in 0 .. Len(WholeLines(Behind(s, c)))
  PROVE  /\ c + k \in 0 .. Len(WholeLines(s))
         /\ Behind(Behind(s, c), k) = Behind(s, c + k)
<1> DEFINE ls == WholeLines(s)
           n  == Len(ls)
           ms == SubSeq(ls, c + 1, n)
           u  == Behind(s, c)
<1>1. u \in Text /\ WholeLines(u) = ms /\ Rest(u) = Rest(s) /\ ls \in Seq(Line)
  BY BehindFacts, SplitFacts, Zenon
<1>2. n \in Nat /\ c \in 0 .. n /\ Len(ms) = n - c /\ k \in 0 .. n - c
  <2>1. n \in Nat /\ c \in 0 .. n /\ k \in 0 .. Len(ms)
    BY <1>1
  <2> HIDE DEF ls
  <2>2. Len(ms) = n - c
    BY <1>1, <2>1
  <2> QED
    BY <2>1, <2>2
<1>3. SubSeq(ms, k + 1, Len(ms)) = SubSeq(ls, c + k + 1, n)
  <2> HIDE DEF ls, n
  <2> DEFINE x == SubSeq(ms, k + 1, n - c)
             y == SubSeq(ls, c + k + 1, n)
  <2>1. x \in Seq(Line) /\ y \in Seq(Line) /\ Len(x) = n - c - k /\ Len(y) = n - c - k
    BY <1>1, <1>2 DEF n
  <2>2. ASSUME NEW i \in 1 .. n - c - k
        PROVE  x[i] = y[i]
    <3>1. ms[k + i] = ls[c + k + i] /\ k + i \in 1 .. n - c
      BY <1>1, <1>2 DEF n
    <3>2. x[i] = ms[k + i] /\ y[i] = ls[c + k + i]
      <4> HIDE DEF ms
      <4> QED
        BY <1>2, SMTT(30)
    <3> QED
      BY <3>1, <3>2, Zenon
  <2> HIDE DEF x, y
  <2>3. x = y
    BY <2>1, <2>2, SeqEqual
  <2> QED
    BY <1>2, <2>3 DEF x, y
<1>4. Behind(u, k) = Texts!FlattenSeq(SubSeq(ms, k + 1, Len(ms))) \o Rest(s)
  BY <1>1, Zenon DEF Behind
<1>5. Behind(s, c + k) = Texts!FlattenSeq(SubSeq(ls, c + k + 1, n)) \o Rest(s)
  BY DEF Behind
<1>6. c + k \in 0 .. n
  BY <1>2
<1>7. Behind(u, k) = Behind(s, c + k)
  BY <1>3, <1>4, <1>5, Zenon
<1> QED
  BY <1>6, <1>7

-----------------------------------------------------------------------------
(* Marks.                                                                  *)

\* the marks of the first m processers
MarksOf(m) == Texts!Reverse(SubSeq(Mark, 1, m))

LEMMA MarksFacts ==
  ASSUME NEW m \in 0 .. Len(Mark)
  PROVE  /\ MarksOf(m) \in Part /\ \A l \in Line : MarksOf(m) \o l \in Line
         /\ m > 0 => /\ <<Mark[m]>> \in Text
                    /\ \A l \in Text : <<Mark[m]>> \o (MarksOf(m - 1) \o l) = MarksOf(m) \o l
<1> USE BytesAssumption
<1>1. \A k \in 0 .. Len(Mark) : /\ MarksOf(k) \in Part /\ Len(MarksOf(k)) = k
                               /\ \A i \in 1 .. k : MarksOf(k)[i] = Mark[k - i + 1]
  BY DEF MarksOf, Texts!Reverse, Part
<1>2. \A l \in Line : MarksOf(m) \o l \in Line
  <2> SUFFICES ASSUME NEW l \in Line
               PROVE  MarksOf(m) \o l \in Line
    OBVIOUS
  <2>1. PICK p \in Part : l = Append(p, NewLine)
    BY DEF Line
  <2>2. MarksOf(m) \o l = Append(MarksOf(m) \o p, NewLine)
    BY <1>1, <2>1, OneMore, LinesAreTexts, Zenon
  <2>3. MarksOf(m) \o p \in Part
    BY <1>1 DEF Part
  <2> QED
    BY <2>2, <2>3, Zenon DEF Line
<1>3. ASSUME m > 0
      PROVE  /\ <<Mark[m]>> \in Text
             /\ \A l \in Text : <<Mark[m]>> \o (MarksOf(m - 1) \o l) = MarksOf(m) \o l
  <2> DEFINE h == <<Mark[m]>>
             t == MarksOf(m - 1)
  <2>0. m \in 1 .. Len(Mark) /\ m - 1 \in 0 .. Len(Mark)
    BY <1>3
  <2>1. h \in Part /\ t \in Part /\ Len(h) = 1 /\ h[1] = Mark[m]
    <3>1. t \in Part
      BY <1>1, <2>0
    <3>2. Mark[m] \in Bytes \ {NewLine}
      BY <2>0
    <3> QED
      BY <3>1, <3>2 DEF Part
  <2>2. /\ Len(t) = m - 1 /\ Len(MarksOf(m)) = m /\ MarksOf(m) \in Part
        /\ \A i \in 1 .. m - 1 : t[i] = Mark[m - i]
        /\ \A i \in 1 .. m : MarksOf(m)[i] = Mark[m - i + 1]
    <3>1. /\ Len(t) = m - 1 /\ Len(MarksOf(m)) = m /\ MarksOf(m) \in Part
          /\ \A i \in 1 .. m - 1 : t[i] = Mark[m - 1 - i + 1]
          /\ \A i \in 1 .. m : MarksOf(m)[i] = Mark[m - i + 1]
      BY <1>1, <2>0, Zenon
    <3>2. \A i \in 1 .. m - 1 : m - 1 - i + 1 = m - i
      BY <2>0
    <3> QED
      BY <3>1, <3>2
  <2> HIDE DEF h, t
  <2>3. h \o t = MarksOf(m)
    <3> DEFINE x == h \o t
               y == MarksOf(m)
               P == Bytes \ {NewLine}
    <3>0. h \in Seq(P) /\ t \in Seq(P) /\ Len(h) = 1 /\ Len(t) = m - 1 /\ m \in Nat /\ m >= 1
      BY <2>0, <2>1, <2>2 DEF Part
    <3> HIDE DEF P
    <3>5. /\ x \in Seq(P) /\ Len(x) = Len(h) + Len(t)
          /\ \A i \in 1 .. Len(h) + Len(t) : x[i] = IF i <= Len(h) THEN h[i] ELSE t[i - Len(h)]
      BY <3>0, ConcatProperties, ZenonT(60)
    <3>1. x \in Seq(P) /\ Len(x) = m /\ \A i \in 1 .. m : x[i] = IF i = 1 THEN h[1] ELSE t[i - 1]
      <4> HIDE DEF x
      <4>1. Len(h) + Len(t) = m /\ \A i \in 1 .. m : (i <= Len(h) <=> i = 1) /\ i - Len(h) = i - 1
        BY <3>0
      <4>2. x \in Seq(P) /\ Len(x) = m
        BY <3>5, <4>1, Zenon
      <4>3. ASSUME NEW i \in 1 .. m
            PROVE  x[i] = IF i = 1 THEN h[1] ELSE t[i - 1]
        <5>1. x[i] = IF i <= Len(h) THEN h[i] ELSE t[i - Len(h)]
          BY <3>5, <4>1, Zenon
        <5> QED
          BY <4>1, <5>1, Zenon
      <4> QED
        BY <4>2, <4>3, Zenon
    <3>4. y \in Seq(P) /\ Len(y) = m
      BY <2>2 DEF Part, P
    <3>2. ASSUME NEW i \in 1 .. m
          PROVE  x[i] = y[i]
      <4>1. y[i] = Mark[m - i + 1]
        BY <2>2
      <4>2. CASE i = 1
        BY <2>1, <3>0, <3>1, <4>1, <4>2
      <4>3. CASE i # 1
        <5>1. i - 1 \in 1 .. m - 1 /\ m - (i - 1) = m - i + 1
          BY <3>0, <4>3
        <5>2. t[i - 1] = Mark[m - (i - 1)]
          BY <2>2, <5>1
        <5> QED
          BY <3>1, <4>1, <4>3, <5>1, <5>2, Zenon
      <4> QED
        BY <4>2, <4>3, Zenon
    <3> HIDE DEF x, y
    <3>3. x = y
      BY <3>1, <3>2, <3>4, SeqEqual
    <3> QED
      BY <3>3 DEF x, y
  <2>4. h \in Text /\ t \in Text
    BY <2>1, LinesAreTexts
  <2>5. \A l \in Text : h \o (t \o l) = MarksOf(m) \o l
    <3> TAKE l \in Text
    <3>1. (h \o t) \o l = h \o (t \o l)
      <4>1. \A a, b \in Text : (h \o a) \o b = h \o (a \o b)
        BY <2>4, TextAssociative, Zenon
      <4> QED
        BY <2>4, <4>1, Zenon
    <3> QED
      BY <2>3, <3>1
  <2> QED
    BY <2>4, <2>5, Zenon DEF h, t
<1> QED
  BY <1>1, <1>2, <1>3, Zenon

\* the lines of ls with the numbers js, with the marks of the first m processers
Content(m, js, ls) == [k \in DOMAIN js |-> MarksOf(m) \o ls[js[k]]]

LEMMA ContentFacts ==
  ASSUME NEW m \in 0 .. Len(Mark), NEW ls \in Seq(Line), NEW js \in Seq(DOMAIN ls)
  PROVE  /\ Content(m, js, ls) \in Seq(Line) /\ Len(Content(m, js, ls)) = Len(js)
         /\ \A k \in 1 .. Len(js) : Content(m, js, ls)[k] = MarksOf(m) \o ls[js[k]]
         /\ m > 0 => Marked(Mark[m], Content(m - 1, js, ls)) = Content(m, js, ls)
<1> DEFINE c == Content(m, js, ls)
           n == Len(js)
<1>1. n \in Nat /\ DOMAIN js = 1 .. n /\ \A k \in 1 .. n : ls[js[k]] \in Line
  OBVIOUS
<1>2. c = [k \in 1 .. n |-> MarksOf(m) \o ls[js[k]]] /\ \A k \in 1 .. n : MarksOf(m) \o ls[js[k]] \in Line
  BY <1>1, MarksFacts, Zenon DEF Content
<1>3. c \in Seq(Line) /\ Len(c) = n /\ \A k \in 1 .. n : c[k] = MarksOf(m) \o ls[js[k]]
  <2> HIDE DEF c, n
  <2>1. c \in [1 .. n -> Line] /\ n \in Nat
    BY <1>1, <1>2
  <2>2. c \in Seq(Line) /\ Len(c) = n
    BY <2>1
  <2> QED
    BY <1>2, <2>2, Zenon
<1>4. ASSUME m > 0
      PROVE  Marked(Mark[m], Content(m - 1, js, ls)) = c
  <2>1. Content(m - 1, js, ls) = [k \in 1 .. n |-> MarksOf(m - 1) \o ls[js[k]]]
    BY <1>1 DEF Content
  <2>2. Marked(Mark[m], Content(m - 1, js, ls)) =
          [k \in 1 .. n |-> <<Mark[m]>> \o (MarksOf(m - 1) \o ls[js[k]])]
    BY <2>1, Zenon DEF Marked
  <2>3. \A k \in 1 .. n : <<Mark[m]>> \o (MarksOf(m - 1) \o ls[js[k]]) = MarksOf(m) \o ls[js[k]]
    BY <1>1, <1>4, MarksFacts, LinesAreTexts, Zenon
  <2> HIDE DEF c, n
  <2> QED
    BY <1>2, <2>2, <2>3, Zenon
<1> QED
  BY <1>3, <1>4, Zenon

\* The contents of numbers one after the other, and of a part of them.
LEMMA ContentJoins ==
  ASSUME NEW m \in 0 .. Len(Mark), NEW ls \in Seq(Line), NEW is \in Seq(DOMAIN ls), NEW js \in Seq(DOMAIN ls)
  PROVE  is \o js \in Seq(DOMAIN ls) /\ Content(m, is \o js, ls) = Content(m, is, ls) \o Content(m, js, ls)
<1> DEFINE x == Content(m, is, ls)
           y == Content(m, js, ls)
           z == Content(m, is \o js, ls)
           D == DOMAIN ls
<1> HIDE DEF D
<1>1. is \o js \in Seq(D) /\ is \in Seq(D) /\ js \in Seq(D)
  BY DEF D
<1>2. /\ x \in Seq(Line) /\ Len(x) = Len(is) /\ \A k \in 1 .. Len(is) : x[k] = MarksOf(m) \o ls[is[k]]
      /\ y \in Seq(Line) /\ Len(y) = Len(js) /\ \A k \in 1 .. Len(js) : y[k] = MarksOf(m) \o ls[js[k]]
  BY ContentFacts, Zenon
<1>3. /\ z \in Seq(Line) /\ Len(z) = Len(is \o js)
      /\ \A k \in 1 .. Len(is \o js) : z[k] = MarksOf(m) \o ls[(is \o js)[k]]
  BY <1>1, ContentFacts, Zenon DEF D
<1> HIDE DEF x, y, z
<1>4. Len(is \o js) = Len(is) + Len(js) /\ Len(is) \in Nat /\ Len(js) \in Nat
  BY <1>1
<1>8. /\ x \in Seq(Line) /\ y \in Seq(Line) /\ Len(x) = Len(is) /\ Len(y) = Len(js)
  BY <1>2
<1> DEFINE w == x \o y
<1>10. /\ w \in Seq(Line) /\ Len(w) = Len(x) + Len(y)
       /\ \A k \in 1 .. Len(x) + Len(y) : w[k] = IF k <= Len(x) THEN x[k] ELSE y[k - Len(x)]
  BY <1>8, ConcatProperties, ZenonT(60)
<1> HIDE DEF w
<1>6. /\ w \in Seq(Line) /\ Len(w) = Len(is) + Len(js)
      /\ \A k \in 1 .. Len(is) + Len(js) : w[k] = IF k <= Len(is) THEN x[k] ELSE y[k - Len(is)]
  BY <1>8, <1>10
<1> DEFINE u == is \o js
<1>11. u = is \o js
  OBVIOUS
<1> HIDE DEF u
<1>9. \A k \in 1 .. Len(is) + Len(js) : u[k] = IF k <= Len(is) THEN is[k] ELSE js[k - Len(is)]
  BY <1>1, ConcatProperties DEF u
<1>12. /\ z \in Seq(Line) /\ Len(z) = Len(is) + Len(js)
       /\ \A k \in 1 .. Len(is) + Len(js) : z[k] = MarksOf(m) \o ls[u[k]]
  BY <1>3, <1>4, <1>11, Zenon
<1>13. Len(is) \in Nat /\ Len(js) \in Nat
  BY <1>4
<1>5. ASSUME NEW k \in 1 .. Len(is) + Len(js)
      PROVE  z[k] = w[k]
  <2>1. CASE k <= Len(is)
    <3>1. u[k] = is[k] /\ w[k] = x[k] /\ k \in 1 .. Len(is)
      BY <1>6, <1>9, <1>13, <2>1
    <3> QED
      BY <1>2, <1>12, <3>1, Zenon
  <2>2. CASE k > Len(is)
    <3>1. u[k] = js[k - Len(is)] /\ w[k] = y[k - Len(is)] /\ k - Len(is) \in 1 .. Len(js)
      BY <1>6, <1>9, <1>13, <2>2
    <3> QED
      BY <1>2, <1>12, <3>1, Zenon
  <2> QED
    BY <1>13, <2>1, <2>2
<1>7. z = w
  BY <1>5, <1>6, <1>12, <1>13, SeqEqual
<1> QED
  BY <1>1, <1>7 DEF x, y, z, w, D

LEMMA ContentRest ==
  ASSUME NEW m \in 0 .. Len(Mark), NEW ls \in Seq(Line), NEW js \in Seq(DOMAIN ls), NEW k \in 0 .. Len(js)
  PROVE  /\ SubSeq(js, k + 1, Len(js)) \in Seq(DOMAIN ls)
         /\ SubSeq(Content(m, js, ls), k + 1, Len(js)) = Content(m, SubSeq(js, k + 1, Len(js)), ls)
<1> DEFINE x  == Content(m, js, ls)
           n  == Len(js)
           is == SubSeq(js, k + 1, n)
           y  == Content(m, is, ls)
           w  == SubSeq(x, k + 1, n)
           D  == DOMAIN ls
<1> HIDE DEF D
<1>1. n \in Nat /\ js \in Seq(D) /\ is \in Seq(D) /\ Len(is) = n - k /\ \A i \in 1 .. n - k : is[i] = js[k + i]
  BY DEF D
<1>2. x \in Seq(Line) /\ Len(x) = n /\ \A i \in 1 .. n : x[i] = MarksOf(m) \o ls[js[i]]
  BY ContentFacts, Zenon
<1>3. y \in Seq(Line) /\ Len(y) = n - k /\ \A i \in 1 .. n - k : y[i] = MarksOf(m) \o ls[is[i]]
  <2> HIDE DEF is, n
  <2>1. is \in Seq(DOMAIN ls)
    BY <1>1, Zenon DEF D
  <2>2. /\ y \in Seq(Line) /\ Len(y) = Len(is)
        /\ \A i \in 1 .. Len(is) : y[i] = MarksOf(m) \o ls[is[i]]
    BY <2>1, ContentFacts, Zenon
  <2> QED
    BY <1>1, <2>2, Zenon
<1>10. k \in 0 .. Len(x) /\ n = Len(x)
  BY <1>2, Zenon
<1> HIDE DEF x, y, is, n
<1>4. w \in Seq(Line) /\ Len(w) = n - k /\ \A i \in 1 .. n - k : w[i] = x[k + i]
  <2>1. x \in Seq(Line)
    BY <1>2, Zenon
  <2> HIDE DEF w
  <2>2. w = SubSeq(x, k + 1, Len(x))
    BY <1>10, Zenon DEF w
  <2>3. /\ SubSeq(x, k + 1, Len(x)) \in Seq(Line) /\ Len(SubSeq(x, k + 1, Len(x))) = Len(x) - k
        /\ \A i \in 1 .. Len(x) - k : SubSeq(x, k + 1, Len(x))[i] = x[k + i]
    BY <1>10, <2>1, SuffixReads, Zenon
  <2> QED
    BY <1>10, <2>2, <2>3, Zenon
<1>5. ASSUME NEW i \in 1 .. n - k
      PROVE  w[i] = y[i]
  <2>0. w[i] = x[k + i] /\ is[i] = js[k + i] /\ y[i] = MarksOf(m) \o ls[is[i]]
    BY <1>1, <1>3, <1>4, Zenon
  <2>3. n \in Nat
    BY <1>1, Zenon
  <2> HIDE DEF w
  <2>4. k + i \in 1 .. n
    BY <2>3
  <2>1. k + i \in 1 .. n /\ w[i] = x[k + i] /\ is[i] = js[k + i] /\ y[i] = MarksOf(m) \o ls[is[i]]
    BY <2>0, <2>4, Zenon
  <2>2. x[k + i] = MarksOf(m) \o ls[js[k + i]]
    BY <1>2, <2>1, Zenon
  <2> QED
    BY <2>1, <2>2, Zenon
<1>6. w = y
  <2> HIDE DEF w
  <2> QED
    BY <1>3, <1>4, <1>5, SeqEqual
<1> QED
  BY <1>1, <1>6 DEF x, y, is, n, D

-----------------------------------------------------------------------------
(* The types of the streams.                                               *)

Slices == [chunk : Text, following : Text, meant : Text, shared : BOOLEAN]
StreamsType ==
  /\ mode \in {"write", "read", "readall"}
  /\ pend \in [Processers -> Text]
  /\ stage \in [Writers -> 0 .. Len(Mark) + 1] /\ text \in [Writers -> Text]
  /\ inner \in Text /\ lines \in Seq(Line) /\ input \in Seq(Text)
  /\ failures \in Nat /\ panicked \in BOOLEAN /\ overlapped \in BOOLEAN
  /\ caller \in [Writers -> Slices] /\ clobbered \in BOOLEAN
  /\ eof \in BOOLEAN /\ short \in BOOLEAN /\ dropped \in BOOLEAN /\ broken \in BOOLEAN
  /\ source \in Text /\ outBuffer \in Text /\ delivered \in Text

LEMMA MinFacts ==
  ASSUME NEW a \in Nat, NEW b \in Nat
  PROVE  Texts!Min({a, b}) \in Nat /\ Texts!Min({a, b}) <= a /\ Texts!Min({a, b}) <= b
<1>1. \E x \in {a, b} : \A y \in {a, b} : x =< y
  <2>1. CASE a =< b
    BY <2>1
  <2>2. CASE b =< a
    BY <2>2
  <2> QED
    BY <2>1, <2>2
<1>2. Texts!Min({a, b}) \in {a, b} /\ \A y \in {a, b} : Texts!Min({a, b}) =< y
  BY <1>1, Zenon DEF Texts!Min
<1> QED
  BY <1>2

LEMMA TakeDrop ==
  ASSUME NEW s \in Text, NEW n \in 0 .. Len(s)
  PROVE  /\ SubSeq(s, 1, n) \in Text /\ SubSeq(s, n + 1, Len(s)) \in Text
         /\ SubSeq(s, 1, n) \o SubSeq(s, n + 1, Len(s)) = s
<1>1. SubSeq(s, 1, n) \in Text /\ SubSeq(s, n + 1, Len(s)) \in Text
  BY DEF Text
<1>2. 1 \in 1 .. Len(s) + 1 /\ n \in 1 - 1 .. Len(s) /\ Len(s) \in n .. Len(s)
  BY DEF Text
<1>3. SubSeq(s, 1, n) \o SubSeq(s, n + 1, Len(s)) = SubSeq(s, 1, Len(s))
  BY <1>2, ConcatAdjacentSubSeq, Zenon DEF Text
<1> QED
  BY <1>1, <1>3, SubSeqFull, Zenon DEF Text

\* A Read takes from what was processed, and loses nothing.
LEMMA DeliverFacts ==
  ASSUME NEW out \in Text, NEW k \in Nat, delivered \in Text, Deliver(out, k)
  PROVE  /\ delivered' \in Text /\ outBuffer' \in Text
         /\ delivered' \o outBuffer' = delivered \o out
         /\ eof' \in BOOLEAN /\ (eof' => outBuffer' = <<>>)
<1> DEFINE n == Texts!Min({k, Len(out)})
           a == SubSeq(out, 1, n)
           b == SubSeq(out, k + 1, Len(out))
           c == SubSeq(out, n + 1, Len(out))
<1>1. Len(out) \in Nat
  BY DEF Text
<1>2. n \in 0 .. Len(out) /\ (n = k \/ n = Len(out))
  <2>1. \E x \in {k, Len(out)} : \A y \in {k, Len(out)} : x =< y
    <3>1. CASE k =< Len(out)
      BY <3>1
    <3>2. CASE Len(out) =< k
      BY <3>2
    <3> QED
      BY <1>1, <3>1, <3>2
  <2>2. n \in {k, Len(out)}
    BY <2>1, Zenon DEF Texts!Min
  <2> HIDE DEF n
  <2>3. n \in Nat /\ n <= Len(out)
    BY <1>1, MinFacts DEF n
  <2> QED
    BY <1>1, <2>2, <2>3
<1> HIDE DEF n
<1>3. a \in Text /\ c \in Text /\ a \o c = out
  BY <1>2, TakeDrop, Zenon
<1>4. b = c
  <2>1. CASE n = k
    BY <2>1
  <2>2. CASE n = Len(out) /\ n # k
    <3>1. Len(out) < k
      BY <1>1, <2>2, MinFacts DEF n
    <3> QED
      BY <1>1, <2>2, <3>1, SubSeqEmpty
  <2> QED
    BY <1>2, <2>1, <2>2
<1>5. delivered' = delivered \o a /\ outBuffer' = b
  BY DEF Deliver, n
<1> HIDE DEF a, b, c
<1>6. (delivered \o a) \o c = delivered \o (a \o c)
  BY <1>3, TextAssociative
<1>7. delivered \o a \in Text
  BY <1>3, TextFacts
<1>8. eof' \in BOOLEAN /\ (eof' => outBuffer' = <<>>)
  <2>1. eof' = (out = <<>>)
    BY DEF Deliver
  <2>2. out = <<>> => b = <<>>
    <3>1. out = <<>> => Len(out) < k + 1
      BY EmptySeq
    <3> QED
      BY <1>1, <3>1, SubSeqEmpty DEF b
  <2> QED
    BY <1>5, <2>1, <2>2
<1> QED
  BY <1>3, <1>4, <1>5, <1>6, <1>7, <1>8

\* A processer gives marked lines, and keeps a part of one.
LEMMA ProcessFacts ==
  ASSUME NEW i \in Processers, NEW chunk \in Text, pend[i] \in Text
  PROVE  /\ pend[i] \o chunk \in Text
         /\ Process(i, chunk).rest = Rest(pend[i] \o chunk)
         /\ Process(i, chunk).out = Texts!FlattenSeq(Marked(Mark[i], WholeLines(pend[i] \o chunk)))
         /\ Process(i, chunk).rest \in Text /\ Process(i, chunk).out \in Text
         /\ \A rest \in AfterFailure(i, chunk) :
              /\ rest \in Text
              /\ \E k \in 1 .. Len(WholeLines(pend[i] \o chunk)) : rest = Behind(pend[i] \o chunk, k)
<1> DEFINE s  == pend[i] \o chunk
           ls == WholeLines(s)
           ms == Marked(Mark[i], ls)
<1>1. s \in Text
  BY TextFacts
<1>2. ls \in Seq(Line) /\ Rest(s) \in Part /\ Rest(s) \in Text
  <2> HIDE DEF s
  <2> QED
    BY <1>1, SplitFacts, LinesAreTexts
<1>3. Process(i, chunk).rest = Rest(s) /\ Process(i, chunk).out = Texts!FlattenSeq(ms)
  BY DEF Process, Remains
<1>4. ms \in Seq(Text)
  <2>1. \A k \in DOMAIN ls : <<Mark[i]>> \o ls[k] \in Text
    <3>1. i \in 1 .. Len(Mark) /\ Mark[i] \in Bytes
      BY BytesAssumption DEF Processers
    <3>2. \A k \in DOMAIN ls : ls[k] \in Text
      BY <1>2, LinesAreTexts
    <3>3. <<Mark[i]>> \in Text
      BY <3>1 DEF Text
    <3> HIDE DEF ls
    <3> QED
      BY <3>2, <3>3, TextFacts
  <2> HIDE DEF ls
  <2>2. ms = [k \in 1 .. Len(ls) |-> <<Mark[i]>> \o ls[k]] /\ Len(ls) \in Nat /\ DOMAIN ls = 1 .. Len(ls)
    BY <1>2 DEF Marked
  <2>3. /\ \A k \in 1 .. Len(ls) : ms[k] \in Text
        /\ ms = [k \in 1 .. Len(ls) |-> ms[k]]
    BY <2>1, <2>2, Zenon DEF Marked
  <2> HIDE DEF ms
  <2>4. ms \in [1 .. Len(ls) -> Text]
    BY <2>3, Zenon
  <2>5. Len(ls) \in Nat
    BY <2>2, Zenon
  <2> QED
    BY <2>4, <2>5
<1>5. Texts!FlattenSeq(ms) \in Text
  BY <1>4, FlattenTexts
<1>6. ASSUME NEW k \in DOMAIN ls
      PROVE  SubSeq(s, Len(Texts!FlattenSeq(SubSeq(ls, 1, k))) + 1, Len(s)) = Behind(s, k)
  <2> DEFINE f == Texts!FlattenSeq(SubSeq(ls, 1, k))
             b == Behind(s, k)
  <2>1. k \in 0 .. Len(ls)
    BY <1>2
  <2>2. f \in Text /\ b \in Text /\ s = f \o b
    <3> HIDE DEF s
    <3> QED
      BY <1>1, <2>1, BehindFacts, Zenon
  <2> HIDE DEF f, b, s
  <2> DEFINE x == SubSeq(s, Len(f) + 1, Len(s))
  <2>3. Len(s) = Len(f) + Len(b) /\ Len(f) \in Nat /\ Len(b) \in Nat
    BY <2>2 DEF Text
  <2>4. x \in Text /\ Len(x) = Len(b) /\ \A j \in 1 .. Len(b) : x[j] = s[Len(f) + j]
    BY <1>1, <2>3 DEF Text
  <2>5. \A j \in 1 .. Len(b) : s[Len(f) + j] = b[j]
    BY <2>2, <2>3 DEF Text
  <2> HIDE DEF x
  <2>6. x = b
    BY <2>2, <2>4, <2>5, SeqEqual DEF Text
  <2> QED
    BY <2>6 DEF x, f, b
<1>7. \A rest \in AfterFailure(i, chunk) : \E k \in 1 .. Len(ls) : rest = Behind(s, k)
  <2>1. DOMAIN ls = 1 .. Len(ls)
    BY <1>2
  <2>2. \A rest \in AfterFailure(i, chunk) : \E k \in DOMAIN ls :
          rest = SubSeq(s, Len(Texts!FlattenSeq(SubSeq(ls, 1, k))) + 1, Len(s))
    BY Zenon DEF AfterFailure
  <2> QED
    BY <1>6, <2>1, <2>2, Zenon
<1>8. \A k \in 1 .. Len(ls) : Behind(s, k) \in Text
  <2> TAKE k \in 1 .. Len(ls)
  <2>1. k \in 0 .. Len(ls)
    BY <1>2
  <2> QED
    BY <1>1, <2>1, BehindFacts, Zenon
<1> QED
  BY <1>1, <1>2, <1>3, <1>5, <1>7, <1>8

LEMMA FailureFacts ==
  ASSUME NEW i \in Processers, NEW chunk \in Text, pend[i] \in Text
  PROVE  \A rest \in AfterFailure(i, chunk) :
           \E k \in 1 .. Len(WholeLines(pend[i] \o chunk)) : rest = Behind(pend[i] \o chunk, k)
BY ProcessFacts, Zenon

LEMMA MarkFacts ==
  /\ Processers = 1 .. Len(Mark) /\ Len(Mark) \in Nat /\ Len(Mark) >= 1 /\ 1 \in Processers
  /\ \A i \in Processers : Mark[i] \in Bytes
BY BytesAssumption DEF Processers

\* The bytes written or read so far.
Got == Texts!FlattenSeq(input)

LEMMA GotFacts ==
  ASSUME input \in Seq(Text)
  PROVE  /\ Got \in Text
         /\ \A t \in Text : input' = Append(input, t) => input' \in Seq(Text) /\ Got' = Got \o t
         /\ \A t \in Text : input' = <<Got \o t>> => input' \in Seq(Text) /\ Got' = Got \o t
<1>1. Got \in Text
  BY FlattenTexts DEF Got
<1>2. ASSUME NEW t \in Text, input' = Append(input, t)
      PROVE  input' \in Seq(Text) /\ Got' = Got \o t
  BY <1>2, FlattenTexts DEF Got
<1>3. ASSUME NEW t \in Text, input' = <<Got \o t>>
      PROVE  input' \in Seq(Text) /\ Got' = Got \o t
  <2> DEFINE g == Got \o t
             e == <<>>
  <2>1. g \in Text
    BY <1>1, TextFacts
  <2>2. e \in Seq(Text) /\ Texts!FlattenSeq(e) = <<>>
    BY FlattenTexts
  <2> HIDE DEF g
  <2>3. input' = Append(e, g)
    BY <1>3 DEF g
  <2> HIDE DEF e
  <2>4. input' \in Seq(Text) /\ Texts!FlattenSeq(input') = Texts!FlattenSeq(e) \o g
    <3>1. Append(e, g) \in Seq(Text)
      BY <2>1, <2>2
    <3>2. Texts!FlattenSeq(Append(e, g)) = Texts!FlattenSeq(e) \o g
      BY <2>1, <2>2, FlattenTexts, Zenon
    <3> QED
      BY <2>3, <3>1, <3>2, Zenon
  <2>5. <<>> \o g = g
    BY <2>1, TextFacts
  <2> QED
    BY <2>2, <2>4, <2>5 DEF Got, g
<1> QED
  BY <1>1, <1>2, <1>3, Zenon

\* What the nested reader gives is read, or not looked at.
LEMMA ConsumeFacts ==
  ASSUME input \in Seq(Text), source \in Text, NEW n \in 0 .. Len(source), NEW m \in Nat,
         n + m <= Len(source), Consume(n, m)
  PROVE  /\ input' \in Seq(Text) /\ source' \in Text
         /\ SubSeq(source, 1, n) \in Text /\ Got' = Got \o SubSeq(source, 1, n)
<1>1. SubSeq(source, 1, n) \in Text
  BY TakeDrop, Zenon
<1>2. input' = <<Got \o SubSeq(source, 1, n)>> /\ source' = SubSeq(source, n + m + 1, Len(source))
  BY DEF Consume, Got
<1>3. source' \in Text
  <2>1. n + m \in 0 .. Len(source)
    BY DEF Text
  <2>2. SubSeq(source, (n + m) + 1, Len(source)) \in Text
    BY <2>1, TakeDrop, Zenon
  <2> QED
    BY <1>2, <2>2
<1> QED
  BY <1>1, <1>2, <1>3, GotFacts, Zenon

\* A slice goes through the processer and a part of what it gives to the reader.
LEMMA ThroughFacts ==
  ASSUME StreamsType, NEW slice \in Text, NEW k \in Nat, Through(slice, k)
  PROVE  /\ pend' \in [Processers -> Text] /\ outBuffer' \in Text /\ delivered' \in Text
         /\ panicked' \in BOOLEAN /\ eof' \in BOOLEAN
         /\ eof' => (panicked' /\ eof) \/ outBuffer' = <<>>
         /\ \/ panicked' /\ UNCHANGED <<pend, delivered, outBuffer>>
            \/ /\ panicked' = panicked /\ pend'[1] = Rest(pend[1] \o slice)
               /\ delivered' \o outBuffer' = delivered \o (outBuffer \o Process(1, slice).out)
<1> DEFINE r == Process(1, slice)
<1>1. 1 \in Processers /\ pend[1] \in Text
  BY MarkFacts DEF StreamsType
<1>2. r.rest \in Text /\ r.out \in Text /\ r.rest = Rest(pend[1] \o slice)
  BY <1>1, ProcessFacts
<1> HIDE DEF r
<1>3. CASE r.fits
  <2>1. pend' = [pend EXCEPT ![1] = r.rest] /\ Deliver(outBuffer \o r.out, k) /\ panicked' = panicked
    BY <1>3 DEF Through, r
  <2>2. outBuffer \o r.out \in Text /\ delivered \in Text
    BY <1>2, TextFacts DEF StreamsType
  <2>3. /\ delivered' \in Text /\ outBuffer' \in Text
        /\ delivered' \o outBuffer' = delivered \o (outBuffer \o r.out)
        /\ eof' \in BOOLEAN /\ (eof' => outBuffer' = <<>>)
    BY <2>1, <2>2, DeliverFacts, Zenon
  <2>4. pend' \in [Processers -> Text] /\ pend'[1] = r.rest
    BY <1>1, <1>2, <2>1 DEF StreamsType
  <2> QED
    BY <1>2, <2>1, <2>3, <2>4 DEF StreamsType, r
<1>4. CASE ~r.fits
  BY <1>4 DEF Through, r, StreamsType
<1> QED
  BY <1>3, <1>4, Zenon

\* A read slice, where the nested reader filled n of k bytes.
LEMMA SliceFacts ==
  ASSUME source \in Text, NEW k \in Nat, NEW n \in 1 .. Texts!Min({k, Len(source)})
  PROVE  /\ n \in 0 .. Len(source) /\ n <= k
         /\ Taken(k, n) \in Text /\ (n = k => Taken(k, n) = SubSeq(source, 1, n))
<1>1. Len(source) \in Nat
  BY DEF Text
<1>2. n \in 0 .. Len(source) /\ n <= k
  BY <1>1, MinFacts
<1>3. k - n \in Nat
  BY <1>2
<1>4. [j \in 1 .. k - n |-> Stale] \in Text
  BY <1>3, BytesAssumption DEF Text
<1>5. SubSeq(source, 1, n) \in Text
  BY <1>2, TakeDrop, Zenon
<1>6. n = k => [j \in 1 .. k - n |-> Stale] = <<>>
  BY <1>3
<1> QED
  BY <1>2, <1>4, <1>5, <1>6, TextFacts DEF Taken

\* What Process leaves in the array of a caller.
LEMMA OverwriteFacts ==
  ASSUME NEW c \in Slices, NEW out \in Text
  PROVE  Overwrite(c, out) \in Slices /\ Overwrite(c, out).chunk = c.chunk
<1>1. /\ c.chunk \in Text /\ c.following \in Text /\ c.meant \in Text
      /\ Len(c.chunk) \in Nat /\ Len(c.following) \in Nat /\ Len(out) \in Nat
  BY DEF Slices, Text
<1>2. CASE c.shared /\ Len(out) <= Len(c.chunk) + Len(c.following)
  <2> DEFINE f == [j \in DOMAIN c.following |-> IF Len(c.chunk) + j <= Len(out)
                                               THEN out[Len(c.chunk) + j] ELSE c.following[j]]
  <2>1. Overwrite(c, out) = [c EXCEPT !.following = f]
    BY <1>2 DEF Overwrite
  <2>2. DOMAIN c.following = 1 .. Len(c.following)
    BY <1>1 DEF Text
  <2>3. ASSUME NEW j \in 1 .. Len(c.following)
        PROVE  (IF Len(c.chunk) + j <= Len(out) THEN out[Len(c.chunk) + j] ELSE c.following[j]) \in Bytes
    <3>1. c.following[j] \in Bytes
      BY <1>1 DEF Text
    <3>2. Len(c.chunk) + j <= Len(out) => out[Len(c.chunk) + j] \in Bytes
      BY <1>1 DEF Text
    <3> QED
      BY <3>1, <3>2
  <2>4. f \in [1 .. Len(c.following) -> Bytes]
    BY <2>2, <2>3, Zenon
  <2> HIDE DEF f
  <2>5. f \in Text
    <3>1. f \in UNION {[1 .. n -> Bytes] : n \in Nat}
      BY <1>1, <2>4
    <3> QED
      BY <3>1, SeqDef, Zenon DEF Text
  <2>6. ASSUME NEW g \in Text
        PROVE  [c EXCEPT !.following = g] \in Slices /\ [c EXCEPT !.following = g].chunk = c.chunk
    BY DEF Slices
  <2> QED
    BY <2>1, <2>5, <2>6
<1>3. CASE ~(c.shared /\ Len(out) <= Len(c.chunk) + Len(c.following))
  <2>1. Overwrite(c, out) = [c EXCEPT !.shared = FALSE]
    BY <1>3 DEF Overwrite
  <2> QED
    BY <2>1 DEF Slices
<1> QED
  BY <1>2, <1>3

LEMMA StreamsTypeInit == StreamsInit => StreamsType
<1> SUFFICES ASSUME StreamsInit
             PROVE  StreamsType
  OBVIOUS
<1>1. <<>> \in Text /\ Source \in Text /\ Len(Mark) \in Nat
  BY BytesAssumption, TextFacts, MarkFacts DEF Text
<1>2. pend \in [Processers -> Text] /\ stage \in [Writers -> 0 .. Len(Mark) + 1] /\ text \in [Writers -> Text]
  BY <1>1 DEF StreamsInit, Idle
<1>3. inner \in Text /\ lines \in Seq(Line) /\ input \in Seq(Text)
  BY <1>1 DEF StreamsInit
<1>4. caller \in [Writers -> Slices]
  BY <1>1 DEF StreamsInit, Slices
<1> QED
  BY <1>1, <1>2, <1>3, <1>4, Zenon DEF StreamsInit, StreamsType

\* How far a ProcessingBufferReader reads.
LEMMA WholeTaken ==
  ASSUME source \in Text, NEW k \in Nat, NEW n, NEW m, TakesWhole(k, n, m)
  PROVE  n \in 0 .. Len(source) /\ m \in Nat /\ n + m <= Len(source)
<1>1. n \in 0 .. Len(source) /\ m \in 0 .. Texts!Min({k, Len(source) - n}) /\ Len(source) \in Nat
  BY DEF TakesWhole, Text
<1>2. Len(source) - n \in Nat
  BY <1>1
<1>3. Texts!Min({k, Len(source) - n}) \in Nat /\ Texts!Min({k, Len(source) - n}) <= Len(source) - n
  BY <1>2, MinFacts
<1> QED
  BY <1>1, <1>3

LEMMA StreamsTypeNext == StreamsType /\ [StreamsNext]_streamVars => StreamsType'
<1> SUFFICES ASSUME StreamsType, [StreamsNext]_streamVars
             PROVE  StreamsType'
  OBVIOUS
<1>1. ASSUME NEW w \in Writers, Starts(w), NEW x \in Text, text' = [text EXCEPT ![w] = x],
             NEW c \in Slices, caller' = [caller EXCEPT ![w] = c], clobbered' \in BOOLEAN
      PROVE  StreamsType'
  <2>1. 1 \in 0 .. Len(Mark) + 1
    BY MarkFacts
  <2>2. /\ text' \in [Writers -> Text] /\ stage' \in [Writers -> 0 .. Len(Mark) + 1]
        /\ caller' \in [Writers -> Slices]
    BY <1>1, <2>1 DEF Starts, StreamsType
  <2>3. overlapped' \in BOOLEAN
    BY <1>1 DEF Starts, StreamsType
  <2> QED
    BY <1>1, <2>2, <2>3 DEF Starts, StreamsType, reading
<1>11. ASSUME NEW w \in Writers, Write(w)
       PROVE  StreamsType'
  <2>1. PICK chunk \in Chunks, f \in Following :
          /\ text' = [text EXCEPT ![w] = chunk]
          /\ caller' = [caller EXCEPT ![w] = [chunk |-> chunk, following |-> f, meant |-> f,
                                              shared |-> TRUE]]
    BY <1>11, Zenon DEF Write
  <2>2. /\ chunk \in Text
        /\ [chunk |-> chunk, following |-> f, meant |-> f, shared |-> TRUE] \in Slices
    BY BytesAssumption DEF Text, Slices
  <2>3. Starts(w) /\ clobbered' \in BOOLEAN
    BY <1>11 DEF Write, StreamsType
  <2> QED
    BY <1>1, <2>1, <2>2, <2>3, Zenon
<1>12. ASSUME NEW w \in Writers, WriteOn(w)
       PROVE  StreamsType'
  <2> DEFINE c == [chunk |-> caller[w].meant, following |-> <<>>, meant |-> <<>>, shared |-> TRUE]
  <2>1. caller[w].following \in Text /\ c \in Slices
    <3>1. caller[w] \in Slices /\ <<>> \in Text
      BY TextFacts DEF StreamsType
    <3> QED
      BY <3>1 DEF Slices
  <2>2. /\ Starts(w) /\ text' = [text EXCEPT ![w] = caller[w].following]
        /\ caller' = [caller EXCEPT ![w] = c] /\ clobbered' \in BOOLEAN
    BY <1>12 DEF WriteOn, StreamsType
  <2> QED
    BY <1>1, <2>1, <2>2, Zenon
<1>2. ASSUME NEW w \in Writers, AtProcesser(w), Arrives(w)
      PROVE  /\ stage[w] \in Processers /\ text[w] \in Text /\ pend[stage[w]] \in Text
             /\ <<>> \in Text /\ Idle \in 0 .. Len(Mark) + 1 /\ stage[w] + 1 \in 0 .. Len(Mark) + 1
             /\ input' \in Seq(Text) /\ caller[w] \in Slices
  <2>1. stage[w] \in Processers /\ text[w] \in Text /\ pend[stage[w]] \in Text
    BY <1>2 DEF AtProcesser, StreamsType
  <2>2. <<>> \in Text /\ Idle \in 0 .. Len(Mark) + 1 /\ stage[w] + 1 \in 0 .. Len(Mark) + 1
    BY <2>1, TextFacts, MarkFacts DEF Idle
  <2>3. caller[w] \in Slices
    BY DEF StreamsType
  <2>4. input' \in Seq(Text)
    <3>1. caller[w].chunk \in Text /\ input \in Seq(Text)
      BY <2>3 DEF Slices, StreamsType
    <3> QED
      BY <1>2, <3>1, Zenon, GotFacts DEF Arrives
  <2> QED
    BY <2>1, <2>2, <2>3, <2>4
<1>3. ASSUME NEW w \in Writers, WriteProcess(w)
      PROVE  StreamsType'
  <2> DEFINE i == stage[w]
             r == Process(i, text[w])
  <2>1. /\ i \in Processers /\ text[w] \in Text /\ pend[i] \in Text
        /\ i + 1 \in 0 .. Len(Mark) + 1 /\ input' \in Seq(Text) /\ caller[w] \in Slices
    BY <1>2, <1>3 DEF WriteProcess
  <2>2. r.rest \in Text /\ r.out \in Text
    BY <2>1, ProcessFacts
  <2>3. \/ /\ pend' = [pend EXCEPT ![i] = r.rest] /\ text' = [text EXCEPT ![w] = r.out]
           /\ caller' = [caller EXCEPT ![w] = Overwrite(@, r.out)]
           /\ stage' = [stage EXCEPT ![w] = i + 1] /\ UNCHANGED panicked
        \/ panicked' = TRUE /\ UNCHANGED <<pend, text, caller, stage>>
    BY <1>3, Zenon DEF WriteProcess
  <2>4. /\ pend' \in [Processers -> Text] /\ text' \in [Writers -> Text]
        /\ stage' \in [Writers -> 0 .. Len(Mark) + 1] /\ panicked' \in BOOLEAN
        /\ caller' \in [Writers -> Slices]
    <3>1. Overwrite(caller[w], r.out) \in Slices
      BY <2>1, <2>2, OverwriteFacts
    <3> HIDE DEF r
    <3> QED
      BY <2>1, <2>2, <2>3, <3>1, Zenon DEF StreamsType
  <2> QED
    BY <1>3, <2>1, <2>4 DEF WriteProcess, StreamsType, reading
<1>4. ASSUME NEW w \in Writers, WriteFails(w)
      PROVE  StreamsType'
  <2> DEFINE i == stage[w]
  <2>1. /\ i \in Processers /\ text[w] \in Text /\ pend[i] \in Text
        /\ <<>> \in Text /\ Idle \in 0 .. Len(Mark) + 1 /\ input' \in Seq(Text)
    BY <1>2, <1>4 DEF WriteFails
  <2>2. PICK rest \in AfterFailure(i, text[w]) : pend' = [pend EXCEPT ![i] = rest]
    BY <1>4, Zenon DEF WriteFails
  <2>3. rest \in Text
    BY <2>1, ProcessFacts
  <2>4. /\ pend' \in [Processers -> Text] /\ text' \in [Writers -> Text]
        /\ stage' \in [Writers -> 0 .. Len(Mark) + 1] /\ failures' \in Nat
    BY <1>4, <2>1, <2>2, <2>3 DEF WriteFails, StreamsType
  <2> QED
    BY <1>4, <2>1, <2>4 DEF WriteFails, StreamsType, reading
<1>5. ASSUME NEW w \in Writers, WriteNested(w)
      PROVE  StreamsType'
  <2> DEFINE s == inner \o text[w]
  <2>1. s \in Text /\ <<>> \in Text /\ Idle \in 0 .. Len(Mark) + 1
    BY TextFacts, MarkFacts DEF StreamsType, Idle
  <2> HIDE DEF s
  <2>2. WholeLines(s) \in Seq(Line) /\ Rest(s) \in Text
    BY <2>1, SplitFacts, LinesAreTexts
  <2>3. lines' \in Seq(Line) /\ inner' \in Text
    BY <1>5, <2>2 DEF WriteNested, StreamsType, s
  <2>4. stage' \in [Writers -> 0 .. Len(Mark) + 1] /\ text' \in [Writers -> Text]
    BY <1>5, <2>1 DEF WriteNested, StreamsType
  <2> QED
    BY <1>5, <2>3, <2>4 DEF WriteNested, StreamsType, reading
<1>6. ASSUME NEW slice \in Text, Fails(slice)
      PROVE  /\ pend' \in [Processers -> Text] /\ failures' \in Nat /\ eof' \in BOOLEAN
             /\ UNCHANGED <<outBuffer, delivered, panicked>>
  <2>1. PICK rest \in AfterFailure(1, slice) : pend' = [pend EXCEPT ![1] = rest]
    BY <1>6, Zenon DEF Fails
  <2>2. 1 \in Processers /\ pend[1] \in Text
    BY MarkFacts, Zenon DEF StreamsType
  <2>3. rest \in Text
    BY <2>2, ProcessFacts
  <2>4. pend' \in [Processers -> Text]
    BY <2>1, <2>2, <2>3 DEF StreamsType
  <2>5. failures' = failures + 1 /\ failures \in Nat
    BY <1>6, Zenon DEF Fails, StreamsType
  <2>6. eof' \in BOOLEAN /\ UNCHANGED <<outBuffer, delivered, panicked>>
    BY <1>6, Zenon DEF Fails
  <2>7. failures' \in Nat
    BY <2>5
  <2> QED
    BY <2>4, <2>6, <2>7, Zenon
<1>7. \A k \in Sizes : k \in Nat
  BY BytesAssumption
<1>8. ASSUME NEW k \in Sizes, ReadBuffered(k) \/ ReadLast(k)
      PROVE  StreamsType'
  <2>1. delivered \in Text /\ outBuffer \in Text /\ k \in Nat /\ <<>> \in Text
    BY <1>7, TextFacts DEF StreamsType
  <2>2. Deliver(outBuffer, k)
    BY <1>8 DEF ReadBuffered, ReadLast
  <2>3. delivered' \in Text /\ outBuffer' \in Text /\ eof' \in BOOLEAN
    BY <2>1, <2>2, DeliverFacts
  <2> QED
    BY <1>8, <2>1, <2>3 DEF ReadBuffered, ReadLast, StreamsType, writing
<1>9. ASSUME NEW k \in Sizes, NEW n \in 1 .. k, Read(k, n) \/ ReadFails(k, n)
      PROVE  StreamsType'
  <2>1. /\ source \in Text /\ input \in Seq(Text) /\ k \in Nat /\ n \in 1 .. Texts!Min({k, Len(source)})
        /\ Takes(k, n)
    BY <1>7, <1>9 DEF Read, ReadFails, Takes, StreamsType
  <2>2. n \in 0 .. Len(source) /\ Taken(k, n) \in Text
    BY <2>1, SliceFacts
  <2>3. n + 0 <= Len(source) /\ 0 \in Nat
    BY <2>1, <2>2 DEF Text
  <2>4. input' \in Seq(Text) /\ source' \in Text
    BY <2>1, <2>2, <2>3, ConsumeFacts DEF Takes
  <2>5. short' \in BOOLEAN
    BY <2>1 DEF Takes, StreamsType
  <2>6. CASE Through(Taken(k, n), k) /\ UNCHANGED failures
    <3>1. /\ pend' \in [Processers -> Text] /\ outBuffer' \in Text /\ delivered' \in Text
          /\ panicked' \in BOOLEAN /\ eof' \in BOOLEAN
      BY <2>1, <2>2, <2>6, ThroughFacts
    <3> QED
      BY <2>1, <2>4, <2>5, <2>6, <3>1 DEF Takes, StreamsType, writing
  <2>7. CASE Fails(Taken(k, n))
    <3>1. /\ pend' \in [Processers -> Text] /\ failures' \in Nat /\ eof' \in BOOLEAN
          /\ UNCHANGED <<outBuffer, delivered, panicked>>
      BY <1>6, <2>2, <2>7
    <3> QED
      BY <2>1, <2>4, <2>5, <3>1 DEF Takes, StreamsType, writing
  <2> QED
    BY <1>9, <2>6, <2>7 DEF Read, ReadFails
<1>13. ASSUME NEW k \in Sizes, NEW n \in 0 .. Len(source), NEW m \in 0 .. Len(source),
              ReadWhole(k, n, m) \/ ReadWholeFails(k, n, m)
       PROVE  StreamsType'
  <2>1. source \in Text /\ input \in Seq(Text) /\ k \in Nat /\ TakesWhole(k, n, m)
    BY <1>7, <1>13 DEF ReadWhole, ReadWholeFails, StreamsType
  <2>2. n + m <= Len(source) /\ m \in Nat
    BY <2>1, WholeTaken
  <2>3. input' \in Seq(Text) /\ source' \in Text /\ SubSeq(source, 1, n) \in Text
    BY <2>1, <2>2, ConsumeFacts DEF TakesWhole
  <2>4. dropped' \in BOOLEAN /\ broken' \in BOOLEAN
    BY <2>1 DEF TakesWhole, StreamsType
  <2>5. CASE Through(SubSeq(source, 1, n), k) /\ UNCHANGED failures
    <3>1. /\ pend' \in [Processers -> Text] /\ outBuffer' \in Text /\ delivered' \in Text
          /\ panicked' \in BOOLEAN /\ eof' \in BOOLEAN
      BY <2>1, <2>3, <2>5, ThroughFacts
    <3> QED
      BY <2>1, <2>3, <2>4, <2>5, <3>1 DEF TakesWhole, StreamsType, writing
  <2>6. CASE Fails(SubSeq(source, 1, n))
    <3>1. /\ pend' \in [Processers -> Text] /\ failures' \in Nat /\ eof' \in BOOLEAN
          /\ UNCHANGED <<outBuffer, delivered, panicked>>
      BY <1>6, <2>3, <2>6
    <3> QED
      BY <2>1, <2>3, <2>4, <3>1 DEF TakesWhole, StreamsType, writing
  <2> QED
    BY <1>13, <2>5, <2>6 DEF ReadWhole, ReadWholeFails
<1>14. ASSUME NEW n \in 0 .. Len(source), ReadBroken(n)
       PROVE  StreamsType'
  <2>1. source' \in Text
    <3>1. source \in Text /\ source' = SubSeq(source, n + 1, Len(source))
      BY <1>14 DEF ReadBroken, StreamsType
    <3> QED
      BY <3>1, TakeDrop
  <2>2. broken' \in BOOLEAN /\ eof' \in BOOLEAN
    BY <1>14 DEF ReadBroken, StreamsType
  <2> QED
    BY <1>14, <2>1, <2>2 DEF ReadBroken, StreamsType, writing
<1>10. CASE UNCHANGED streamVars
  BY <1>10 DEF streamVars, writing, reading, StreamsType
<1> QED
  BY <1>3, <1>4, <1>5, <1>8, <1>9, <1>10, <1>11, <1>12, <1>13, <1>14, Zenon DEF StreamsNext

-----------------------------------------------------------------------------
(* Where the lines are.                                                    *)

\* no number twice; every number up to c
Distinct(ids) ==
  \A p, o \in DOMAIN ids : \A k \in 1 .. Len(ids[p]), m \in 1 .. Len(ids[o]) :
    ids[p][k] = ids[o][m] => p = o /\ k = m
Complete(ids, c) ==
  \A j \in 1 .. c : \E p \in DOMAIN ids : \E k \in 1 .. Len(ids[p]) : ids[p][k] = j

\* what is at a and b goes to t, without the first k numbers
Moved(ids, a, b, t, k) ==
  [p \in DOMAIN ids |->
     IF p = t THEN SubSeq(ids[a] \o ids[b], k + 1, Len(ids[a] \o ids[b]))
     ELSE IF p \in {a, b} THEN <<>> ELSE ids[p]]
\* the numbers after c, up to d, are new at p
Fresh(c, d) == [x \in 1 .. d - c |-> c + x]
Added(ids, p, c, d) == [ids EXCEPT ![p] = Fresh(c, d)]

LEMMA MovedFacts ==
  ASSUME NEW P, NEW D, NEW ids \in [P -> Seq(D)], NEW a \in P, NEW b \in P, a # b, NEW t \in {a, b},
         NEW k \in 0 .. Len(ids[a] \o ids[b]), Distinct(ids)
  PROVE  /\ Moved(ids, a, b, t, k) \in [P -> Seq(D)] /\ Distinct(Moved(ids, a, b, t, k))
         /\ k = 0 => \A c \in Nat : Complete(ids, c) => Complete(Moved(ids, a, b, t, k), c)
<1> DEFINE x  == ids[a]
           y  == ids[b]
           J  == x \o y
           n  == Len(J)
           A  == SubSeq(J, k + 1, n)
           new == Moved(ids, a, b, t, k)
<1>0. \A p, o \in P : \A i \in 1 .. Len(ids[p]), j \in 1 .. Len(ids[o]) :
        ids[p][i] = ids[o][j] => p = o /\ i = j
  <2>1. DOMAIN ids = P
    OBVIOUS
  <2> QED
    BY <2>1, Zenon DEF Distinct
<1>1. x \in Seq(D) /\ y \in Seq(D) /\ DOMAIN ids = P
  OBVIOUS
<1>2. /\ J \in Seq(D) /\ n = Len(x) + Len(y) /\ Len(x) \in Nat /\ Len(y) \in Nat
      /\ \A i \in 1 .. n : J[i] = IF i <= Len(x) THEN x[i] ELSE y[i - Len(x)]
  <2> HIDE DEF x, y
  <2>1. /\ J \in Seq(D) /\ Len(J) = Len(x) + Len(y)
        /\ \A i \in 1 .. Len(x) + Len(y) : J[i] = IF i <= Len(x) THEN x[i] ELSE y[i - Len(x)]
    BY <1>1, ConcatProperties
  <2> QED
    BY <1>1, <2>1
<1> HIDE DEF J, n
<1>3. A \in Seq(D) /\ Len(A) = n - k /\ k \in 0 .. n /\ n \in Nat /\ \A i \in 1 .. n - k : A[i] = J[k + i]
  <2>1. k \in 0 .. n /\ n \in Nat
    BY <1>1, <1>2 DEF n, J
  <2> QED
    BY <1>2, <2>1, SuffixReads, Zenon DEF n
<1> HIDE DEF A
<1>4. /\ DOMAIN new = P /\ new[t] = A
      /\ \A p \in P : p # t /\ p \in {a, b} => new[p] = <<>>
      /\ \A p \in P : p # t /\ p \notin {a, b} => new[p] = ids[p]
  BY <1>1, Zenon DEF Moved, A, n, J
<1>5. new \in [P -> Seq(D)]
  <2>1. \A p \in P : new[p] \in Seq(D)
    <3> TAKE p \in P
    <3>1. CASE p = t
      BY <1>3, <1>4, <3>1
    <3>2. CASE p # t /\ p \in {a, b}
      <4>1. new[p] = <<>>
        BY <1>4, <3>2
      <4> HIDE DEF new
      <4> QED
        BY <4>1
    <3>3. CASE p # t /\ p \notin {a, b}
      BY <1>4, <3>3
    <3> QED
      BY <3>1, <3>2, <3>3
  <2>2. new = [p \in P |-> new[p]]
    BY <1>1 DEF Moved
  <2> HIDE DEF new
  <2> QED
    BY <2>1, <2>2
<1> HIDE DEF new
\* the place of each number of J
<1>6. ASSUME NEW i \in 1 .. n
      PROVE  \/ i <= Len(x) /\ i \in 1 .. Len(ids[a]) /\ J[i] = ids[a][i]
             \/ i > Len(x) /\ i - Len(x) \in 1 .. Len(ids[b]) /\ J[i] = ids[b][i - Len(x)]
  BY <1>2
<1>7. ASSUME NEW i \in 1 .. n, NEW j \in 1 .. n, J[i] = J[j]
      PROVE  i = j
  <2>1. DOMAIN ids = P /\ a \in P /\ b \in P
    BY <1>1
  <2>2. CASE i <= Len(x) /\ j <= Len(x)
    <3>1. i \in 1 .. Len(ids[a]) /\ j \in 1 .. Len(ids[a]) /\ ids[a][i] = ids[a][j]
      BY <1>2, <1>6, <1>7, <2>2
    <3> QED
      BY <1>0, <2>1, <3>1
  <2>3. CASE i <= Len(x) /\ j > Len(x)
    <3>1. i \in 1 .. Len(ids[a]) /\ j - Len(x) \in 1 .. Len(ids[b]) /\ ids[a][i] = ids[b][j - Len(x)]
      BY <1>2, <1>6, <1>7, <2>3
    <3> QED
      BY <1>0, <2>1, <3>1
  <2>4. CASE i > Len(x) /\ j <= Len(x)
    <3>1. i - Len(x) \in 1 .. Len(ids[b]) /\ j \in 1 .. Len(ids[a]) /\ ids[a][j] = ids[b][i - Len(x)]
      BY <1>2, <1>6, <1>7, <2>4
    <3> QED
      BY <1>0, <2>1, <3>1
  <2>5. CASE i > Len(x) /\ j > Len(x)
    <3>1. /\ i - Len(x) \in 1 .. Len(ids[b]) /\ j - Len(x) \in 1 .. Len(ids[b])
          /\ ids[b][i - Len(x)] = ids[b][j - Len(x)]
      BY <1>2, <1>6, <1>7, <2>5
    <3>2. i - Len(x) = j - Len(x)
      BY <1>0, <2>1, <3>1
    <3> QED
      BY <1>2, <3>2
  <2> QED
    BY <1>2, <2>2, <2>3, <2>4, <2>5
<1>8. Distinct(new)
  <2> SUFFICES ASSUME NEW p \in P, NEW o \in P, NEW i \in 1 .. Len(new[p]), NEW j \in 1 .. Len(new[o]),
                      new[p][i] = new[o][j]
               PROVE  p = o /\ i = j
    BY <1>4 DEF Distinct
  <2>1. ASSUME NEW r \in P, NEW u \in 1 .. Len(new[r])
        PROVE  r = t \/ (r # t /\ r \notin {a, b} /\ new[r] = ids[r])
    <3>1. CASE r # t /\ r \in {a, b}
      <4>1. new[r] = <<>>
        BY <1>4, <3>1
      <4> QED
        BY <2>1, <4>1
    <3> QED
      BY <1>4, <3>1
  <2>2. ASSUME NEW r \in P, NEW u \in 1 .. Len(new[r]), r # t, NEW v \in 1 .. Len(A)
        PROVE  new[r][u] # A[v]
    <3>1. r \notin {a, b} /\ u \in 1 .. Len(ids[r]) /\ new[r][u] = ids[r][u]
      BY <2>1, <2>2, Zenon
    <3>2. k + v \in 1 .. n /\ A[v] = J[k + v]
      BY <1>3
    <3>3. PICK s \in {a, b} : \E z \in 1 .. Len(ids[s]) : A[v] = ids[s][z]
      BY <1>6, <3>2, Zenon
    <3> QED
      BY <1>0, <3>1, <3>3
  <2>3. CASE p = t /\ o = t
    <3>1. k + i \in 1 .. n /\ k + j \in 1 .. n /\ J[k + i] = J[k + j]
      BY <1>3, <1>4, <2>3
    <3>2. k + i = k + j
      BY <1>7, <3>1, Zenon
    <3> QED
      BY <1>3, <1>4, <2>3, <3>2
  <2>4. CASE p = t /\ o # t
    BY <1>4, <2>2, <2>4
  <2>5. CASE p # t /\ o = t
    BY <1>4, <2>2, <2>5
  <2>6. CASE p # t /\ o # t
    <3>1. new[p] = ids[p] /\ new[o] = ids[o]
      BY <2>1, <2>6
    <3> QED
      BY <1>0, <3>1
  <2> QED
    BY <2>3, <2>4, <2>5, <2>6
<1>9. ASSUME k = 0, NEW c \in Nat, Complete(ids, c)
      PROVE  Complete(new, c)
  <2> SUFFICES ASSUME NEW j \in 1 .. c
               PROVE  \E p \in P : \E i \in 1 .. Len(new[p]) : new[p][i] = j
    BY <1>4 DEF Complete
  <2>0. PICK p \in P : \E i \in 1 .. Len(ids[p]) : ids[p][i] = j
    BY <1>1, <1>9, Zenon DEF Complete
  <2>1. PICK i \in 1 .. Len(ids[p]) : ids[p][i] = j
    BY <2>0
  <2>2. ASSUME NEW u \in 1 .. n
        PROVE  u \in 1 .. Len(new[t]) /\ new[t][u] = J[u]
    BY <1>3, <1>4, <1>9
  <2>3. CASE p = a
    <3>0. n = Len(x) + Len(y) /\ Len(x) \in Nat /\ Len(y) \in Nat /\ i \in 1 .. Len(x)
      BY <1>2, <2>3, Zenon
    <3>2. i \in 1 .. n /\ i <= Len(x)
      <4> HIDE DEF x, y
      <4> QED
        BY <3>0
    <3>1. i \in 1 .. n /\ J[i] = ids[a][i]
      BY <1>2, <3>2, Zenon
    <3> QED
      BY <2>1, <2>2, <2>3, <3>1, Zenon
  <2>4. CASE p = b
    <3>0. n = Len(x) + Len(y) /\ Len(x) \in Nat /\ Len(y) \in Nat /\ i \in 1 .. Len(y)
      BY <1>2, <2>4, Zenon
    <3>1. Len(x) + i \in 1 .. n /\ ~(Len(x) + i <= Len(x)) /\ (Len(x) + i) - Len(x) = i
      <4> HIDE DEF x, y
      <4> QED
        BY <3>0
    <3>2. J[Len(x) + i] = ids[b][i]
      BY <1>2, <3>1, Zenon
    <3> QED
      BY <2>1, <2>2, <2>4, <3>1, <3>2
  <2>5. CASE p \notin {a, b}
    BY <1>4, <2>1, <2>5
  <2> QED
    BY <2>3, <2>4, <2>5
<1> QED
  BY <1>5, <1>8, <1>9 DEF new

LEMMA FreshFacts ==
  ASSUME NEW c \in Nat, NEW d \in Nat, c <= d
  PROVE  /\ Fresh(c, d) \in Seq(1 .. d) /\ Len(Fresh(c, d)) = d - c
         /\ \A i \in 1 .. d - c : Fresh(c, d)[i] = c + i
<1> DEFINE e == d - c
           f == Fresh(c, d)
<1>1. e \in Nat /\ \A i \in 1 .. e : c + i \in 1 .. d
  OBVIOUS
<1>2. f = [i \in 1 .. e |-> c + i]
  BY DEF Fresh
<1> HIDE DEF e, f
<1>3. f \in [1 .. e -> 1 .. d]
  BY <1>1, <1>2, Zenon
<1>4. f \in Seq(1 .. d) /\ Len(f) = e
  BY <1>1, <1>3
<1> QED
  BY <1>2, <1>4 DEF e, f

LEMMA AddedFacts ==
  ASSUME NEW P, NEW c \in Nat, NEW d \in Nat, c <= d, NEW ids \in [P -> Seq(1 .. c)],
         NEW p \in P, ids[p] = <<>>, Distinct(ids)
  PROVE  /\ Fresh(c, d) \in Seq(1 .. d) /\ Len(Fresh(c, d)) = d - c
         /\ Added(ids, p, c, d) \in [P -> Seq(1 .. d)] /\ Distinct(Added(ids, p, c, d))
         /\ Complete(ids, c) => Complete(Added(ids, p, c, d), d)
<1> DEFINE f   == Fresh(c, d)
           new == Added(ids, p, c, d)
<1>0. \A u, v \in P : \A i \in 1 .. Len(ids[u]), j \in 1 .. Len(ids[v]) :
        ids[u][i] = ids[v][j] => u = v /\ i = j
  <2>1. DOMAIN ids = P
    OBVIOUS
  <2> QED
    BY <2>1, Zenon DEF Distinct
<1>1. f \in Seq(1 .. d) /\ Len(f) = d - c /\ \A i \in 1 .. d - c : f[i] = c + i
  BY FreshFacts, Zenon
<1>2. DOMAIN new = P /\ DOMAIN ids = P /\ new[p] = f /\ \A o \in P : o # p => new[o] = ids[o]
  BY DEF Added
<1>3. new \in [P -> Seq(1 .. d)]
  <2>1. \A o \in P : ids[o] \in Seq(1 .. d)
    <3> TAKE o \in P
    <3>1. ids[o] \in Seq(1 .. c) /\ \A j \in 1 .. c : j \in 1 .. d
      OBVIOUS
    <3> QED
      BY <3>1
  <2>2. \A o \in P : new[o] \in Seq(1 .. d)
    BY <1>1, <1>2, <2>1, Zenon
  <2>3. new = [o \in P |-> new[o]]
    BY Zenon DEF Added
  <2> HIDE DEF new
  <2> QED
    BY <2>2, <2>3
<1> HIDE DEF f, new
<1>4. ASSUME NEW o \in P, o # p, NEW i \in 1 .. Len(new[o])
      PROVE  i \in 1 .. Len(ids[o]) /\ new[o][i] = ids[o][i] /\ ids[o][i] \in 1 .. c
  <2>1. new[o] = ids[o] /\ ids[o] \in Seq(1 .. c)
    BY <1>2, <1>4
  <2> QED
    BY <2>1
<1>5. Distinct(new)
  <2> SUFFICES ASSUME NEW o \in P, NEW r \in P, NEW i \in 1 .. Len(new[o]), NEW j \in 1 .. Len(new[r]),
                      new[o][i] = new[r][j]
               PROVE  o = r /\ i = j
    BY <1>2 DEF Distinct
  <2>1. CASE o = p /\ r = p
    <3>1. i \in 1 .. d - c /\ j \in 1 .. d - c /\ c + i = c + j
      BY <1>1, <1>2, <2>1, Zenon
    <3> QED
      BY <2>1, <3>1
  <2>2. CASE o = p /\ r # p
    <3>1. new[r][j] \in 1 .. c /\ new[o][i] = c + i /\ i \in 1 .. d - c
      BY <1>1, <1>2, <1>4, <2>2, Zenon
    <3> QED
      BY <3>1
  <2>3. CASE o # p /\ r = p
    <3>1. new[o][i] \in 1 .. c /\ new[r][j] = c + j /\ j \in 1 .. d - c
      BY <1>1, <1>2, <1>4, <2>3, Zenon
    <3> QED
      BY <3>1
  <2>4. CASE o # p /\ r # p
    <3>1. /\ i \in 1 .. Len(ids[o]) /\ new[o][i] = ids[o][i]
          /\ j \in 1 .. Len(ids[r]) /\ new[r][j] = ids[r][j]
      BY <1>4, <2>4, Zenon
    <3>2. ids[o][i] = ids[r][j]
      BY <3>1, Zenon
    <3>3. ids[o][i] = ids[r][j] => o = r /\ i = j
      <4>1. o \in P /\ r \in P /\ i \in 1 .. Len(ids[o]) /\ j \in 1 .. Len(ids[r])
        BY <3>1
      <4> QED
        BY <1>0, <4>1, SMTT(60)
    <3> QED
      BY <3>2, <3>3
  <2> QED
    BY <2>1, <2>2, <2>3, <2>4
<1>6. ASSUME Complete(ids, c)
      PROVE  Complete(new, d)
  <2> SUFFICES ASSUME NEW j \in 1 .. d
               PROVE  \E o \in P : \E i \in 1 .. Len(new[o]) : new[o][i] = j
    BY <1>2, Zenon DEF Complete
  <2>1. CASE j <= c
    <3>1. j \in 1 .. c
      BY <2>1
    <3>4. PICK o \in P : \E i \in 1 .. Len(ids[o]) : ids[o][i] = j
      BY <1>2, <1>6, <3>1, Zenon DEF Complete
    <3>2. PICK i \in 1 .. Len(ids[o]) : ids[o][i] = j
      BY <3>4
    <3>3. o # p
      BY <3>2
    <3> QED
      BY <1>2, <3>2, <3>3
  <2>2. CASE j > c
    <3>1. j - c \in 1 .. d - c /\ c + (j - c) = j
      BY <2>2
    <3>2. f[j - c] = j /\ j - c \in 1 .. Len(f)
      BY <1>1, <3>1
    <3> QED
      BY <1>2, <3>2
  <2> QED
    BY <2>1, <2>2
<1> QED
  BY <1>1, <1>3, <1>5, <1>6 DEF f, new

LEMMA NumbersIn ==
  ASSUME NEW ls \in Seq(Line), NEW c \in 0 .. Len(ls), NEW js \in Seq(1 .. c)
  PROVE  js \in Seq(DOMAIN ls)
<1>1. \A j \in 1 .. c : j \in DOMAIN ls
  OBVIOUS
<1> HIDE DEF Line
<1> QED
  BY <1>1

LEMMA ContentSame ==
  ASSUME NEW ls, NEW ms, NEW c \in Nat, \A j \in 1 .. c : ms[j] = ls[j], NEW m, NEW js \in Seq(1 .. c)
  PROVE  Content(m, js, ms) = Content(m, js, ls)
<1>1. \A k \in DOMAIN js : ms[js[k]] = ls[js[k]]
  OBVIOUS
<1> QED
  BY <1>1, Zenon DEF Content

LEMMA FreshContent ==
  ASSUME NEW ls \in Seq(Line), NEW c \in 0 .. Len(ls)
  PROVE  /\ Fresh(c, Len(ls)) \in Seq(DOMAIN ls)
         /\ Content(0, Fresh(c, Len(ls)), ls) = SubSeq(ls, c + 1, Len(ls))
<1> DEFINE n == Len(ls)
           f == Fresh(c, n)
           x == Content(0, f, ls)
           y == SubSeq(ls, c + 1, n)
<1>1. n \in Nat /\ c \in 0 .. n /\ DOMAIN ls = 1 .. n
  OBVIOUS
<1>2. f \in Seq(1 .. n) /\ Len(f) = n - c /\ \A i \in 1 .. n - c : f[i] = c + i
  <2> HIDE DEF n
  <2> QED
    BY <1>1, FreshFacts
<1> HIDE DEF n, f
<1>3. 0 \in 0 .. Len(Mark) /\ f \in Seq(DOMAIN ls)
  BY <1>1, <1>2, MarkFacts
<1>4. x \in Seq(Line) /\ Len(x) = n - c /\ \A i \in 1 .. n - c : x[i] = MarksOf(0) \o ls[f[i]]
  BY <1>2, <1>3, ContentFacts, SMTT(30)
<1>5. \A l \in Line : MarksOf(0) \o l = l
  <2>1. MarksOf(0) = <<>>
    BY BytesAssumption DEF MarksOf, Texts!Reverse
  <2> QED
    BY <2>1, LinesAreTexts, TextFacts, Zenon
<1> HIDE DEF x
<1>6. y \in Seq(Line) /\ Len(y) = n - c /\ \A i \in 1 .. n - c : y[i] = ls[c + i]
  <2>1. c + 1 \in 1 .. n + 1 /\ n \in Nat /\ n = Len(ls) /\ \A i \in 1 .. n - c : c + 1 + i - 1 = c + i
    BY <1>1 DEF n
  <2>2. y \in Seq(Line) /\ Len(y) = n - c
    BY <2>1, <1>1
  <2>3. \A i \in 1 .. n - c : y[i] = ls[c + i]
    BY <2>1, <1>1
  <2> QED
    BY <2>2, <2>3
<1> HIDE DEF y
<1>7. ASSUME NEW i \in 1 .. n - c
      PROVE  x[i] = y[i]
  <2>1. f[i] = c + i /\ c + i \in DOMAIN ls
    BY <1>1, <1>2
  <2>2. ls[c + i] \in Line
    BY <2>1
  <2> QED
    BY <1>4, <1>5, <1>6, <2>1, <2>2, Zenon
<1>8. x = y
  BY <1>4, <1>6, <1>7, SeqEqual
<1> QED
  BY <1>3, <1>8 DEF x, y, f, n

LEMMA FlattenContent ==
  ASSUME NEW m \in 0 .. Len(Mark), NEW ls \in Seq(Line), NEW js \in Seq(DOMAIN ls)
  PROVE  LET t == Texts!FlattenSeq(Content(m, js, ls)) IN
         /\ t \in Text /\ WholeLines(t) = Content(m, js, ls) /\ Rest(t) = <<>>
         /\ js = <<>> => t = <<>>
<1>1. Content(m, js, ls) \in Seq(Line) /\ (js = <<>> => Content(m, js, ls) = <<>>)
  <2>1. js = <<>> => Content(m, js, ls) = <<>>
    BY DEF Content
  <2> QED
    BY <2>1, ContentFacts
<1> QED
  BY <1>1, LinesOf, FlattenTexts

\* A processer behind the first gets whole lines and keeps nothing of them.
LEMMA ProcessLater ==
  ASSUME NEW i \in 2 .. Len(Mark), NEW ls \in Seq(Line), NEW is \in Seq(DOMAIN ls), NEW js \in Seq(DOMAIN ls),
         pend[i] = Texts!FlattenSeq(Content(i - 1, is, ls)),
         NEW chunk, chunk = Texts!FlattenSeq(Content(i - 1, js, ls))
  PROVE  /\ is \o js \in Seq(DOMAIN ls)
         /\ Process(i, chunk).rest = <<>>
         /\ Process(i, chunk).out = Texts!FlattenSeq(Content(i, is \o js, ls))
         /\ \A rest \in AfterFailure(i, chunk) : \E k \in 0 .. Len(is \o js) :
              rest = Texts!FlattenSeq(Content(i - 1, SubSeq(is \o js, k + 1, Len(is \o js)), ls))
<1> DEFINE J == is \o js
           C == Content(i - 1, J, ls)
           s == pend[i] \o chunk
<1>1. i \in Processers /\ i - 1 \in 0 .. Len(Mark) /\ i \in 0 .. Len(Mark) /\ i > 0
  BY MarkFacts
<1>2. pend[i] \in Text /\ chunk \in Text
  BY <1>1, FlattenContent, Zenon
<1>3. J \in Seq(DOMAIN ls) /\ C = Content(i - 1, is, ls) \o Content(i - 1, js, ls)
  BY <1>1, ContentJoins, Zenon
<1>4. C \in Seq(Line) /\ Len(C) = Len(J) /\ Marked(Mark[i], C) = Content(i, J, ls)
  <2> HIDE DEF J
  <2> QED
    BY <1>1, <1>3, ContentFacts, ZenonT(60)
<1>5. s = Texts!FlattenSeq(C)
  <2>1. Content(i - 1, is, ls) \in Seq(Text) /\ Content(i - 1, js, ls) \in Seq(Text)
    BY <1>1, ContentFacts, LinesAreTexts, Zenon
  <2> QED
    BY <1>3, <2>1, FlattenConcat, Zenon
<1>6. WholeLines(s) = C /\ Rest(s) = <<>> /\ s \in Text
  <2> HIDE DEF C, s
  <2> QED
    BY <1>4, <1>5, LinesOf
<1>7. Process(i, chunk).rest = <<>> /\ Process(i, chunk).out = Texts!FlattenSeq(Content(i, J, ls))
  <2> HIDE DEF J
  <2> QED
    BY <1>1, <1>2, <1>4, <1>6, ProcessFacts
<1>8. ASSUME NEW rest \in AfterFailure(i, chunk)
      PROVE  \E k \in 0 .. Len(J) : rest = Texts!FlattenSeq(Content(i - 1, SubSeq(J, k + 1, Len(J)), ls))
  <2>0. \E k \in 1 .. Len(WholeLines(s)) : rest = Behind(s, k)
    <3>1. \A r \in AfterFailure(i, chunk) : \E k \in 1 .. Len(WholeLines(s)) : r = Behind(s, k)
      BY <1>1, <1>2, FailureFacts, Zenon
    <3> QED
      BY <1>8, <3>1, Zenon
  <2>1. PICK k \in 1 .. Len(C) : rest = Behind(s, k)
    BY <1>6, <2>0, Zenon
  <2>2. k \in 0 .. Len(J) /\ k \in 0 .. Len(C)
    BY <1>4
  <2> HIDE DEF J
  <2>3. SubSeq(C, k + 1, Len(C)) = Content(i - 1, SubSeq(J, k + 1, Len(J)), ls)
    <3>1. i - 1 \in 0 .. Len(Mark) /\ J \in Seq(DOMAIN ls) /\ k \in 0 .. Len(J)
      BY <1>1, <1>3, <2>2, Zenon
    <3>2. SubSeq(C, k + 1, Len(J)) = Content(i - 1, SubSeq(J, k + 1, Len(J)), ls)
      BY <3>1, ContentRest, ZenonT(60)
    <3>3. Len(C) = Len(J)
      BY <1>4, Zenon
    <3> QED
      BY <3>2, <3>3, Zenon
  <2> HIDE DEF C, s
  <2>4. rest = Texts!FlattenSeq(SubSeq(C, k + 1, Len(C))) \o <<>>
    BY <1>6, <2>1 DEF Behind
  <2>5. Texts!FlattenSeq(SubSeq(C, k + 1, Len(C))) \in Text
    <3>1. SubSeq(C, k + 1, Len(C)) \in Seq(Line)
      BY <1>4, <2>2
    <3> QED
      BY <3>1, LinesOf, Zenon
  <2>6. rest = Texts!FlattenSeq(SubSeq(C, k + 1, Len(C)))
    BY <2>4, <2>5, TextFacts
  <2> QED
    BY <2>2, <2>3, <2>6, Zenon
<1> QED
  BY <1>3, <1>7, <1>8

\* The first processer has gone through c lines of what came, and more comes.
LEMMA ProcessFirst ==
  ASSUME NEW s \in Text, NEW c \in 0 .. Len(WholeLines(s)), NEW chunk \in Text, pend[1] = Behind(s, c)
  PROVE  LET u  == s \o chunk
             ls == WholeLines(u)
         IN  /\ u \in Text /\ ls \in Seq(Line) /\ c \in 0 .. Len(ls)
             /\ Len(WholeLines(s)) <= Len(ls) /\ \A j \in 1 .. c : ls[j] = WholeLines(s)[j]
             /\ Process(1, chunk).rest = Behind(u, Len(ls))
             /\ Process(1, chunk).out = Texts!FlattenSeq(Content(1, Fresh(c, Len(ls)), ls))
             /\ \A rest \in AfterFailure(1, chunk) : \E d \in c .. Len(ls) : rest = Behind(u, d)
<1> DEFINE u  == s \o chunk
           ls == WholeLines(u)
           n  == Len(ls)
           v  == Behind(u, c)
           ms == SubSeq(ls, c + 1, n)
<1>1. /\ u \in Text /\ ls \in Seq(Line) /\ Len(WholeLines(s)) <= n /\ v = pend[1] \o chunk
      /\ WholeLines(s) \in Seq(Line) /\ \A j \in DOMAIN WholeLines(s) : ls[j] = WholeLines(s)[j]
  BY FirstFacts
<1> HIDE DEF u
<1>2. n \in Nat /\ c \in 0 .. n /\ \A j \in 1 .. c : j \in DOMAIN WholeLines(s)
  <2> HIDE DEF ls
  <2> QED
    BY <1>1
<1>3. /\ v \in Text /\ WholeLines(v) = ms /\ Rest(v) = Rest(u) /\ ms \in Seq(Line)
  BY <1>1, <1>2, BehindFacts, Zenon
<1>4. 1 \in Processers /\ pend[1] \in Text /\ 1 \in 0 .. Len(Mark)
  <2>1. Behind(s, c) \in Text
    BY BehindFacts, Zenon
  <2> QED
    BY <2>1, MarkFacts
<1>5. Process(1, chunk).rest = Rest(u) /\ Process(1, chunk).out = Texts!FlattenSeq(Marked(Mark[1], ms))
  <2> HIDE DEF ms, v
  <2> QED
    BY <1>1, <1>3, <1>4, ProcessFacts
<1>6. Marked(Mark[1], ms) = Content(1, Fresh(c, n), ls)
  <2> HIDE DEF ls, n, ms
  <2>1. Fresh(c, n) \in Seq(DOMAIN ls) /\ Content(0, Fresh(c, n), ls) = ms
    BY <1>1, <1>2, FreshContent DEF n, ms
  <2>2. Marked(Mark[1], Content(1 - 1, Fresh(c, n), ls)) = Content(1, Fresh(c, n), ls)
    <3> DEFINE f == Fresh(c, n)
    <3>1. f \in Seq(DOMAIN ls) /\ 1 > 0
      BY <2>1
    <3> HIDE DEF f
    <3>2. Marked(Mark[1], Content(1 - 1, f, ls)) = Content(1, f, ls)
      BY <1>1, <1>4, <3>1, ContentFacts
    <3> QED
      BY <3>2 DEF f
  <2> QED
    BY <2>1, <2>2
<1>7. Rest(u) = Behind(u, n)
  <2>1. n \in 0 .. n
    BY <1>2
  <2>2. SubSeq(ls, n + 1, n) = <<>> /\ Rest(u) \in Text
    <3>1. Rest(u) \in Text
      BY <1>1, SplitFacts, LinesAreTexts
    <3> HIDE DEF ls
    <3> QED
      BY <1>2, <3>1, SubSeqEmpty DEF n
  <2>3. Behind(u, n) = Texts!FlattenSeq(<<>>) \o Rest(u)
    BY <2>2, Zenon DEF Behind
  <2> QED
    BY <2>2, <2>3, FlattenTexts, TextFacts, Zenon
<1>8. ASSUME NEW rest \in AfterFailure(1, chunk)
      PROVE  \E d \in c .. n : rest = Behind(u, d)
  <2>1. PICK k \in 1 .. Len(ms) : rest = Behind(v, k)
    <3> HIDE DEF ms, v
    <3> QED
      BY <1>1, <1>3, <1>4, ProcessFacts
  <2>2. k \in 0 .. Len(WholeLines(v)) /\ k \in Nat
    BY <1>3
  <2>3. c + k \in 0 .. n /\ Behind(v, k) = Behind(u, c + k)
    BY <1>1, <1>2, <2>2, BehindBehind, ZenonT(60)
  <2>4. c + k \in c .. n
    BY <1>2, <2>2, <2>3
  <2> QED
    BY <2>1, <2>3, <2>4
<1> QED
  BY <1>1, <1>2, <1>5, <1>6, <1>7, <1>8 DEF u

\* the lines that came so far
All == WholeLines(Got)

\* A line is with the nested writer, with writer w, or in the buffer of processer i.
Out   == <<"out", 0>>
By(w) == <<"by", w>>
In(i) == <<"in", i>>
Behinds == 2 .. Len(Mark)
Places  == {Out} \cup {By(w) : w \in Writers} \cup {In(i) : i \in Behinds}

LEMMA PlaceFacts ==
  /\ Out \in Places /\ (\A w \in Writers : By(w) \in Places) /\ (\A i \in Behinds : In(i) \in Places)
  /\ \A w : By(w) # Out /\ \A v : By(v) = By(w) => v = w
  /\ \A i : In(i) # Out /\ \A j : In(j) = In(i) => j = i
  /\ \A w, i : By(w) # In(i)
  /\ \A p \in Places : p = Out \/ (\E w \in Writers : p = By(w)) \/ (\E i \in Behinds : p = In(i))
BY DEF Places, Out, By, In

Carries(w, ids) ==
  IF stage[w] <= 1 THEN ids[By(w)] = <<>>
  ELSE text[w] = Texts!FlattenSeq(Content(stage[w] - 1, ids[By(w)], All))
Keeps(i, ids) == pend[i] = Texts!FlattenSeq(Content(i - 1, ids[In(i)], All))

\* one writer at most is under way, and carries the lines that come next
InTurn(ids) ==
  /\ \A v, w \in Writers : stage[v] # Idle /\ stage[w] # Idle => v = w
  /\ \A k \in 1 .. Len(ids[Out]) : ids[Out][k] = k
  /\ \A w \in Writers : \A k \in 1 .. Len(ids[By(w)]) : ids[By(w)][k] = Len(ids[Out]) + k

\* The first processer has gone through c lines; ids says which of them are where.
WriteState(c, ids) ==
  /\ c \in 0 .. Len(All) /\ ids \in [Places -> Seq(1 .. c)] /\ Distinct(ids)
  /\ inner = <<>> /\ lines = Content(Len(Mark), ids[Out], All)
  /\ (\A w \in Writers : Carries(w, ids)) /\ (\A i \in Behinds : Keeps(i, ids))
  /\ ~panicked => pend[1] = Behind(Got, c)
  /\ failures = 0 => /\ Complete(ids, c) /\ (\A i \in Behinds : ids[In(i)] = <<>>)
                     /\ ~panicked => c = Len(All)
  /\ failures = 0 /\ ~overlapped => InTurn(ids)

\* what a Write was given is what its caller meant
Meant == \A w \in Writers : stage[w] = 1 => text[w] = caller[w].chunk

WriteInv == mode = "write" /\ ~clobbered => Meant /\ \E c, ids : WriteState(c, ids)

LEMMA WriteInvInit == StreamsInit => WriteInv
<1> SUFFICES ASSUME StreamsInit
             PROVE  Meant /\ \E c, ids : WriteState(c, ids)
  BY DEF WriteInv
<1> DEFINE ids == [p \in Places |-> <<>>]
<1>1. Got = <<>> /\ All = <<>> /\ Rest(Got) = <<>>
  BY FlattenTexts, SplitTyped DEF StreamsInit, Got, All, WholeLines, Rest, NoSplit
<1>2. ids \in [Places -> Seq(1 .. 0)] /\ DOMAIN ids = Places /\ \A p \in Places : ids[p] = <<>>
  OBVIOUS
<1> HIDE DEF ids
<1>3. Distinct(ids) /\ Complete(ids, 0)
  BY <1>2 DEF Distinct, Complete
<1>4. \A m, L : Content(m, <<>>, L) = <<>>
  BY DEF Content
<1>5. lines = Content(Len(Mark), ids[Out], All) /\ inner = <<>>
  BY <1>2, <1>4, PlaceFacts DEF StreamsInit
<1>6. \A w \in Writers : Carries(w, ids)
  BY <1>2, PlaceFacts DEF StreamsInit, Carries, Idle
<1>7. \A i \in Behinds : Keeps(i, ids)
  <2> TAKE i \in Behinds
  <2>1. pend[i] = <<>> /\ ids[In(i)] = <<>>
    BY <1>2, MarkFacts, PlaceFacts DEF StreamsInit, Behinds
  <2> QED
    BY <1>4, <2>1, FlattenTexts DEF Keeps
<1>8. pend[1] = Behind(Got, 0)
  <2>1. Behind(Got, 0) = <<>> \o <<>>
    <3>1. SubSeq(WholeLines(Got), 0 + 1, Len(WholeLines(Got))) = <<>>
      BY <1>1 DEF All
    <3> QED
      BY <1>1, <3>1, FlattenTexts, Zenon DEF Behind
  <2>2. pend[1] = <<>>
    BY MarkFacts DEF StreamsInit
  <2> QED
    BY <2>1, <2>2, TextFacts
<1>9. InTurn(ids)
  BY <1>2, PlaceFacts DEF InTurn, StreamsInit
<1>10. \A i \in Behinds : ids[In(i)] = <<>>
  BY <1>2, PlaceFacts
<1>11. 0 \in 0 .. Len(All) /\ Len(All) = 0
  BY <1>1
<1>12. WriteState(0, ids)
  BY <1>2, <1>3, <1>5, <1>6, <1>7, <1>8, <1>9, <1>10, <1>11 DEF WriteState
<1>13. Meant
  BY DEF StreamsInit, Meant
<1> QED
  BY <1>12, <1>13

LEMMA WriteStep ==
  ASSUME StreamsType, NEW c, NEW ids, WriteState(c, ids), NEW w \in Writers, Starts(w),
         \A v \in Writers : v # w => text'[v] = text[v]
  PROVE  WriteState(c, ids)'
<1>1. Got' = Got /\ All' = All
  BY DEF Starts, Got, All
<1>2. /\ stage[w] = Idle /\ stage' = [stage EXCEPT ![w] = 1]
      /\ \A v \in Writers : v # w => stage'[v] = stage[v] /\ text'[v] = text[v]
  BY DEF Starts, StreamsType
<1>3. stage'[w] = 1
  BY <1>2 DEF StreamsType
<1>4. \A v \in Writers : Carries(v, ids)'
  <2> TAKE v \in Writers
  <2>1. Carries(v, ids)
    BY DEF WriteState
  <2>2. CASE v = w
    BY <1>2, <1>3, <2>1, <2>2 DEF Carries, Idle
  <2>3. CASE v # w
    BY <1>1, <1>2, <2>1, <2>3 DEF Carries
  <2> QED
    BY <2>2, <2>3
<1>5. \A i \in Behinds : Keeps(i, ids)'
  BY <1>1 DEF WriteState, Keeps, Starts
<1>6. ASSUME failures = 0, ~overlapped'
      PROVE  InTurn(ids)'
  <2>1. InTurn(ids) /\ \A v \in Writers : stage[v] = Idle
    BY <1>6, Zenon DEF Starts, WriteState
  <2>2. \A v \in Writers : v # w => stage'[v] = Idle
    BY <1>2, <2>1
  <2> QED
    BY <2>1, <2>2 DEF InTurn
<1>7. failures' = failures /\ panicked' = panicked /\ pend' = pend /\ inner' = inner /\ lines' = lines
  BY DEF Starts
<1> QED
  BY <1>1, <1>4, <1>5, <1>6, <1>7 DEF WriteState

LEMMA AllFacts ==
  ASSUME StreamsType
  PROVE  Got \in Text /\ All \in Seq(Line) /\ Len(All) \in Nat
<1>1. Got \in Text
  BY GotFacts DEF StreamsType
<1> QED
  BY <1>1, SplitFacts DEF All

LEMMA StateFacts ==
  ASSUME StreamsType, NEW c, NEW ids, WriteState(c, ids)
  PROVE  /\ c \in Nat /\ c \in 0 .. Len(All) /\ DOMAIN ids = Places
         /\ \A p \in Places : ids[p] \in Seq(1 .. c) /\ ids[p] \in Seq(DOMAIN All)
<1>1. c \in 0 .. Len(All) /\ ids \in [Places -> Seq(1 .. c)] /\ All \in Seq(Line) /\ Len(All) \in Nat
  BY AllFacts DEF WriteState
<1>2. \A p \in Places : ids[p] \in Seq(1 .. c) /\ ids[p] \in Seq(DOMAIN All)
  <2> TAKE p \in Places
  <2>1. ids[p] \in Seq(1 .. c)
    BY <1>1
  <2> QED
    BY <1>1, <2>1, NumbersIn
<1> QED
  BY <1>1, <1>2

\* What came to the first processer, and is in its buffer or goes on.
LEMMA FirstArrives ==
  ASSUME StreamsType, NEW c, NEW ids, WriteState(c, ids), ~panicked, NEW w \in Writers,
         stage[w] = 1, text[w] = caller[w].chunk, Arrives(w)
  PROVE  /\ Got' = Got \o text[w] /\ All' \in Seq(Line) /\ Len(All) <= Len(All') /\ c \in 0 .. Len(All')
         /\ Len(All') \in Nat
         /\ \A p \in Places : \A m : Content(m, ids[p], All') = Content(m, ids[p], All)
         /\ Process(1, text[w]).rest = Behind(Got', Len(All'))
         /\ Process(1, text[w]).out = Texts!FlattenSeq(Content(1, Fresh(c, Len(All')), All'))
         /\ \A rest \in AfterFailure(1, text[w]) : \E d \in c .. Len(All') : rest = Behind(Got', d)
<1>1. Got \in Text /\ All \in Seq(Line) /\ Len(All) \in Nat /\ text[w] \in Text
  BY AllFacts DEF StreamsType
<1>2. Got' = Got \o text[w] /\ pend[1] = Behind(Got, c) /\ c \in 0 .. Len(All)
  BY <1>1, GotFacts, Zenon DEF StreamsType, Arrives, WriteState
<1>3. All' = WholeLines(Got \o text[w])
  BY <1>2 DEF All
<1>4. /\ Got \o text[w] \in Text /\ WholeLines(Got \o text[w]) \in Seq(Line)
      /\ c \in 0 .. Len(WholeLines(Got \o text[w]))
      /\ Len(All) <= Len(WholeLines(Got \o text[w]))
      /\ \A j \in 1 .. c : WholeLines(Got \o text[w])[j] = All[j]
      /\ Process(1, text[w]).rest = Behind(Got \o text[w], Len(WholeLines(Got \o text[w])))
      /\ Process(1, text[w]).out =
           Texts!FlattenSeq(Content(1, Fresh(c, Len(WholeLines(Got \o text[w]))), WholeLines(Got \o text[w])))
      /\ \A rest \in AfterFailure(1, text[w]) :
           \E d \in c .. Len(WholeLines(Got \o text[w])) : rest = Behind(Got \o text[w], d)
  BY <1>1, <1>2, ProcessFirst DEF All
<1>5. \A p \in Places : \A m : Content(m, ids[p], All') = Content(m, ids[p], All)
  <2> TAKE p \in Places
  <2> TAKE m
  <2>1. c \in Nat /\ ids[p] \in Seq(1 .. c) /\ \A j \in 1 .. c : All'[j] = All[j]
    BY <1>3, <1>4, StateFacts
  <2>2. \A k \in DOMAIN ids[p] : All'[ids[p][k]] = All[ids[p][k]]
    BY <2>1
  <2> QED
    BY <2>2, Zenon DEF Content
<1>6. Len(All') \in Nat
  BY <1>3, <1>4
<1> QED
  BY <1>2, <1>3, <1>4, <1>5, <1>6

\* Nothing else than what is said happens to the places: the parts of the
\* invariant about other writers and processers.
LEMMA OthersCarry ==
  ASSUME NEW ids, NEW new, NEW w \in Writers,
         \A p \in Places : \A m : Content(m, ids[p], All') = Content(m, ids[p], All),
         \A v \in Writers : v # w => stage'[v] = stage[v] /\ text'[v] = text[v] /\ new[By(v)] = ids[By(v)],
         \A v \in Writers : Carries(v, ids)
  PROVE  \A v \in Writers : v # w => Carries(v, new)'
<1> SUFFICES ASSUME NEW v \in Writers, v # w
             PROVE  Carries(v, new)'
  OBVIOUS
<1>1. Carries(v, ids) /\ By(v) \in Places /\ stage'[v] = stage[v] /\ text'[v] = text[v] /\ new[By(v)] = ids[By(v)]
  BY PlaceFacts
<1>2. Content(stage[v] - 1, ids[By(v)], All') = Content(stage[v] - 1, ids[By(v)], All)
  BY <1>1
<1> QED
  BY <1>1, <1>2 DEF Carries

LEMMA OthersKeep ==
  ASSUME NEW ids, NEW new, NEW K \in SUBSET Behinds,
         \A p \in Places : \A m : Content(m, ids[p], All') = Content(m, ids[p], All),
         \A i \in K : pend'[i] = pend[i] /\ new[In(i)] = ids[In(i)],
         \A i \in Behinds : Keeps(i, ids)
  PROVE  \A i \in K : Keeps(i, new)'
<1> SUFFICES ASSUME NEW i \in K
             PROVE  Keeps(i, new)'
  OBVIOUS
<1>1. Keeps(i, ids) /\ In(i) \in Places /\ pend'[i] = pend[i] /\ new[In(i)] = ids[In(i)]
  BY PlaceFacts
<1>2. Content(i - 1, ids[In(i)], All') = Content(i - 1, ids[In(i)], All)
  BY <1>1
<1> QED
  BY <1>1, <1>2 DEF Keeps

\* If no callback failed, what is not with a writer has been written, in turn.
LEMMA AllOut ==
  ASSUME StreamsType, NEW c, NEW ids, WriteState(c, ids), failures = 0,
         \A w \in Writers : ids[By(w)] = <<>>
  PROVE  /\ Len(ids[Out]) = c
         /\ ~overlapped => \A k \in 1 .. c : ids[Out][k] = k
<1> DEFINE s == ids[Out]
           n == Len(s)
<1>1. s \in Seq(1 .. c) /\ c \in Nat /\ n \in Nat /\ DOMAIN ids = Places
  BY StateFacts, PlaceFacts
<1>2. \A j \in 1 .. c : \E k \in 1 .. n : s[k] = j
  <2> TAKE j \in 1 .. c
  <2>1. Complete(ids, c) /\ \A i \in Behinds : ids[In(i)] = <<>>
    BY DEF WriteState
  <2>2. PICK p \in Places : \E k \in 1 .. Len(ids[p]) : ids[p][k] = j
    BY <1>1, <2>1, Zenon DEF Complete
  <2>3. p = Out
    <3>1. ids[p] # <<>>
      BY <2>2
    <3> QED
      BY <2>1, <3>1, PlaceFacts
  <2> QED
    BY <2>2, <2>3
<1>3. \A k, m \in 1 .. n : s[k] = s[m] => k = m
  <2>1. Out \in DOMAIN ids /\ Distinct(ids)
    BY <1>1, PlaceFacts DEF WriteState
  <2> QED
    BY <2>1, Zenon DEF Distinct
<1>4. n = c
  <2>1. s \in [1 .. n -> 1 .. c]
    BY <1>1
  <2> HIDE DEF s, n
  <2>2. s \in Bijection(1 .. n, 1 .. c)
    BY <1>2, <1>3, <2>1 DEF Bijection, Injection, Surjection, IsInjective
  <2>3. /\ IsFiniteSet(1 .. n) /\ IsFiniteSet(1 .. c)
        /\ Cardinality(1 .. n) = n /\ Cardinality(1 .. c) = c
    <3>1. \A a \in Nat : IsFiniteSet(1 .. a) /\ Cardinality(1 .. a) = a
      <4> TAKE a \in Nat
      <4>1. IsFiniteSet(1 .. a) /\ Cardinality(1 .. a) = IF 1 > a THEN 0 ELSE a - 1 + 1
        BY FS_Interval
      <4> QED
        BY <4>1
    <3> QED
      BY <1>1, <3>1
  <2> QED
    BY <2>2, <2>3, FS_Bijection, Zenon DEF ExistsBijection
<1>5. ~overlapped => \A k \in 1 .. c : s[k] = k
  BY <1>4 DEF WriteState, InTurn
<1> QED
  BY <1>4, <1>5

LEMMA WriteFirst ==
  ASSUME StreamsType, NEW c, NEW ids, WriteState(c, ids), NEW w \in Writers, WriteProcess(w), stage[w] = 1,
         text[w] = caller[w].chunk
  PROVE  \E d, new : WriteState(d, new)'
<1> DEFINE r == Process(1, text[w])
<1>1. /\ All' \in Seq(Line) /\ Len(All) <= Len(All') /\ c \in 0 .. Len(All') /\ Len(All') \in Nat
      /\ \A p \in Places : \A m : Content(m, ids[p], All') = Content(m, ids[p], All)
      /\ r.rest = Behind(Got', Len(All'))
      /\ r.out = Texts!FlattenSeq(Content(1, Fresh(c, Len(All')), All'))
  BY FirstArrives, Zenon DEF WriteProcess, AtProcesser
<1>2. /\ inner' = inner /\ lines' = lines /\ failures' = failures /\ overlapped' = overlapped
      /\ mode = "write" /\ ~panicked
  BY DEF WriteProcess, AtProcesser
<1>3. \/ /\ pend' = [pend EXCEPT ![1] = r.rest] /\ text' = [text EXCEPT ![w] = r.out]
         /\ stage' = [stage EXCEPT ![w] = 2] /\ panicked' = panicked
      \/ panicked' = TRUE /\ UNCHANGED <<pend, text, stage>>
  <2>1. \/ /\ pend' = [pend EXCEPT ![stage[w]] = Process(stage[w], text[w]).rest]
           /\ text' = [text EXCEPT ![w] = Process(stage[w], text[w]).out]
           /\ stage' = [stage EXCEPT ![w] = stage[w] + 1] /\ UNCHANGED panicked
        \/ panicked' = TRUE /\ UNCHANGED <<pend, text, stage>>
    BY Zenon DEF WriteProcess
  <2> HIDE DEF r
  <2> QED
    BY <2>1 DEF r
<1> HIDE DEF r
<1>4. /\ c \in Nat /\ DOMAIN ids = Places /\ ids \in [Places -> Seq(1 .. c)] /\ Distinct(ids)
      /\ \A p \in Places : ids[p] \in Seq(1 .. c)
      /\ ids[By(w)] = <<>>
  BY StateFacts DEF WriteState, Carries
<1>5. inner' = <<>> /\ lines' = Content(Len(Mark), ids[Out], All')
  BY <1>1, <1>2, PlaceFacts DEF WriteState
<1>6. CASE /\ pend' = [pend EXCEPT ![1] = r.rest] /\ text' = [text EXCEPT ![w] = r.out]
           /\ stage' = [stage EXCEPT ![w] = 2] /\ panicked' = panicked
  <2>1. PICK d : d = Len(All')
    BY Zenon
  <2>2. PICK new : new = Added(ids, By(w), c, d)
    OBVIOUS
  <2>3. d \in Nat /\ c <= d /\ By(w) \in Places
    BY <1>1, <1>4, <2>1, PlaceFacts
  <2>4. /\ new \in [Places -> Seq(1 .. d)] /\ Distinct(new)
        /\ Complete(ids, c) => Complete(new, d)
    <3>1. ASSUME NEW p, p = By(w)
          PROVE  /\ Added(ids, p, c, d) \in [Places -> Seq(1 .. d)] /\ Distinct(Added(ids, p, c, d))
                 /\ Complete(ids, c) => Complete(Added(ids, p, c, d), d)
      <4>1. p \in Places /\ ids[p] = <<>>
        BY <1>4, <2>3, <3>1
      <4> QED
        BY <1>4, <2>3, <4>1, AddedFacts, Zenon
    <3> QED
      BY <2>2, <3>1
  <2>5. new[By(w)] = Fresh(c, d) /\ \A p \in Places : p # By(w) => new[p] = ids[p]
    BY <1>4, <2>2, <2>3 DEF Added
  <2>6. /\ stage'[w] = 2 /\ text'[w] = r.out /\ pend'[1] = r.rest
        /\ \A v \in Writers : v # w => stage'[v] = stage[v] /\ text'[v] = text[v]
        /\ \A i \in Behinds : pend'[i] = pend[i]
    BY <1>6, MarkFacts DEF StreamsType, Behinds
  <2>7. Carries(w, new)'
    BY <1>1, <2>1, <2>5, <2>6 DEF Carries
  <2>8. \A v \in Writers : v # w => Carries(v, new)'
    <3>1. \A v \in Writers : v # w => new[By(v)] = ids[By(v)]
      BY <2>5, PlaceFacts
    <3>2. \A v \in Writers : Carries(v, ids)
      BY DEF WriteState
    <3> QED
      BY <1>1, <2>6, <3>1, <3>2, OthersCarry, Zenon
  <2>9. new[Out] = ids[Out] /\ \A i \in Behinds : new[In(i)] = ids[In(i)]
    BY <2>5, PlaceFacts
  <2>10. \A i \in Behinds : Keeps(i, new)'
    <3>1. \A i \in Behinds : Keeps(i, ids)
      BY DEF WriteState
    <3> QED
      BY <1>1, <2>6, <2>9, <3>1, OthersKeep, Zenon
  <2>11. ASSUME failures' = 0, ~overlapped'
         PROVE  InTurn(new)'
    <3>1. failures = 0 /\ ~overlapped /\ InTurn(ids)
      BY <1>2, <2>11 DEF WriteState
    <3>2. \A v \in Writers : v # w => stage[v] = Idle
      BY <3>1 DEF InTurn, Idle
    <3>3. \A v \in Writers : v # w => ids[By(v)] = <<>>
      BY <3>2 DEF WriteState, Carries, Idle
    <3>4. Len(ids[Out]) = c
      BY <1>4, <3>1, <3>3, AllOut
    <3>5. \A v \in Writers : v # w => stage'[v] = Idle /\ new[By(v)] = <<>>
      BY <2>5, <2>6, <3>2, <3>3, PlaceFacts
    <3>6. \A k \in 1 .. Len(new[By(w)]) : new[By(w)][k] = Len(new[Out]) + k
      <4>1. Len(Fresh(c, d)) = d - c /\ \A k \in 1 .. d - c : Fresh(c, d)[k] = c + k
        BY <1>4, <2>3, FreshFacts, Zenon
      <4>2. new[By(w)] = Fresh(c, d) /\ Len(new[Out]) = c
        BY <2>5, <2>9, <3>4
      <4> QED
        BY <4>1, <4>2
    <3>7. \A k \in 1 .. Len(new[Out]) : new[Out][k] = k
      BY <2>9, <3>1 DEF InTurn
    <3>8. \A v \in Writers : \A k \in 1 .. Len(new[By(v)]) : new[By(v)][k] = Len(new[Out]) + k
      BY <3>5, <3>6
    <3> QED
      BY <3>5, <3>7, <3>8 DEF InTurn
  <2>12. ASSUME failures' = 0
         PROVE  Complete(new, d) /\ (\A i \in Behinds : new[In(i)] = <<>>) /\ d = Len(All')
    BY <1>2, <2>1, <2>4, <2>9, <2>12 DEF WriteState
  <2>13. ~panicked' => pend'[1] = Behind(Got', d)
    BY <1>1, <2>1, <2>6
  <2>14. d \in 0 .. Len(All') /\ lines' = Content(Len(Mark), new[Out], All')
    BY <1>1, <1>5, <2>1, <2>9
  <2>15. WriteState(d, new)'
    BY <1>5, <2>4, <2>7, <2>8, <2>10, <2>11, <2>12, <2>13, <2>14 DEF WriteState
  <2> QED
    BY <2>15
<1>7. CASE panicked' = TRUE /\ UNCHANGED <<pend, text, stage>>
  <2>1. \A v \in Writers : Carries(v, ids)'
    <3> TAKE v \in Writers
    <3>1. Carries(v, ids) /\ By(v) \in Places
      BY PlaceFacts DEF WriteState
    <3>2. Content(stage[v] - 1, ids[By(v)], All') = Content(stage[v] - 1, ids[By(v)], All)
      BY <1>1, <3>1
    <3> QED
      BY <1>7, <3>1, <3>2 DEF Carries
  <2>2. \A i \in Behinds : Keeps(i, ids)'
    <3> TAKE i \in Behinds
    <3>1. Keeps(i, ids) /\ In(i) \in Places
      BY PlaceFacts DEF WriteState
    <3>2. Content(i - 1, ids[In(i)], All') = Content(i - 1, ids[In(i)], All)
      BY <1>1, <3>1
    <3> QED
      BY <1>7, <3>1, <3>2 DEF Keeps
  <2>3. failures' = 0 => Complete(ids, c) /\ (\A i \in Behinds : ids[In(i)] = <<>>)
    BY <1>2 DEF WriteState
  <2>4. failures' = 0 /\ ~overlapped' => InTurn(ids)'
    BY <1>2, <1>7 DEF WriteState, InTurn
  <2>5. WriteState(c, ids)'
    BY <1>1, <1>4, <1>5, <1>7, <2>1, <2>2, <2>3, <2>4 DEF WriteState
  <2> QED
    BY <2>5
<1> QED
  BY <1>3, <1>6, <1>7, Zenon

LEMMA WriteLater ==
  ASSUME StreamsType, NEW c, NEW ids, WriteState(c, ids), NEW w \in Writers, WriteProcess(w), stage[w] # 1
  PROVE  \E d, new : WriteState(d, new)'
<1>0. PICK i : i = stage[w]
  OBVIOUS
<1> DEFINE r == Process(i, text[w])
           x == ids[In(i)]
           y == ids[By(w)]
<1>1. /\ i \in Behinds /\ ~(i <= 1) /\ i + 1 - 1 = i /\ ~(i + 1 <= 1) /\ i # Idle /\ i \in 0 .. Len(Mark)
      /\ text[w] \in Text
  <2>1. i \in 1 .. Len(Mark) /\ i # 1 /\ Len(Mark) \in Nat /\ text[w] \in Text
    BY <1>0, MarkFacts DEF WriteProcess, AtProcesser, StreamsType
  <2> QED
    BY <2>1 DEF Behinds, Idle
<1>2. /\ inner' = inner /\ lines' = lines /\ failures' = failures /\ overlapped' = overlapped
      /\ mode = "write" /\ ~panicked /\ input' = input
  BY <1>0 DEF WriteProcess, AtProcesser, Arrives
<1>3. \/ /\ pend' = [pend EXCEPT ![i] = r.rest] /\ text' = [text EXCEPT ![w] = r.out]
         /\ stage' = [stage EXCEPT ![w] = i + 1] /\ panicked' = panicked
      \/ panicked' = TRUE /\ UNCHANGED <<pend, text, stage>>
  BY <1>0, Zenon DEF WriteProcess
<1>4. Got' = Got /\ All' = All
  BY <1>2 DEF Got, All
<1>5. /\ All \in Seq(Line) /\ c \in Nat /\ c \in 0 .. Len(All) /\ DOMAIN ids = Places
      /\ ids \in [Places -> Seq(1 .. c)] /\ Distinct(ids)
      /\ \A p \in Places : ids[p] \in Seq(1 .. c) /\ ids[p] \in Seq(DOMAIN All)
  BY AllFacts, StateFacts DEF WriteState
<1>6. In(i) \in Places /\ By(w) \in Places /\ In(i) # By(w)
  BY <1>1, PlaceFacts
<1>7. pend[i] = Texts!FlattenSeq(Content(i - 1, x, All)) /\ text[w] = Texts!FlattenSeq(Content(i - 1, y, All))
  <2>1. Keeps(i, ids) /\ Carries(w, ids)
    BY <1>1 DEF WriteState
  <2> QED
    BY <1>0, <1>1, <2>1 DEF Keeps, Carries
<1>8. r.rest = <<>> /\ r.out = Texts!FlattenSeq(Content(i, x \o y, All))
  <2> DEFINE L == All
  <2>1. x \in Seq(DOMAIN L) /\ y \in Seq(DOMAIN L) /\ L \in Seq(Line)
    BY <1>5, <1>6
  <2>2. /\ pend[i] = Texts!FlattenSeq(Content(i - 1, x, L))
        /\ text[w] = Texts!FlattenSeq(Content(i - 1, y, L))
    BY <1>7
  <2>3. i \in 2 .. Len(Mark)
    BY <1>1 DEF Behinds
  <2> HIDE DEF L, x, y
  <2>4. r.rest = <<>> /\ r.out = Texts!FlattenSeq(Content(i, x \o y, L))
    <3> DEFINE chunk == text[w]
    <3>1. chunk = Texts!FlattenSeq(Content(i - 1, y, L))
      BY <2>2
    <3> HIDE DEF chunk
    <3>2. Process(i, chunk).rest = <<>> /\ Process(i, chunk).out = Texts!FlattenSeq(Content(i, x \o y, L))
      BY <2>1, <2>2, <2>3, <3>1, ProcessLater
    <3> QED
      BY <3>2 DEF chunk
  <2> QED
    BY <2>4 DEF L
<1> HIDE DEF r
<1>9. CASE /\ pend' = [pend EXCEPT ![i] = r.rest] /\ text' = [text EXCEPT ![w] = r.out]
           /\ stage' = [stage EXCEPT ![w] = i + 1] /\ panicked' = panicked
  <2>1. PICK new : new = Moved(ids, In(i), By(w), By(w), 0)
    OBVIOUS
  <2>2. /\ new \in [Places -> Seq(1 .. c)] /\ Distinct(new)
        /\ Complete(ids, c) => Complete(new, c)
    <3>1. ASSUME NEW p, NEW o, p = In(i), o = By(w)
          PROVE  /\ Moved(ids, p, o, o, 0) \in [Places -> Seq(1 .. c)] /\ Distinct(Moved(ids, p, o, o, 0))
                 /\ Complete(ids, c) => Complete(Moved(ids, p, o, o, 0), c)
      <4>1. p \in Places /\ o \in Places /\ p # o /\ o \in {p, o} /\ ids[p] \in Seq(1 .. c) /\ ids[o] \in Seq(1 .. c)
        BY <1>5, <1>6, <3>1
      <4>2. 0 \in 0 .. Len(ids[p] \o ids[o])
        <5>1. ids[p] \o ids[o] \in Seq(1 .. c)
          BY <4>1, ConcatProperties
        <5>2. Len(ids[p] \o ids[o]) \in Nat
          BY <5>1, LenProperties, Zenon
        <5>3. \A n \in Nat : 0 \in 0 .. n
          OBVIOUS
        <5> QED
          BY <5>2, <5>3, Zenon
      <4> QED
        BY <1>5, <4>1, <4>2, MovedFacts, Zenon
    <3> QED
      BY <2>1, <3>1
  <2>3. /\ new[By(w)] = x \o y /\ new[In(i)] = <<>>
        /\ \A p \in Places : p # By(w) /\ p # In(i) => new[p] = ids[p]
    <3>1. x \in Seq(1 .. c) /\ y \in Seq(1 .. c)
      BY <1>5, <1>6
    <3>2. SubSeq(x \o y, 0 + 1, Len(x \o y)) = x \o y
      <4> HIDE DEF x, y
      <4>1. x \o y \in Seq(1 .. c)
        BY <3>1
      <4> QED
        BY <4>1, SubSeqFull
    <3>3. new[By(w)] = SubSeq(x \o y, 0 + 1, Len(x \o y))
      BY <1>5, <1>6, <2>1 DEF Moved
    <3>4. new[In(i)] = <<>> /\ \A p \in Places : p # By(w) /\ p # In(i) => new[p] = ids[p]
      BY <1>5, <1>6, <2>1 DEF Moved
    <3> QED
      BY <3>2, <3>3, <3>4, Zenon
  <2>4. /\ stage'[w] = i + 1 /\ text'[w] = r.out /\ pend'[i] = <<>>
        /\ \A v \in Writers : v # w => stage'[v] = stage[v] /\ text'[v] = text[v]
        /\ \A j \in Processers : j # i => pend'[j] = pend[j]
    <3>1. i \in Processers
      BY <1>1, MarkFacts DEF Behinds
    <3> QED
      BY <1>8, <1>9, <3>1 DEF StreamsType
  <2>5. Carries(w, new)'
    <3> DEFINE z == x \o y
    <3>1. text'[w] = Texts!FlattenSeq(Content(i, z, All)) /\ new[By(w)] = z
      BY <1>8, <2>3, <2>4
    <3> HIDE DEF z
    <3> QED
      BY <1>1, <1>4, <2>4, <3>1 DEF Carries
  <2>6. \A v \in Writers : v # w => Carries(v, new)'
    <3>1. \A v \in Writers : v # w => new[By(v)] = ids[By(v)]
      BY <1>1, <2>3, PlaceFacts
    <3>2. \A v \in Writers : Carries(v, ids)
      BY DEF WriteState
    <3> QED
      BY <1>4, <2>4, <3>1, <3>2, OthersCarry
  <2>7. new[Out] = ids[Out]
    BY <2>3, PlaceFacts
  <2>8. \A j \in Behinds : Keeps(j, new)'
    <3>1. \A j \in Behinds \ {i} : pend'[j] = pend[j] /\ new[In(j)] = ids[In(j)]
      BY <2>3, <2>4, MarkFacts, PlaceFacts DEF Behinds
    <3>2. \A j \in Behinds : Keeps(j, ids)
      BY DEF WriteState
    <3>3. \A j \in Behinds \ {i} : Keeps(j, new)'
      BY <1>4, <3>1, <3>2, OthersKeep, Zenon
    <3>4. Keeps(i, new)'
      <4>1. Texts!FlattenSeq(Content(i - 1, <<>>, All)) = <<>>
        BY FlattenTexts DEF Content
      <4> QED
        BY <1>4, <2>3, <2>4, <4>1 DEF Keeps
    <3> QED
      BY <3>3, <3>4
  <2>9. ASSUME failures' = 0
        PROVE  /\ Complete(new, c) /\ (\A j \in Behinds : new[In(j)] = <<>>) /\ c = Len(All') /\ x = <<>>
    <3>1. Complete(ids, c) /\ (\A j \in Behinds : ids[In(j)] = <<>>) /\ c = Len(All)
      BY <1>2, <2>9 DEF WriteState
    <3>2. \A j \in Behinds : j # i => new[In(j)] = ids[In(j)]
      BY <2>3, PlaceFacts
    <3> QED
      BY <1>1, <1>4, <2>2, <2>3, <3>1, <3>2, Zenon
  <2>10. ASSUME failures' = 0, ~overlapped'
         PROVE  InTurn(new)'
    <3>1. InTurn(ids)
      BY <1>2, <2>10 DEF WriteState
    <3>2. new[By(w)] = ids[By(w)]
      <4>1. y \in Seq(1 .. c)
        BY <1>5, <1>6
      <4>2. <<>> \o y = y
        <5> HIDE DEF y
        <5> QED
          BY <4>1, ConcatEmptySeq
      <4> QED
        BY <2>3, <2>9, <2>10, <4>2, Zenon
    <3>3. \A v \in Writers : new[By(v)] = ids[By(v)] /\ (stage'[v] # Idle => stage[v] # Idle)
      <4> TAKE v \in Writers
      <4>1. CASE v = w
        BY <1>0, <1>1, <3>2, <4>1
      <4>2. CASE v # w
        BY <2>3, <2>4, <4>2, PlaceFacts
      <4> QED
        BY <4>1, <4>2
    <3> QED
      BY <2>7, <3>1, <3>3 DEF InTurn
  <2>11. ~panicked' => pend'[1] = Behind(Got', c)
    <3>1. 1 \in Processers /\ i # 1 /\ pend[1] = Behind(Got, c)
      BY <1>1, <1>2, MarkFacts DEF WriteState
    <3> QED
      BY <1>4, <2>4, <3>1, SMTT(30)
  <2>12. inner' = <<>> /\ lines' = Content(Len(Mark), new[Out], All') /\ c \in 0 .. Len(All')
    BY <1>2, <1>4, <1>5, <2>7 DEF WriteState
  <2>13. WriteState(c, new)'
    BY <2>2, <2>5, <2>6, <2>8, <2>9, <2>10, <2>11, <2>12 DEF WriteState
  <2> QED
    BY <2>13
<1>10. CASE panicked' = TRUE /\ UNCHANGED <<pend, text, stage>>
  <2>1. WriteState(c, ids)'
    BY <1>2, <1>4, <1>10 DEF WriteState, Carries, Keeps, InTurn
  <2> QED
    BY <2>1
<1> QED
  BY <1>3, <1>9, <1>10, Zenon

LEMMA SeqGrows ==
  ASSUME NEW S, NEW T, \A x \in S : x \in T, NEW s \in Seq(S)
  PROVE  s \in Seq(T)
OBVIOUS

LEMMA FailsFirst ==
  ASSUME StreamsType, NEW c, NEW ids, WriteState(c, ids), NEW w \in Writers, WriteFails(w), stage[w] = 1,
         text[w] = caller[w].chunk
  PROVE  \E d, new : WriteState(d, new)'
<1>1. /\ inner' = inner /\ lines' = lines /\ failures' = failures + 1 /\ panicked' = panicked
      /\ stage' = [stage EXCEPT ![w] = Idle] /\ text' = [text EXCEPT ![w] = <<>>]
      /\ \E rest \in AfterFailure(1, text[w]) : pend' = [pend EXCEPT ![1] = rest]
  BY Zenon DEF WriteFails
<1>2. PICK rest \in AfterFailure(1, text[w]) : pend' = [pend EXCEPT ![1] = rest]
  BY <1>1, Zenon
<1>3. /\ c \in 0 .. Len(All') /\ Len(All') \in Nat
      /\ \A p \in Places : \A m : Content(m, ids[p], All') = Content(m, ids[p], All)
      /\ \E d \in c .. Len(All') : rest = Behind(Got', d)
  <2>1. /\ c \in 0 .. Len(All') /\ Len(All') \in Nat
        /\ \A p \in Places : \A m : Content(m, ids[p], All') = Content(m, ids[p], All)
        /\ \A r \in AfterFailure(1, text[w]) : \E d \in c .. Len(All') : r = Behind(Got', d)
    BY FirstArrives, Zenon DEF WriteFails, AtProcesser
  <2> QED
    BY <2>1, Zenon
<1>4. PICK d \in c .. Len(All') : rest = Behind(Got', d)
  BY <1>3
<1>5. d \in 0 .. Len(All') /\ \A j \in 1 .. c : j \in 1 .. d
  BY <1>3
<1>6. ids \in [Places -> Seq(1 .. d)] /\ Distinct(ids) /\ ids[By(w)] = <<>>
  <2>1. /\ ids \in [Places -> Seq(1 .. c)] /\ Distinct(ids) /\ ids[By(w)] = <<>>
        /\ \A p \in Places : ids[p] \in Seq(1 .. c)
    BY StateFacts DEF WriteState, Carries
  <2>2. \A p \in Places : ids[p] \in Seq(1 .. d)
    <3> TAKE p \in Places
    <3>1. ids[p] \in Seq(1 .. c)
      BY <2>1
    <3>2. \A j \in 1 .. c : j \in 1 .. d
      BY <1>5
    <3> QED
      BY <3>1, <3>2, SeqGrows, Zenon
  <2> QED
    BY <2>1, <2>2
<1>7. inner' = <<>> /\ lines' = Content(Len(Mark), ids[Out], All')
  BY <1>1, <1>3, PlaceFacts DEF WriteState
<1>8. \A v \in Writers : Carries(v, ids)'
  <2>1. stage'[w] = Idle
    BY <1>1 DEF StreamsType
  <2>2. Carries(w, ids)'
    BY <1>6, <2>1 DEF Carries, Idle
  <2>3. \A v \in Writers : v # w => stage'[v] = stage[v] /\ text'[v] = text[v]
    BY <1>1 DEF StreamsType
  <2>4. \A v \in Writers : Carries(v, ids)
    BY DEF WriteState
  <2>5. \A v \in Writers : v # w => Carries(v, ids)'
    BY <1>3, <2>3, <2>4, OthersCarry, Zenon
  <2> QED
    BY <2>2, <2>5
<1>9. \A i \in Behinds : Keeps(i, ids)'
  <2>1. \A i \in Behinds : pend'[i] = pend[i]
    BY <1>2, MarkFacts DEF StreamsType, Behinds
  <2>2. \A i \in Behinds : Keeps(i, ids)
    BY DEF WriteState
  <2> QED
    BY <1>3, <2>1, <2>2, OthersKeep, Zenon
<1>10. pend'[1] = Behind(Got', d)
  BY <1>2, <1>4, MarkFacts DEF StreamsType
<1>11. failures' # 0
  BY <1>1 DEF StreamsType
<1>12. WriteState(d, ids)'
  BY <1>5, <1>6, <1>7, <1>8, <1>9, <1>10, <1>11 DEF WriteState
<1> QED
  BY <1>12

LEMMA FailsLater ==
  ASSUME StreamsType, NEW c, NEW ids, WriteState(c, ids), NEW w \in Writers, WriteFails(w), stage[w] # 1
  PROVE  \E d, new : WriteState(d, new)'
<1>0. PICK i : i = stage[w]
  OBVIOUS
<1> DEFINE x == ids[In(i)]
           y == ids[By(w)]
           J == x \o y
<1>1. i \in Behinds /\ ~(i <= 1) /\ i # 1 /\ i \in Processers /\ i \in 2 .. Len(Mark)
  <2>1. i \in 1 .. Len(Mark) /\ i # 1 /\ Len(Mark) \in Nat
    BY <1>0, MarkFacts DEF WriteFails, AtProcesser, StreamsType
  <2> QED
    BY <2>1, MarkFacts DEF Behinds
<1>2. /\ inner' = inner /\ lines' = lines /\ failures' = failures + 1 /\ panicked' = panicked
      /\ stage' = [stage EXCEPT ![w] = Idle] /\ text' = [text EXCEPT ![w] = <<>>]
      /\ \E rest \in AfterFailure(i, text[w]) : pend' = [pend EXCEPT ![i] = rest]
      /\ input' = input /\ ~panicked
  BY <1>0, <1>1, Zenon DEF WriteFails, Arrives, AtProcesser
<1>3. PICK rest \in AfterFailure(i, text[w]) : pend' = [pend EXCEPT ![i] = rest]
  BY <1>2, Zenon
<1>4. Got' = Got /\ All' = All
  BY <1>2 DEF Got, All
<1>5. /\ All \in Seq(Line) /\ c \in Nat /\ c \in 0 .. Len(All) /\ DOMAIN ids = Places
      /\ ids \in [Places -> Seq(1 .. c)] /\ Distinct(ids)
      /\ \A p \in Places : ids[p] \in Seq(1 .. c) /\ ids[p] \in Seq(DOMAIN All)
  BY AllFacts, StateFacts DEF WriteState
<1>6. In(i) \in Places /\ By(w) \in Places /\ In(i) # By(w)
  BY <1>1, PlaceFacts
<1>7. pend[i] = Texts!FlattenSeq(Content(i - 1, x, All)) /\ text[w] = Texts!FlattenSeq(Content(i - 1, y, All))
  <2>1. Keeps(i, ids) /\ Carries(w, ids)
    BY <1>1 DEF WriteState
  <2> QED
    BY <1>0, <1>1, <2>1 DEF Keeps, Carries
<1>8. PICK k \in 0 .. Len(J) : rest = Texts!FlattenSeq(Content(i - 1, SubSeq(J, k + 1, Len(J)), All))
  <2> DEFINE L     == All
             chunk == text[w]
  <2>1. x \in Seq(DOMAIN L) /\ y \in Seq(DOMAIN L) /\ L \in Seq(Line)
    BY <1>5, <1>6
  <2>2. /\ pend[i] = Texts!FlattenSeq(Content(i - 1, x, L))
        /\ chunk = Texts!FlattenSeq(Content(i - 1, y, L))
        /\ rest \in AfterFailure(i, chunk)
    BY <1>3, <1>7
  <2> HIDE DEF L, x, y, chunk
  <2>3. \E k \in 0 .. Len(x \o y) :
          rest = Texts!FlattenSeq(Content(i - 1, SubSeq(x \o y, k + 1, Len(x \o y)), L))
    BY <1>1, <2>1, <2>2, ProcessLater
  <2> QED
    BY <2>3 DEF L
<1>9. PICK new : new = Moved(ids, In(i), By(w), In(i), k)
  OBVIOUS
<1>10. new \in [Places -> Seq(1 .. c)] /\ Distinct(new)
  <2>1. ASSUME NEW p, NEW o, p = In(i), o = By(w)
        PROVE  Moved(ids, p, o, p, k) \in [Places -> Seq(1 .. c)] /\ Distinct(Moved(ids, p, o, p, k))
    <3>1. p \in Places /\ o \in Places /\ p # o /\ p \in {p, o} /\ k \in 0 .. Len(ids[p] \o ids[o])
      BY <1>5, <1>6, <1>8, <2>1
    <3> QED
      BY <1>5, <3>1, MovedFacts, Zenon
  <2> QED
    BY <1>9, <2>1
<1>11. /\ new[In(i)] = SubSeq(J, k + 1, Len(J)) /\ new[By(w)] = <<>>
       /\ \A p \in Places : p # By(w) /\ p # In(i) => new[p] = ids[p]
  BY <1>5, <1>6, <1>9, Zenon DEF Moved
<1>12. /\ stage'[w] = Idle /\ pend'[i] = rest
       /\ \A v \in Writers : v # w => stage'[v] = stage[v] /\ text'[v] = text[v]
       /\ \A j \in Processers : j # i => pend'[j] = pend[j]
  BY <1>1, <1>2, <1>3 DEF StreamsType
<1>13. Carries(w, new)'
  BY <1>11, <1>12 DEF Carries, Idle
<1>14. \A v \in Writers : v # w => Carries(v, new)'
  <2>1. \A v \in Writers : v # w => new[By(v)] = ids[By(v)]
    BY <1>11, PlaceFacts
  <2>2. \A v \in Writers : Carries(v, ids)
    BY DEF WriteState
  <2> QED
    BY <1>4, <1>12, <2>1, <2>2, OthersCarry
<1>15. \A j \in Behinds : Keeps(j, new)'
  <2>1. \A j \in Behinds \ {i} : pend'[j] = pend[j] /\ new[In(j)] = ids[In(j)]
    BY <1>11, <1>12, MarkFacts, PlaceFacts DEF Behinds
  <2>2. \A j \in Behinds : Keeps(j, ids)
    BY DEF WriteState
  <2>3. \A j \in Behinds \ {i} : Keeps(j, new)'
    BY <1>4, <2>1, <2>2, OthersKeep, Zenon
  <2>4. Keeps(i, new)'
    BY <1>4, <1>8, <1>11, <1>12 DEF Keeps
  <2> QED
    BY <2>3, <2>4
<1>16. pend'[1] = Behind(Got', c)
  <2>1. 1 \in Processers /\ pend[1] = Behind(Got, c)
    BY <1>2, MarkFacts DEF WriteState
  <2> QED
    BY <1>1, <1>4, <1>12, <2>1
<1>17. inner' = <<>> /\ lines' = Content(Len(Mark), new[Out], All') /\ c \in 0 .. Len(All')
  <2>1. new[Out] = ids[Out]
    BY <1>11, PlaceFacts
  <2> QED
    BY <1>2, <1>4, <1>5, <2>1 DEF WriteState
<1>18. failures' # 0
  BY <1>2 DEF StreamsType
<1>19. WriteState(c, new)'
  BY <1>10, <1>13, <1>14, <1>15, <1>16, <1>17, <1>18 DEF WriteState
<1> QED
  BY <1>19

LEMMA NestedStep ==
  ASSUME StreamsType, NEW c, NEW ids, WriteState(c, ids), NEW w \in Writers, WriteNested(w)
  PROVE  \E d, new : WriteState(d, new)'
<1> DEFINE m == Len(Mark)
           x == ids[Out]
           y == ids[By(w)]
           J == x \o y
<1>1. /\ stage[w] = m + 1 /\ ~(m + 1 <= 1) /\ m + 1 - 1 = m /\ m \in 0 .. Len(Mark) /\ stage[w] # Idle
      /\ text[w] \in Text
  BY MarkFacts DEF WriteNested, StreamsType, Idle
<1>2. /\ failures' = failures /\ panicked' = panicked /\ overlapped' = overlapped /\ pend' = pend
      /\ stage' = [stage EXCEPT ![w] = Idle] /\ text' = [text EXCEPT ![w] = <<>>]
      /\ input' = input /\ ~panicked
      /\ lines' = lines \o WholeLines(inner \o text[w]) /\ inner' = Rest(inner \o text[w])
  BY DEF WriteNested
<1>3. Got' = Got /\ All' = All
  BY <1>2 DEF Got, All
<1>4. /\ All \in Seq(Line) /\ c \in Nat /\ c \in 0 .. Len(All) /\ DOMAIN ids = Places
      /\ ids \in [Places -> Seq(1 .. c)] /\ Distinct(ids)
      /\ \A p \in Places : ids[p] \in Seq(1 .. c) /\ ids[p] \in Seq(DOMAIN All)
  BY AllFacts, StateFacts DEF WriteState
<1>5. Out \in Places /\ By(w) \in Places /\ Out # By(w)
  BY PlaceFacts
<1>6. x \in Seq(DOMAIN All) /\ y \in Seq(DOMAIN All) /\ x \in Seq(1 .. c) /\ y \in Seq(1 .. c)
  BY <1>4, <1>5
<1>7. lines' = Content(m, J, All) /\ inner' = <<>>
  <2>1. text[w] = Texts!FlattenSeq(Content(m, y, All))
    <3>1. Carries(w, ids) /\ ~(stage[w] <= 1) /\ stage[w] - 1 = m
      BY <1>1 DEF WriteState
    <3> HIDE DEF m
    <3> QED
      BY <3>1, Zenon DEF Carries
  <2>2. inner \o text[w] = text[w]
    BY <1>1, TextFacts DEF WriteState
  <2>3. WholeLines(text[w]) = Content(m, y, All) /\ Rest(text[w]) = <<>>
    <3> HIDE DEF m, y
    <3> QED
      BY <1>1, <1>4, <1>6, <2>1, FlattenContent
  <2>4. Content(m, J, All) = Content(m, x, All) \o Content(m, y, All)
    <3> DEFINE L == All
    <3>1. x \in Seq(DOMAIN L) /\ y \in Seq(DOMAIN L) /\ L \in Seq(Line)
      BY <1>4, <1>6
    <3> HIDE DEF x, y, m, L
    <3>2. Content(m, J, L) = Content(m, x, L) \o Content(m, y, L)
      BY <1>1, <3>1, ContentJoins
    <3> QED
      BY <3>2 DEF L
  <2>5. lines = Content(m, x, All)
    BY DEF WriteState
  <2> QED
    BY <1>2, <2>2, <2>3, <2>4, <2>5
<1>8. PICK new : new = Moved(ids, Out, By(w), Out, 0)
  OBVIOUS
<1>9. /\ new \in [Places -> Seq(1 .. c)] /\ Distinct(new)
      /\ Complete(ids, c) => Complete(new, c)
  <2>1. ASSUME NEW p, NEW o, p = Out, o = By(w)
        PROVE  /\ Moved(ids, p, o, p, 0) \in [Places -> Seq(1 .. c)] /\ Distinct(Moved(ids, p, o, p, 0))
               /\ Complete(ids, c) => Complete(Moved(ids, p, o, p, 0), c)
    <3>1. p \in Places /\ o \in Places /\ p # o /\ p \in {p, o} /\ ids[p] \in Seq(1 .. c) /\ ids[o] \in Seq(1 .. c)
      BY <1>4, <1>5, <2>1
    <3>2. ids[p] \o ids[o] \in Seq(1 .. c)
      BY <3>1, ConcatProperties
    <3>3. Len(ids[p] \o ids[o]) \in Nat
      BY <3>2, LenProperties, Zenon
    <3>4. \A n \in Nat : 0 \in 0 .. n
      OBVIOUS
    <3>5. 0 \in 0 .. Len(ids[p] \o ids[o])
      BY <3>3, <3>4, Zenon
    <3> QED
      BY <1>4, <3>1, <3>5, MovedFacts, Zenon
  <2> QED
    BY <1>8, <2>1
<1>10. /\ new[Out] = J /\ new[By(w)] = <<>>
       /\ \A p \in Places : p # By(w) /\ p # Out => new[p] = ids[p]
  <2>1. SubSeq(J, 0 + 1, Len(J)) = J
    <3> HIDE DEF x, y
    <3>1. J \in Seq(1 .. c)
      BY <1>6
    <3> QED
      BY <3>1, SubSeqFull
  <2>2. new[Out] = SubSeq(J, 0 + 1, Len(J))
    BY <1>4, <1>5, <1>8 DEF Moved
  <2>3. new[By(w)] = <<>> /\ \A p \in Places : p # By(w) /\ p # Out => new[p] = ids[p]
    BY <1>4, <1>5, <1>8 DEF Moved
  <2> QED
    BY <2>1, <2>2, <2>3, Zenon
<1>11. /\ stage'[w] = Idle
       /\ \A v \in Writers : v # w => stage'[v] = stage[v] /\ text'[v] = text[v]
  BY <1>2 DEF StreamsType
<1>12. Carries(w, new)'
  BY <1>10, <1>11 DEF Carries, Idle
<1>13. \A v \in Writers : v # w => new[By(v)] = ids[By(v)]
  BY <1>10, PlaceFacts
<1>14. \A v \in Writers : v # w => Carries(v, new)'
  <2>1. \A v \in Writers : Carries(v, ids)
    BY DEF WriteState
  <2> QED
    BY <1>3, <1>11, <1>13, <2>1, OthersCarry
<1>15. \A j \in Behinds : new[In(j)] = ids[In(j)]
  BY <1>10, PlaceFacts
<1>16. \A j \in Behinds : Keeps(j, new)'
  <2>1. \A j \in Behinds : Keeps(j, ids)
    BY DEF WriteState
  <2> QED
    BY <1>2, <1>3, <1>15, <2>1 DEF Keeps
<1>17. ASSUME failures' = 0
       PROVE  /\ Complete(new, c) /\ (\A j \in Behinds : new[In(j)] = <<>>) /\ c = Len(All')
  BY <1>2, <1>3, <1>9, <1>15, <1>17 DEF WriteState
<1>18. ASSUME failures' = 0, ~overlapped'
       PROVE  InTurn(new)'
  <2>1. InTurn(ids) /\ failures = 0 /\ ~overlapped
    BY <1>2, <1>18 DEF WriteState
  <2>2. \A v \in Writers : v # w => stage[v] = Idle
    BY <1>1, <2>1 DEF InTurn
  <2>3. \A v \in Writers : v # w => ids[By(v)] = <<>>
    BY <2>2 DEF WriteState, Carries, Idle
  <2>4. \A v \in Writers : stage'[v] = Idle /\ new[By(v)] = <<>>
    BY <1>10, <1>11, <1>13, <2>2, <2>3
  <2>5. \A k \in 1 .. Len(J) : J[k] = k
    <3>1. /\ \A k \in 1 .. Len(x) : x[k] = k
          /\ \A k \in 1 .. Len(y) : y[k] = Len(x) + k
      BY <2>1 DEF InTurn
    <3> HIDE DEF x, y
    <3>2. /\ J \in Seq(1 .. c) /\ Len(J) = Len(x) + Len(y) /\ Len(x) \in Nat /\ Len(y) \in Nat
          /\ \A k \in 1 .. Len(x) + Len(y) : J[k] = IF k <= Len(x) THEN x[k] ELSE y[k - Len(x)]
      BY <1>6, ConcatProperties
    <3> HIDE DEF J
    <3> SUFFICES ASSUME NEW k \in 1 .. Len(x) + Len(y)
                 PROVE  J[k] = k
      BY <3>2, Zenon
    <3>3. CASE k <= Len(x)
      <4>1. k \in 1 .. Len(x)
        BY <3>2, <3>3
      <4> QED
        BY <3>1, <3>2, <3>3, <4>1, Zenon
    <3>4. CASE ~(k <= Len(x))
      <4>1. k - Len(x) \in 1 .. Len(y) /\ Len(x) + (k - Len(x)) = k
        BY <3>2, <3>4
      <4> QED
        BY <3>1, <3>2, <3>4, <4>1, Zenon
    <3> QED
      BY <3>3, <3>4
  <2>6. \A k \in 1 .. Len(new[Out]) : new[Out][k] = k
    BY <1>10, <2>5, Zenon
  <2> QED
    BY <2>4, <2>6 DEF InTurn
<1>19. pend'[1] = Behind(Got', c)
  BY <1>2, <1>3 DEF WriteState
<1>20. lines' = Content(Len(Mark), new[Out], All') /\ c \in 0 .. Len(All')
  BY <1>3, <1>4, <1>7, <1>10
<1>21. WriteState(c, new)'
  BY <1>7, <1>9, <1>12, <1>14, <1>16, <1>17, <1>18, <1>19, <1>20 DEF WriteState
<1> QED
  BY <1>21

LEMMA WriteInvNext == StreamsType /\ WriteInv /\ [StreamsNext]_streamVars => WriteInv'
<1> SUFFICES ASSUME StreamsType, WriteInv, [StreamsNext]_streamVars, mode' = "write", ~clobbered'
             PROVE  Meant' /\ \E d, new : WriteState(d, new)'
  BY DEF WriteInv
<1>0. /\ \A k \in Sizes : ReadLast(k) \/ ReadBuffered(k) => mode # "write" /\ mode' = mode
      /\ \A k \in Sizes : \A n \in 1 .. k : Read(k, n) \/ ReadFails(k, n) => mode # "write" /\ mode' = mode
      /\ \A k \in Sizes : \A n, m \in 0 .. Len(source) :
           ReadWhole(k, n, m) \/ ReadWholeFails(k, n, m) => mode # "write" /\ mode' = mode
      /\ \A n \in 0 .. Len(source) : ReadBroken(n) => mode # "write" /\ mode' = mode
  BY DEF ReadLast, ReadBuffered, Read, ReadFails, Takes, ReadWhole, ReadWholeFails, TakesWhole, ReadBroken
<1>1. CASE UNCHANGED streamVars
  <2>1. Meant /\ \E d, new : WriteState(d, new)
    BY <1>1, Zenon DEF WriteInv, streamVars, writing
  <2>2. PICK c, ids : WriteState(c, ids)
    BY <2>1
  <2>3. WriteState(c, ids)'
    BY <1>1, <2>2 DEF WriteState, Carries, Keeps, InTurn, All, Got, streamVars, writing, reading
  <2>4. Meant'
    BY <1>1, <2>1 DEF Meant, streamVars, writing
  <2> QED
    BY <2>3, <2>4
<1>2. ASSUME NEW w \in Writers, Write(w) \/ WriteOn(w) \/ WriteProcess(w) \/ WriteFails(w) \/ WriteNested(w)
      PROVE  mode = "write" /\ ~clobbered /\ Meant /\ \E c, ids : WriteState(c, ids)
  <2>1. Write(w) => mode = "write" /\ ~clobbered
    BY DEF Write, Starts
  <2>2. WriteOn(w) => mode = "write" /\ ~clobbered
    BY DEF WriteOn, Starts
  <2>3. WriteProcess(w) => mode = "write" /\ ~clobbered
    BY DEF WriteProcess, AtProcesser
  <2>4. WriteFails(w) => mode = "write" /\ ~clobbered
    BY DEF WriteFails, AtProcesser
  <2>5. WriteNested(w) => mode = "write" /\ ~clobbered
    BY DEF WriteNested
  <2>6. mode = "write" /\ ~clobbered
    BY <1>2, <2>1, <2>2, <2>3, <2>4, <2>5, Zenon
  <2> QED
    BY <2>6 DEF WriteInv
<1>3. ASSUME NEW w \in Writers, Starts(w), NEW x, text' = [text EXCEPT ![w] = x],
             NEW c, caller' = [caller EXCEPT ![w] = c], c.chunk = x, Meant,
             \E e, ids : WriteState(e, ids)
      PROVE  Meant' /\ \E d, new : WriteState(d, new)'
  <2>1. PICK e, ids : WriteState(e, ids)
    BY <1>3
  <2>2. \A v \in Writers : v # w => text'[v] = text[v] /\ caller'[v] = caller[v] /\ stage'[v] = stage[v]
    BY <1>3 DEF Starts, StreamsType
  <2>3. WriteState(e, ids)'
    BY <1>3, <2>1, <2>2, WriteStep
  <2>4. text'[w] = x /\ caller'[w] = c
    BY <1>3 DEF StreamsType
  <2>5. Meant'
    BY <1>3, <2>2, <2>4 DEF Meant
  <2> QED
    BY <2>3, <2>5
<1>9. ASSUME NEW w \in Writers, Write(w)
      PROVE  Meant' /\ \E d, new : WriteState(d, new)'
  <2>1. PICK chunk \in Chunks, f \in Following :
          /\ text' = [text EXCEPT ![w] = chunk]
          /\ caller' = [caller EXCEPT ![w] = [chunk |-> chunk, following |-> f, meant |-> f,
                                              shared |-> TRUE]]
    BY <1>9, Zenon DEF Write
  <2>2. Starts(w)
    BY <1>9 DEF Write
  <2>3. [chunk |-> chunk, following |-> f, meant |-> f, shared |-> TRUE].chunk = chunk
    OBVIOUS
  <2>4. Meant /\ \E e, ids : WriteState(e, ids)
    BY <1>2, <1>9
  <2> QED
    BY <1>3, <2>1, <2>2, <2>3, <2>4, Zenon
<1>10. ASSUME NEW w \in Writers, WriteOn(w)
       PROVE  Meant' /\ \E d, new : WriteState(d, new)'
  <2> DEFINE c == [chunk |-> caller[w].meant, following |-> <<>>, meant |-> <<>>, shared |-> TRUE]
  <2>1. /\ Starts(w) /\ text' = [text EXCEPT ![w] = caller[w].following]
        /\ caller' = [caller EXCEPT ![w] = c]
        /\ clobbered' = (clobbered \/ caller[w].following # caller[w].meant)
    BY <1>10 DEF WriteOn
  <2>2. c.chunk = caller[w].following
    BY <2>1
  <2>3. Meant /\ \E e, ids : WriteState(e, ids)
    BY <1>2, <1>10
  <2> HIDE DEF c
  <2> QED
    BY <1>3, <2>1, <2>2, <2>3, Zenon
<1>11. ASSUME NEW w \in Writers, WriteProcess(w) \/ WriteFails(w) \/ WriteNested(w), Meant
       PROVE  Meant'
  <2>1. \A v \in Writers : v # w => text'[v] = text[v] /\ caller'[v] = caller[v] /\ stage'[v] = stage[v]
    BY <1>11 DEF WriteProcess, WriteFails, WriteNested, StreamsType
  <2>2. \/ stage'[w] # 1
        \/ UNCHANGED <<text, caller, stage>>
    <3>1. ASSUME WriteProcess(w)
          PROVE  stage'[w] # 1 \/ UNCHANGED <<text, caller, stage>>
      <4>1. \/ stage' = [stage EXCEPT ![w] = stage[w] + 1] \/ UNCHANGED <<text, caller, stage>>
        BY <3>1, Zenon DEF WriteProcess
      <4>2. stage[w] \in 1 .. Len(Mark) /\ Len(Mark) \in Nat
        BY <3>1, MarkFacts DEF WriteProcess, AtProcesser
      <4> QED
        BY <4>1, <4>2 DEF StreamsType
    <3>2. ASSUME WriteFails(w) \/ WriteNested(w)
          PROVE  stage'[w] # 1
      BY <3>2 DEF WriteFails, WriteNested, Idle, StreamsType
    <3> QED
      BY <1>11, <3>1, <3>2
  <2> QED
    BY <1>11, <2>1, <2>2 DEF Meant
<1>4. ASSUME NEW w \in Writers, WriteProcess(w)
      PROVE  Meant' /\ \E d, new : WriteState(d, new)'
  <2>0. PICK c, ids : WriteState(c, ids) /\ Meant
    BY <1>2, <1>4
  <2>1. CASE stage[w] = 1
    <3>1. text[w] = caller[w].chunk
      BY <2>0, <2>1 DEF Meant
    <3> QED
      BY <1>4, <1>11, <2>0, <2>1, <3>1, WriteFirst
  <2>2. CASE stage[w] # 1
    BY <1>4, <1>11, <2>0, <2>2, WriteLater
  <2> QED
    BY <2>1, <2>2
<1>5. ASSUME NEW w \in Writers, WriteFails(w)
      PROVE  Meant' /\ \E d, new : WriteState(d, new)'
  <2>0. PICK c, ids : WriteState(c, ids) /\ Meant
    BY <1>2, <1>5
  <2>1. CASE stage[w] = 1
    <3>1. text[w] = caller[w].chunk
      BY <2>0, <2>1 DEF Meant
    <3> QED
      BY <1>5, <1>11, <2>0, <2>1, <3>1, FailsFirst
  <2>2. CASE stage[w] # 1
    BY <1>5, <1>11, <2>0, <2>2, FailsLater
  <2> QED
    BY <2>1, <2>2
<1>6. ASSUME NEW w \in Writers, WriteNested(w)
      PROVE  Meant' /\ \E d, new : WriteState(d, new)'
  <2>1. PICK c, ids : WriteState(c, ids) /\ Meant
    BY <1>2, <1>6
  <2> QED
    BY <1>6, <1>11, <2>1, NestedStep
<1>7. CASE StreamsNext
  <2>1. \/ \E w \in Writers :
             Write(w) \/ WriteOn(w) \/ WriteProcess(w) \/ WriteFails(w) \/ WriteNested(w)
        \/ mode # "write" /\ mode' = mode
    BY <1>0, <1>7, Zenon DEF StreamsNext
  <2>2. CASE mode # "write" /\ mode' = mode
    BY <2>2
  <2> QED
    BY <1>4, <1>5, <1>6, <1>9, <1>10, <2>1, <2>2
<1> QED
  BY <1>1, <1>7

-----------------------------------------------------------------------------
(* What was read.                                                          *)

Inward == delivered \o outBuffer

\* The processer has gone through c lines; those with the numbers js were given.
ReadState(c, js) ==
  /\ c \in 0 .. Len(All) /\ js \in Seq(1 .. c)
  /\ Inward = Texts!FlattenSeq(Content(1, js, All))
  /\ ~panicked => pend[1] = Behind(Got, c)
  /\ failures = 0 => /\ \A k \in 1 .. Len(js) : js[k] = k
                     /\ Len(js) = c /\ (~panicked => c = Len(All))

ReadInv == mode # "write" /\ ~short => \E c, js : ReadState(c, js)

LEMMA ReadInvInit == StreamsInit => ReadInv
<1> SUFFICES ASSUME StreamsInit
             PROVE  \E c, js : ReadState(c, js)
  BY DEF ReadInv
<1>1. Got = <<>> /\ All = <<>> /\ Rest(Got) = <<>>
  BY FlattenTexts, SplitTyped DEF StreamsInit, Got, All, WholeLines, Rest, NoSplit
<1> DEFINE js == <<>>
<1>2. js \in Seq(1 .. 0) /\ Len(js) = 0
  OBVIOUS
<1>3. Content(1, js, All) = <<>>
  BY DEF Content
<1>4. Inward = <<>>
  BY TextFacts DEF Inward, StreamsInit
<1>5. pend[1] = Behind(Got, 0)
  <2>1. Behind(Got, 0) = <<>> \o <<>>
    <3>1. SubSeq(WholeLines(Got), 0 + 1, Len(WholeLines(Got))) = <<>>
      BY <1>1 DEF All
    <3> QED
      BY <1>1, <3>1, FlattenTexts, Zenon DEF Behind
  <2>2. pend[1] = <<>>
    BY MarkFacts DEF StreamsInit
  <2> QED
    BY <2>1, <2>2, TextFacts
<1>6. 0 \in 0 .. Len(All) /\ Len(All) = 0
  BY <1>1
<1> HIDE DEF js
<1>7. ReadState(0, js)
  BY <1>2, <1>3, <1>4, <1>5, <1>6, FlattenTexts DEF ReadState
<1> QED
  BY <1>7

\* What came to the processer of a reader.
LEMMA SliceArrives ==
  ASSUME StreamsType, NEW c, NEW js, ReadState(c, js), ~panicked, NEW slice \in Text, Got' = Got \o slice
  PROVE  /\ All' \in Seq(Line) /\ c \in 0 .. Len(All') /\ Len(All') \in Nat /\ c \in Nat
         /\ Inward = Texts!FlattenSeq(Content(1, js, All'))
         /\ Process(1, slice).rest = Behind(Got', Len(All'))
         /\ Process(1, slice).out = Texts!FlattenSeq(Content(1, Fresh(c, Len(All')), All'))
         /\ \A rest \in AfterFailure(1, slice) : \E d \in c .. Len(All') : rest = Behind(Got', d)
<1>1. Got \in Text /\ All \in Seq(Line) /\ Len(All) \in Nat
  BY AllFacts
<1>2. pend[1] = Behind(Got, c) /\ c \in 0 .. Len(All) /\ c \in Nat /\ js \in Seq(1 .. c)
  BY <1>1 DEF ReadState
<1>3. All' = WholeLines(Got \o slice)
  BY DEF All
<1>4. /\ Got \o slice \in Text /\ WholeLines(Got \o slice) \in Seq(Line)
      /\ c \in 0 .. Len(WholeLines(Got \o slice))
      /\ \A j \in 1 .. c : WholeLines(Got \o slice)[j] = All[j]
      /\ Process(1, slice).rest = Behind(Got \o slice, Len(WholeLines(Got \o slice)))
      /\ Process(1, slice).out =
           Texts!FlattenSeq(Content(1, Fresh(c, Len(WholeLines(Got \o slice))), WholeLines(Got \o slice)))
      /\ \A rest \in AfterFailure(1, slice) :
           \E d \in c .. Len(WholeLines(Got \o slice)) : rest = Behind(Got \o slice, d)
  <2>1. c \in 0 .. Len(WholeLines(Got))
    BY <1>2, Zenon DEF All
  <2> QED
    BY <1>1, <1>2, <2>1, ProcessFirst, ZenonT(60) DEF All
<1>5. Content(1, js, All') = Content(1, js, All)
  <2>1. \A k \in DOMAIN js : All'[js[k]] = All[js[k]]
    BY <1>2, <1>3, <1>4
  <2> QED
    BY <2>1, Zenon DEF Content
<1>6. Len(All') \in Nat
  BY <1>3, <1>4
<1>7. Inward = Texts!FlattenSeq(Content(1, js, All'))
  BY <1>5 DEF ReadState
<1> QED
  BY <1>2, <1>3, <1>4, <1>6, <1>7

\* A slice goes through, or is too long for the processer.
LEMMA SliceStep ==
  ASSUME StreamsType, NEW c, NEW js, ReadState(c, js), ~panicked, NEW slice \in Text, NEW k \in Nat,
         Got' = Got \o slice, Through(slice, k), failures' = failures
  PROVE  \E d, new : ReadState(d, new)'
<1>1. /\ All' \in Seq(Line) /\ c \in 0 .. Len(All') /\ Len(All') \in Nat /\ c \in Nat
      /\ Inward = Texts!FlattenSeq(Content(1, js, All'))
      /\ Process(1, slice).rest = Behind(Got', Len(All'))
      /\ Process(1, slice).out = Texts!FlattenSeq(Content(1, Fresh(c, Len(All')), All'))
  BY SliceArrives, Zenon
<1>2. js \in Seq(1 .. c) /\ (failures = 0 => (\A j \in 1 .. Len(js) : js[j] = j) /\ Len(js) = c)
  BY DEF ReadState
<1>3. CASE panicked' /\ UNCHANGED <<pend, delivered, outBuffer>>
  <2>1. ReadState(c, js)'
    BY <1>1, <1>2, <1>3 DEF ReadState, Inward
  <2> QED
    BY <2>1
<1>4. CASE /\ panicked' = panicked /\ pend'[1] = Rest(pend[1] \o slice)
           /\ delivered' \o outBuffer' = delivered \o (outBuffer \o Process(1, slice).out)
  <2>1. PICK d : d = Len(All')
    BY Zenon
  <2>2. PICK new : new = js \o Fresh(c, d)
    BY Zenon
  <2>3. d \in Nat /\ c <= d
    BY <1>1, <2>1
  <2>4. Fresh(c, d) \in Seq(1 .. d) /\ Len(Fresh(c, d)) = d - c /\ \A j \in 1 .. d - c : Fresh(c, d)[j] = c + j
    BY <1>1, <2>3, FreshFacts, Zenon
  <2>5. js \in Seq(1 .. d)
    <3>1. \A j \in 1 .. c : j \in 1 .. d
      BY <1>1, <2>3
    <3> QED
      BY <1>2, <3>1, SeqGrows, Zenon
  <2>6. /\ new \in Seq(1 .. d) /\ Len(new) = Len(js) + (d - c)
        /\ \A j \in 1 .. Len(js) + (d - c) : new[j] = IF j <= Len(js) THEN js[j] ELSE c + (j - Len(js))
    <3> DEFINE f == Fresh(c, d)
    <3>1. f \in Seq(1 .. d) /\ Len(f) = d - c /\ \A j \in 1 .. d - c : f[j] = c + j
      BY <2>4
    <3> HIDE DEF f
    <3>2. /\ js \o f \in Seq(1 .. d) /\ Len(js \o f) = Len(js) + Len(f)
          /\ \A j \in 1 .. Len(js) + Len(f) : (js \o f)[j] = IF j <= Len(js) THEN js[j] ELSE f[j - Len(js)]
      BY <2>5, <3>1, ConcatProperties, Zenon
    <3>3. Len(js) \in Nat
      BY <2>5
    <3>4. new = js \o f
      BY <2>2 DEF f
    <3>5. ASSUME NEW j \in 1 .. Len(js) + (d - c), ~(j <= Len(js))
          PROVE  f[j - Len(js)] = c + (j - Len(js))
      <4>1. j - Len(js) \in 1 .. d - c
        BY <1>1, <2>3, <3>3, <3>5
      <4> QED
        BY <3>1, <4>1
    <3> QED
      BY <3>1, <3>2, <3>4, <3>5
  <2>7. Inward' = Texts!FlattenSeq(Content(1, new, All'))
    <3> DEFINE L == All'
               a == Texts!FlattenSeq(Content(1, js, L))
               b == Texts!FlattenSeq(Content(1, Fresh(c, d), L))
    <3>1. L \in Seq(Line) /\ Len(L) = d /\ 1 \in 0 .. Len(Mark)
      BY <1>1, <2>1, MarkFacts
    <3>2. js \in Seq(DOMAIN L) /\ Fresh(c, d) \in Seq(DOMAIN L)
      <4>1. DOMAIN L = 1 .. d
        BY <3>1
      <4> QED
        BY <2>4, <2>5, <4>1
    <3> HIDE DEF L
    <3>3. Content(1, new, L) = Content(1, js, L) \o Content(1, Fresh(c, d), L)
      <4> DEFINE f == Fresh(c, d)
      <4>1. f \in Seq(DOMAIN L) /\ new = js \o f
        BY <2>2, <3>2
      <4> HIDE DEF f
      <4>2. Content(1, js \o f, L) = Content(1, js, L) \o Content(1, f, L)
        BY <3>1, <3>2, <4>1, ContentJoins, SMTT(30)
      <4> QED
        BY <4>1, <4>2 DEF f
    <3>4. Content(1, js, L) \in Seq(Text) /\ Content(1, Fresh(c, d), L) \in Seq(Text)
      BY <3>1, <3>2, ContentFacts, LinesAreTexts
    <3>5. Texts!FlattenSeq(Content(1, new, L)) = a \o b /\ a \in Text /\ b \in Text
      BY <3>3, <3>4, FlattenConcat, FlattenTexts, Zenon
    <3>6. delivered \o outBuffer = a /\ Process(1, slice).out = b
      BY <1>1, <2>1 DEF L, Inward
    <3>7. delivered \in Text /\ outBuffer \in Text
      BY DEF StreamsType
    <3> HIDE DEF a, b
    <3>8. (delivered \o outBuffer) \o b = delivered \o (outBuffer \o b)
      BY <3>5, <3>7, TextFacts, Zenon
    <3>9. Inward' = delivered' \o outBuffer'
      BY DEF Inward
    <3> QED
      BY <1>4, <3>5, <3>6, <3>8, <3>9, Zenon DEF L
  <2>8. pend'[1] = Behind(Got', d)
    <3>1. Process(1, slice).rest = Rest(pend[1] \o slice)
      BY MarkFacts, ProcessFacts, Zenon DEF StreamsType
    <3> QED
      BY <1>1, <1>4, <2>1, <3>1
  <2>9. ASSUME failures' = 0
        PROVE  (\A j \in 1 .. Len(new) : new[j] = j) /\ Len(new) = d /\ d = Len(All')
    <3>1. (\A j \in 1 .. Len(js) : js[j] = j) /\ Len(js) = c
      BY <1>2, <2>9
    <3> QED
      BY <1>1, <2>1, <2>3, <2>6, <3>1
  <2>10. d \in 0 .. Len(All')
    BY <2>1, <2>3
  <2>11. ReadState(d, new)'
    BY <2>6, <2>7, <2>8, <2>9, <2>10 DEF ReadState
  <2> QED
    BY <2>11
<1> QED
  BY <1>3, <1>4, ThroughFacts, Zenon

LEMMA ReadInvNext == StreamsType /\ ReadInv /\ [StreamsNext]_streamVars => ReadInv'
<1> SUFFICES ASSUME StreamsType, ReadInv, [StreamsNext]_streamVars, mode' # "write", ~short'
             PROVE  \E d, new : ReadState(d, new)'
  BY DEF ReadInv
<1>1. mode # "write" /\ ~short
  <2>1. ASSUME NEW w \in Writers,
               Write(w) \/ WriteOn(w) \/ WriteProcess(w) \/ WriteFails(w) \/ WriteNested(w)
        PROVE  mode' = mode /\ short' = short
    BY <2>1 DEF Write, WriteOn, Starts, WriteProcess, WriteFails, WriteNested, reading
  <2>2. ASSUME NEW k \in Sizes, ReadLast(k) \/ ReadBuffered(k)
        PROVE  mode' = mode /\ short' = short
    BY <2>2 DEF ReadLast, ReadBuffered
  <2>3. ASSUME NEW k \in Sizes, NEW n \in 1 .. k, Read(k, n) \/ ReadFails(k, n)
        PROVE  mode' = mode /\ (short => short')
    BY <2>3, Zenon DEF Read, ReadFails, Takes
  <2>4. ASSUME NEW k \in Sizes, NEW n, NEW m, ReadWhole(k, n, m) \/ ReadWholeFails(k, n, m)
        PROVE  mode' = mode /\ short' = short
    BY <2>4 DEF ReadWhole, ReadWholeFails, TakesWhole
  <2>5. ASSUME NEW n, ReadBroken(n)
        PROVE  mode' = mode /\ short' = short
    BY <2>5 DEF ReadBroken
  <2>6. CASE UNCHANGED streamVars
    BY <2>6 DEF streamVars, reading
  <2> QED
    BY <2>1, <2>2, <2>3, <2>4, <2>5, <2>6, Zenon DEF StreamsNext
<1>2. PICK c, js : ReadState(c, js)
  BY <1>1 DEF ReadInv
<1>3. input \in Seq(Text) /\ source \in Text /\ Len(source) \in Nat /\ \A k \in Sizes : k \in Nat
  BY BytesAssumption DEF StreamsType, Text
<1>10. ASSUME NEW slice \in Text, Got' = Got \o slice, Fails(slice), ~panicked
       PROVE  \E d, new : ReadState(d, new)'
  <2>3. PICK rest \in AfterFailure(1, slice) : pend' = [pend EXCEPT ![1] = rest]
    BY <1>10, Zenon DEF Fails
  <2>4. failures' # 0 /\ Inward' = Inward
    BY <1>10 DEF Fails, StreamsType, Inward
  <2>5. /\ All' \in Seq(Line) /\ c \in 0 .. Len(All') /\ Len(All') \in Nat /\ c \in Nat
        /\ Inward = Texts!FlattenSeq(Content(1, js, All'))
        /\ \A r \in AfterFailure(1, slice) : \E d \in c .. Len(All') : r = Behind(Got', d)
    BY <1>2, <1>10, SliceArrives
  <2>6. PICK d \in c .. Len(All') : rest = Behind(Got', d)
    BY <2>5
  <2>7. d \in 0 .. Len(All') /\ js \in Seq(1 .. d)
    <3>1. d \in 0 .. Len(All') /\ \A j \in 1 .. c : j \in 1 .. d
      BY <2>5
    <3>2. js \in Seq(1 .. c)
      BY <1>2 DEF ReadState
    <3> QED
      BY <3>1, <3>2, SeqGrows, Zenon
  <2>8. pend'[1] = Behind(Got', d)
    BY <2>3, <2>6, MarkFacts DEF StreamsType
  <2>9. ReadState(d, js)'
    BY <2>4, <2>5, <2>7, <2>8 DEF ReadState
  <2> QED
    BY <2>9
<1>4. ASSUME NEW k \in Sizes, NEW n \in 1 .. k, Read(k, n) \/ ReadFails(k, n)
      PROVE  \E d, new : ReadState(d, new)'
  <2>1. /\ n \in 1 .. Texts!Min({k, Len(source)}) /\ short' = (short \/ n < k) /\ k \in Nat
        /\ Consume(n, 0) /\ ~panicked
    BY <1>3, <1>4 DEF Read, ReadFails, Takes
  <2>2. n \in 0 .. Len(source) /\ n <= k /\ (n = k => Taken(k, n) = SubSeq(source, 1, n))
    BY <1>3, <2>1, SliceFacts, Zenon
  <2>3. n = k
    <3>1. ~(n < k)
      BY <2>1, Zenon
    <3> QED
      BY <2>1, <2>2, <3>1
  <2> DEFINE slice == SubSeq(source, 1, n)
  <2>4. Taken(k, n) = slice
    BY <2>2, <2>3, Zenon
  <2>5. slice \in Text /\ Got' = Got \o slice
    <3>1. n + 0 <= Len(source) /\ 0 \in Nat
      BY <1>3, <2>2
    <3> QED
      BY <1>3, <2>1, <2>2, <3>1, ConsumeFacts
  <2> HIDE DEF slice
  <2>6. (Through(slice, k) /\ failures' = failures) \/ Fails(slice)
    BY <1>4, <2>4 DEF Read, ReadFails
  <2>7. CASE Through(slice, k) /\ failures' = failures
    BY <1>2, <2>1, <2>5, <2>7, SliceStep
  <2>8. CASE Fails(slice)
    BY <1>10, <2>1, <2>5, <2>8
  <2> QED
    BY <2>6, <2>7, <2>8
<1>5. ASSUME NEW k \in Sizes, NEW n, NEW m, ReadWhole(k, n, m) \/ ReadWholeFails(k, n, m)
      PROVE  \E d, new : ReadState(d, new)'
  <2>1. TakesWhole(k, n, m) /\ k \in Nat
    BY <1>3, <1>5 DEF ReadWhole, ReadWholeFails
  <2>2. n \in 0 .. Len(source) /\ m \in Nat /\ n + m <= Len(source)
    BY <1>3, <2>1, WholeTaken
  <2>3. Consume(n, m) /\ ~panicked
    BY <2>1 DEF TakesWhole
  <2> DEFINE slice == SubSeq(source, 1, n)
  <2>4. slice \in Text /\ Got' = Got \o slice
    BY <1>3, <2>2, <2>3, ConsumeFacts
  <2>5. (Through(slice, k) /\ failures' = failures) \/ Fails(slice)
    BY <1>5 DEF ReadWhole, ReadWholeFails
  <2> HIDE DEF slice
  <2>6. CASE Through(slice, k) /\ failures' = failures
    BY <1>2, <2>1, <2>3, <2>4, <2>6, SliceStep
  <2>7. CASE Fails(slice)
    BY <1>10, <2>3, <2>4, <2>7
  <2> QED
    BY <2>5, <2>6, <2>7
<1>6. ASSUME NEW k \in Sizes, ReadLast(k) \/ ReadBuffered(k)
      PROVE  \E d, new : ReadState(d, new)'
  <2>1. Deliver(outBuffer, k) /\ outBuffer \in Text /\ delivered \in Text /\ k \in Nat
    BY <1>3, <1>6 DEF ReadLast, ReadBuffered, StreamsType
  <2>2. Inward' = Inward
    BY <2>1, DeliverFacts, Zenon DEF Inward
  <2>3. ReadState(c, js)'
    BY <1>2, <1>6, <2>2 DEF ReadState, ReadLast, ReadBuffered, All, Got
  <2> QED
    BY <2>3
<1>7. ASSUME NEW n, ReadBroken(n)
      PROVE  \E d, new : ReadState(d, new)'
  <2>1. ReadState(c, js)'
    BY <1>2, <1>7 DEF ReadState, ReadBroken, Inward, All, Got
  <2> QED
    BY <2>1
<1>8. CASE UNCHANGED streamVars
  <2>1. ReadState(c, js)'
    BY <1>2, <1>8 DEF ReadState, Inward, All, Got, streamVars, writing, reading
  <2> QED
    BY <2>1
<1>9. \A w \in Writers :
        ~(Write(w) \/ WriteOn(w) \/ WriteProcess(w) \/ WriteFails(w) \/ WriteNested(w))
  BY <1>1 DEF Write, WriteOn, Starts, WriteProcess, WriteFails, WriteNested, AtProcesser
<1> QED
  BY <1>4, <1>5, <1>6, <1>7, <1>8, <1>9, Zenon DEF StreamsNext

\* What was taken is the source up to some byte, and what is left the rest of it, unless
\* it was dropped; a buffer reader answers io.EOF when nothing is left.
Origin ==
  mode # "write" /\ ~broken =>
    /\ IF dropped THEN source = <<>> /\ \E rest \in Text : Got \o rest = Source
       ELSE Got \o source = Source
    /\ mode = "readall" /\ eof => source = <<>> /\ outBuffer = <<>>

LEMMA OriginInit == StreamsInit => Origin
<1> SUFFICES ASSUME StreamsInit
             PROVE  Got \o source = Source /\ ~dropped /\ ~eof
  BY DEF Origin
<1>1. Got = <<>>
  BY FlattenTexts DEF StreamsInit, Got
<1>2. Source \in Text
  BY BytesAssumption DEF Text
<1> QED
  BY <1>1, <1>2, TextFacts DEF StreamsInit

LEMMA JoinThree ==
  ASSUME NEW a \in Text, NEW b \in Text, NEW c \in Text
  PROVE  (a \o b) \o c = a \o (b \o c)
BY ConcatAssociative DEF Text

LEMMA OriginNext == StreamsType /\ Origin /\ [StreamsNext]_streamVars => Origin'
<1> SUFFICES ASSUME StreamsType, Origin, [StreamsNext]_streamVars, mode' # "write", ~broken'
             PROVE  /\ IF dropped' THEN source' = <<>> /\ \E rest \in Text : Got' \o rest = Source
                       ELSE Got' \o source' = Source
                    /\ mode' = "readall" /\ eof' => source' = <<>> /\ outBuffer' = <<>>
  BY DEF Origin
<1>1. /\ input \in Seq(Text) /\ source \in Text /\ Len(source) \in Nat
      /\ delivered \in Text /\ outBuffer \in Text /\ Got \in Text /\ \A k \in Sizes : k \in Nat
  BY BytesAssumption, GotFacts DEF StreamsType, Text
<1>2. source # <<>> => Len(source) # 0
  BY <1>1, EmptySeq DEF Text
\* n bytes were taken, the rest is left or dropped
<1>3. ASSUME mode # "write", ~broken, ~dropped, NEW n \in 0 .. Len(source),
             Got' = Got \o SubSeq(source, 1, n)
      PROVE  /\ SubSeq(source, n + 1, Len(source)) \in Text
             /\ Got' \o SubSeq(source, n + 1, Len(source)) = Source
  <2> DEFINE a == SubSeq(source, 1, n)
             b == SubSeq(source, n + 1, Len(source))
  <2>1. a \in Text /\ b \in Text /\ a \o b = source
    BY <1>1, TakeDrop, Zenon
  <2>2. Got \o source = Source
    BY <1>3 DEF Origin
  <2>3. Got' = Got \o a
    BY <1>3
  <2> HIDE DEF a, b
  <2>4. (Got \o a) \o b = Got \o (a \o b)
    BY <1>1, <2>1, JoinThree, Zenon
  <2>5. b \in Text /\ Got' \o b = Source
    BY <2>1, <2>2, <2>3, <2>4
  <2> QED
    BY <2>5 DEF b
<1>4. ASSUME NEW k \in Sizes, NEW n \in 1 .. k, Read(k, n) \/ ReadFails(k, n)
      PROVE  /\ IF dropped' THEN source' = <<>> /\ \E rest \in Text : Got' \o rest = Source
                ELSE Got' \o source' = Source
             /\ mode' = "readall" /\ eof' => source' = <<>> /\ outBuffer' = <<>>
  <2>1. /\ mode = "read" /\ mode' = mode /\ n \in 1 .. Texts!Min({k, Len(source)}) /\ k \in Nat
        /\ Consume(n, 0) /\ dropped' = dropped /\ broken' = broken
    BY <1>1, <1>4 DEF Read, ReadFails, Takes
  <2>2. n \in 0 .. Len(source) /\ n + 0 <= Len(source) /\ 0 \in Nat /\ Len(source) # 0
    <3>1. n \in 0 .. Len(source)
      BY <1>1, <2>1, SliceFacts, Zenon
    <3> QED
      BY <1>1, <2>1, <3>1
  <2>3. ~broken /\ ~dropped
    <3>1. source # <<>>
      BY <2>2, EmptySeq
    <3> QED
      BY <2>1, <3>1 DEF Origin
  <2>4. Got' = Got \o SubSeq(source, 1, n)
    BY <1>1, <2>1, <2>2, ConsumeFacts
  <2>5. source' = SubSeq(source, n + 1, Len(source))
    BY <2>1, <2>2 DEF Consume
  <2> QED
    BY <1>3, <2>1, <2>2, <2>3, <2>4, <2>5
<1>5. ASSUME NEW k \in Sizes, NEW n, NEW m, ReadWhole(k, n, m) \/ ReadWholeFails(k, n, m)
      PROVE  /\ IF dropped' THEN source' = <<>> /\ \E rest \in Text : Got' \o rest = Source
                ELSE Got' \o source' = Source
             /\ mode' = "readall" /\ eof' => source' = <<>> /\ outBuffer' = <<>>
  <2>1. TakesWhole(k, n, m) /\ k \in Nat
    BY <1>1, <1>5 DEF ReadWhole, ReadWholeFails
  <2>2. n \in 0 .. Len(source) /\ m \in Nat /\ n + m <= Len(source)
    BY <1>1, <2>1, WholeTaken
  <2>3. /\ mode = "readall" /\ mode' = mode /\ source # <<>> /\ Consume(n, m)
        /\ dropped' = (dropped \/ m > 0) /\ broken' = (broken \/ n + m < Len(source))
    BY <2>1 DEF TakesWhole
  <2>4. ~broken /\ ~dropped /\ ~eof /\ n + m = Len(source)
    <3>1. ~broken /\ ~(n + m < Len(source))
      BY <2>3, Zenon
    <3> QED
      BY <1>1, <2>2, <2>3, <3>1 DEF Origin
  <2>5. Got' = Got \o SubSeq(source, 1, n) /\ SubSeq(source, 1, n) \in Text
    BY <1>1, <2>2, <2>3, ConsumeFacts
  <2>6. source' = <<>>
    <3>1. source' = SubSeq(source, n + m + 1, Len(source))
      BY <2>3 DEF Consume
    <3>2. Len(source) < n + m + 1 /\ n + m + 1 \in Nat
      BY <1>1, <2>2, <2>4
    <3> QED
      BY <1>1, <3>1, <3>2, SubSeqEmpty
  <2>7. /\ SubSeq(source, n + 1, Len(source)) \in Text
        /\ Got' \o SubSeq(source, n + 1, Len(source)) = Source
    BY <1>3, <2>2, <2>3, <2>4, <2>5
  <2>8. ~dropped' => Got' \o source' = Source
    <3>1. ASSUME ~dropped'
          PROVE  SubSeq(source, n + 1, Len(source)) = <<>>
      <4>1. ~(m > 0)
        BY <2>3, <3>1, Zenon
      <4>2. Len(source) < n + 1 /\ n + 1 \in Nat
        BY <1>1, <2>2, <2>4, <4>1
      <4> QED
        BY <1>1, <4>2, SubSeqEmpty
    <3> QED
      BY <2>6, <2>7, <3>1
  <2>9. eof' => outBuffer' = <<>>
    <3>1. CASE Through(SubSeq(source, 1, n), k)
      BY <2>1, <2>4, <2>5, <3>1, ThroughFacts
    <3>2. CASE Fails(SubSeq(source, 1, n))
      BY <3>2 DEF Fails
    <3> QED
      BY <1>5, <3>1, <3>2 DEF ReadWhole, ReadWholeFails
  <2> QED
    BY <2>6, <2>7, <2>8, <2>9
<1>6. ASSUME NEW k \in Sizes, ReadLast(k)
      PROVE  /\ dropped' /\ source' = <<>> /\ mode' # "readall"
             /\ \E rest \in Text : Got' \o rest = Source
  <2>1. /\ mode = "read" /\ mode' = mode /\ source # <<>> /\ source' = <<>> /\ dropped' = TRUE
        /\ input' = input /\ broken' = broken
    BY <1>6 DEF ReadLast
  <2>2. Got' = Got
    BY <2>1 DEF Got
  <2>3. Got \o source = Source
    BY <2>1 DEF Origin
  <2> QED
    BY <1>1, <2>1, <2>2, <2>3
<1>7. ASSUME NEW k \in Sizes, ReadBuffered(k)
      PROVE  /\ IF dropped' THEN source' = <<>> /\ \E rest \in Text : Got' \o rest = Source
                ELSE Got' \o source' = Source
             /\ mode' = "readall" /\ eof' => source' = <<>> /\ outBuffer' = <<>>
  <2>1. /\ mode # "write" /\ mode' = mode /\ source = <<>> /\ Deliver(outBuffer, k)
        /\ UNCHANGED <<input, source, dropped, broken>> /\ k \in Nat
    BY <1>1, <1>7 DEF ReadBuffered
  <2>2. Got' = Got
    BY <2>1 DEF Got
  <2>3. eof' => outBuffer' = <<>>
    BY <1>1, <2>1, DeliverFacts
  <2> QED
    BY <2>1, <2>2, <2>3 DEF Origin
<1>8. ASSUME NEW n \in 0 .. Len(source), ReadBroken(n)
      PROVE  /\ IF dropped' THEN source' = <<>> /\ \E rest \in Text : Got' \o rest = Source
                ELSE Got' \o source' = Source
             /\ ~eof'
  <2>1. /\ mode # "write" /\ ~eof' /\ source' = SubSeq(source, n + 1, Len(source))
        /\ broken' = (broken \/ n > 0) /\ UNCHANGED <<input, dropped>>
    BY <1>8 DEF ReadBroken
  <2>2. ~broken /\ ~(n > 0)
    BY <2>1, Zenon
  <2>3. source' = source
    <3>1. n = 0
      BY <1>1, <2>2
    <3>2. SubSeq(source, 1, Len(source)) = source
      BY <1>1, SubSeqFull DEF Text
    <3> QED
      BY <2>1, <3>1, <3>2
  <2>4. Got' = Got
    BY <2>1 DEF Got
  <2> QED
    BY <2>1, <2>2, <2>3, <2>4 DEF Origin
<1>9. CASE UNCHANGED streamVars
  BY <1>9 DEF Origin, Got, streamVars, writing, reading
<1>10. ASSUME NEW w \in Writers,
              Write(w) \/ WriteOn(w) \/ WriteProcess(w) \/ WriteFails(w) \/ WriteNested(w)
       PROVE  mode' = "write"
  BY <1>10 DEF Write, WriteOn, Starts, WriteProcess, AtProcesser, WriteFails, WriteNested
<1> QED
  BY <1>4, <1>5, <1>6, <1>7, <1>8, <1>9, <1>10 DEF StreamsNext

-----------------------------------------------------------------------------
(* Theorems.                                                               *)

LEMMA RewrittenFacts ==
  ASSUME StreamsType, NEW m, m = (IF mode = "write" THEN Len(Mark) ELSE 1)
  PROVE  /\ m \in 0 .. Len(Mark)
         /\ Rewritten \in Seq(Text) /\ Len(Rewritten) = Len(All) /\ Len(All) \in Nat
         /\ \A k \in 1 .. Len(All) : Rewritten[k] = MarksOf(m) \o All[k]
<1> DEFINE marks == IF mode = "write" THEN Texts!Reverse(Mark) ELSE <<Mark[1]>>
           n     == Len(All)
<1>1. All \in Seq(Line) /\ n \in Nat /\ DOMAIN All = 1 .. n
  BY AllFacts
<1>2. m \in 0 .. Len(Mark)
  BY MarkFacts
<1>3. marks = MarksOf(m)
  <2>1. CASE mode = "write"
    <3>1. SubSeq(Mark, 1, Len(Mark)) = Mark
      BY BytesAssumption, SubSeqFull
    <3> QED
      BY <2>1, <3>1, Zenon DEF MarksOf
  <2>2. CASE mode # "write"
    <3> DEFINE h == SubSeq(Mark, 1, 1)
    <3>1. 1 \in 1 .. Len(Mark) /\ Len(Mark) \in Nat
      BY MarkFacts
    <3>2. Len(h) = 1 /\ h[1] = Mark[1]
      BY <3>1, BytesAssumption
    <3> HIDE DEF h
    <3>3. Texts!Reverse(h) = [i \in 1 .. 1 |-> h[1]]
      <4>1. \A i \in 1 .. 1 : h[(Len(h) - i) + 1] = h[1]
        BY <3>2
      <4> QED
        BY <3>2, <4>1 DEF Texts!Reverse
    <3>4. Texts!Reverse(h) = <<Mark[1]>>
      BY <3>2, <3>3
    <3>5. MarksOf(m) = Texts!Reverse(h)
      BY <2>2, Zenon DEF MarksOf, h
    <3> QED
      BY <2>2, <3>4, <3>5
  <2> QED
    BY <2>1, <2>2
<1>4. Rewritten = [k \in 1 .. n |-> marks \o All[k]]
  <2>1. Rewritten = [k \in DOMAIN All |-> marks \o All[k]]
    BY Zenon DEF Rewritten, All, Got
  <2> HIDE DEF marks
  <2> QED
    BY <1>1, <2>1
<1> HIDE DEF marks
<1>5. \A k \in 1 .. n : MarksOf(m) \o All[k] \in Text
  <2> TAKE k \in 1 .. n
  <2>1. All[k] \in Line
    BY <1>1
  <2>2. MarksOf(m) \o All[k] \in Line
    BY <1>2, <2>1, MarksFacts, Zenon
  <2> QED
    BY <2>2, LinesAreTexts
<1> DEFINE r == Rewritten
<1>6. r = [k \in 1 .. n |-> MarksOf(m) \o All[k]]
  BY <1>3, <1>4
<1> HIDE DEF r, n
<1>7. r \in [1 .. n -> Text]
  BY <1>5, <1>6
<1>8. r \in Seq(Text) /\ Len(r) = n
  BY <1>1, <1>7
<1> QED
  BY <1>1, <1>2, <1>6, <1>8 DEF r, n

LEMMA WholeFollows == StreamsType /\ WriteInv => LinesWhole
<1> SUFFICES ASSUME StreamsType, WriteInv, mode = "write", ~clobbered
             PROVE  LinesWhole
  BY DEF LinesWhole
<1>1. PICK c, ids : WriteState(c, ids)
  BY DEF WriteInv
<1> DEFINE s == ids[Out]
           n == Len(s)
           R == Rewritten
           N == Len(All)
<1>2. /\ c \in Nat /\ c <= N /\ N \in Nat /\ s \in Seq(1 .. c) /\ s \in Seq(DOMAIN All) /\ n \in Nat
      /\ \A k \in 1 .. n : s[k] \in 1 .. c /\ s[k] \in 1 .. N
  <2>1. c \in Nat /\ c \in 0 .. N /\ N \in Nat /\ s \in Seq(1 .. c) /\ s \in Seq(DOMAIN All)
    BY <1>1, AllFacts, StateFacts, PlaceFacts
  <2> QED
    BY <2>1
<1>3. /\ R \in Seq(Text) /\ Len(R) = N /\ Len(Mark) \in 0 .. Len(Mark)
      /\ \A k \in 1 .. N : R[k] = MarksOf(Len(Mark)) \o All[k]
  BY RewrittenFacts, Zenon
<1>4. lines \in Seq(Line) /\ Len(lines) = n /\ \A k \in 1 .. n : lines[k] = R[s[k]]
  <2>1. lines = Content(Len(Mark), s, All) /\ All \in Seq(Line)
    BY <1>1, AllFacts DEF WriteState
  <2> HIDE DEF R, s, N
  <2>2. /\ lines \in Seq(Line) /\ Len(lines) = n
        /\ \A k \in 1 .. n : lines[k] = MarksOf(Len(Mark)) \o All[s[k]]
    <3>1. Len(Mark) \in 0 .. Len(Mark) /\ s \in Seq(DOMAIN All)
      BY <1>2, <1>3, Zenon
    <3>2. /\ Content(Len(Mark), s, All) \in Seq(Line) /\ Len(Content(Len(Mark), s, All)) = n
          /\ \A k \in 1 .. n : Content(Len(Mark), s, All)[k] = MarksOf(Len(Mark)) \o All[s[k]]
      BY <2>1, <3>1, ContentFacts, Zenon
    <3> QED
      BY <2>1, <3>2, Zenon
  <2> QED
    BY <1>2, <1>3, <2>2, Zenon
<1>5. \A k, j \in 1 .. n : s[k] = s[j] => k = j
  <2>1. Out \in DOMAIN ids /\ Distinct(ids)
    BY <1>1, StateFacts, PlaceFacts DEF WriteState
  <2> QED
    BY <2>1, Zenon DEF Distinct
<1>6. ASSUME failures = 0, ~overlapped
      PROVE  Texts!IsPrefix(lines, R)
  <2>1. \A k \in 1 .. n : s[k] = k
    BY <1>1, <1>6 DEF WriteState, InTurn
  <2> HIDE DEF R, s, n, N
  <2>2. n <= N
    <3>1. n > 0 => n \in 1 .. n
      BY <1>2
    <3> QED
      BY <1>2, <2>1, <3>1
  <2>3. \A k \in 1 .. n : lines[k] = R[k]
    BY <1>4, <2>1
  <2>4. SubSeq(lines, 1, n) = SubSeq(R, 1, n)
    <3> DEFINE x == SubSeq(lines, 1, n)
               y == SubSeq(R, 1, n)
    <3>1. x \in Seq(Line) /\ Len(x) = n /\ \A k \in 1 .. n : x[k] = lines[k]
      BY <1>2, <1>4
    <3>2. y \in Seq(Text) /\ Len(y) = n /\ \A k \in 1 .. n : y[k] = R[k]
      BY <1>2, <1>3, <2>2
    <3>3. x \in Seq(Text)
      BY <3>1, LinesAreTexts
    <3> HIDE DEF x, y
    <3>4. x = y
      BY <2>3, <3>1, <3>2, <3>3, SeqEqual
    <3> QED
      BY <3>4, Zenon DEF x, y
  <2> QED
    BY <1>3, <1>4, <2>2, <2>4 DEF Texts!IsPrefix
<1>7. ASSUME failures = 0, ~panicked, \A w \in Writers : stage[w] = Idle
      PROVE  Len(lines) = Len(R) /\ inner = <<>>
  <2>1. \A w \in Writers : ids[By(w)] = <<>>
    BY <1>1, <1>7 DEF WriteState, Carries, Idle
  <2>2. Len(s) = c
    BY <1>1, <1>7, <2>1, AllOut
  <2> QED
    BY <1>1, <1>3, <1>4, <1>7, <2>2 DEF WriteState
<1>8. ASSUME NEW x
      PROVE  Times(x, lines) <= Times(x, R)
  <2> HIDE DEF R, s, n, N
  <2> DEFINE A == {k \in DOMAIN lines : lines[k] = x}
             B == {k \in DOMAIN R : R[k] = x}
             f == [k \in A |-> s[k]]
  <2>1. DOMAIN lines = 1 .. n /\ DOMAIN R = 1 .. N
    BY <1>3, <1>4
  <2>2. \A k \in A : k \in 1 .. n /\ s[k] \in B
    BY <1>2, <1>4, <2>1
  <2>3. f \in [A -> B] /\ \A k, j \in A : f[k] = f[j] => k = j
    BY <1>5, <2>2
  <2>4. f \in Injection(A, B)
    <3> HIDE DEF A, B, f
    <3> QED
      BY <2>3, Zenon DEF Injection, IsInjective
  <2>5. IsFiniteSet(B)
    <3>1. IsFiniteSet(1 .. N) /\ B \subseteq 1 .. N
      BY <1>2, <2>1, FS_Interval
    <3> HIDE DEF B
    <3> QED
      BY <3>1, FS_Subset, Zenon
  <2>6. Cardinality(A) <= Cardinality(B)
    <3> HIDE DEF A, B, f
    <3> QED
      BY <2>4, <2>5, FS_Injection
  <2> QED
    BY <2>6 DEF Times
<1> QED
  BY <1>6, <1>7, <1>8 DEF LinesWhole

LEMMA LinesFollow ==
  ASSUME StreamsType, ReadInv, mode # "write", ~short
  PROVE  IF failures = 0 /\ ~panicked THEN delivered \o outBuffer = Texts!FlattenSeq(Rewritten)
         ELSE \A x \in Texts!ToSet(WholeLines(delivered \o outBuffer)) : x \in Texts!ToSet(Rewritten)
<1>1. PICK c, js : ReadState(c, js)
  BY DEF ReadInv
<1> DEFINE R == Rewritten
           N == Len(All)
           C == Content(1, js, All)
<1>2. All \in Seq(Line) /\ N \in Nat /\ c \in 0 .. N /\ js \in Seq(1 .. c) /\ c \in Nat
  BY <1>1, AllFacts DEF ReadState
<1>3. js \in Seq(DOMAIN All) /\ Len(js) \in Nat /\ \A k \in 1 .. Len(js) : js[k] \in 1 .. N
  <2>1. js \in Seq(DOMAIN All) /\ DOMAIN All = 1 .. N
    BY <1>2, NumbersIn
  <2> QED
    BY <2>1
<1>4. /\ R \in Seq(Text) /\ Len(R) = N /\ 1 \in 0 .. Len(Mark)
      /\ \A k \in 1 .. N : R[k] = MarksOf(1) \o All[k]
  BY RewrittenFacts
<1>5. C \in Seq(Line) /\ Len(C) = Len(js) /\ \A k \in 1 .. Len(js) : C[k] = R[js[k]]
  <2>1. /\ C \in Seq(Line) /\ Len(C) = Len(js)
        /\ \A k \in 1 .. Len(js) : C[k] = MarksOf(1) \o All[js[k]]
    BY <1>2, <1>3, <1>4, ContentFacts, ZenonT(60)
  <2> HIDE DEF R, C, N
  <2> QED
    BY <1>3, <1>4, <2>1, Zenon
<1>6. delivered \o outBuffer = Texts!FlattenSeq(C)
  BY <1>1 DEF ReadState, Inward
<1>7. ASSUME failures = 0, ~panicked
      PROVE  delivered \o outBuffer = Texts!FlattenSeq(R)
  <2>1. Len(js) = N /\ \A k \in 1 .. Len(js) : js[k] = k
    BY <1>1, <1>7 DEF ReadState
  <2> HIDE DEF R, C, N
  <2>2. C \in Seq(Text)
    BY <1>5, LinesAreTexts
  <2>3. C = R
    BY <1>4, <1>5, <2>1, <2>2, SeqEqual
  <2> QED
    BY <1>6, <2>3
<1>8. ASSUME NEW x \in Texts!ToSet(WholeLines(delivered \o outBuffer))
      PROVE  x \in Texts!ToSet(R)
  <2> HIDE DEF R, C, N
  <2>1. WholeLines(delivered \o outBuffer) = C
    BY <1>5, <1>6, LinesOf
  <2>2. PICK k \in 1 .. Len(js) : x = C[k]
    BY <1>5, <2>1 DEF Texts!ToSet
  <2>3. js[k] \in DOMAIN R /\ x = R[js[k]]
    BY <1>3, <1>4, <1>5, <2>2
  <2> QED
    BY <2>3 DEF Texts!ToSet
<1> QED
  BY <1>7, <1>8

LEMMA PrefixOfSource ==
  ASSUME NEW a \in Text, NEW b \in Text, a \o b = Source
  PROVE  Texts!IsPrefix(a, Source)
<1>1. Len(a) \in Nat /\ Len(b) \in Nat /\ Len(Source) = Len(a) + Len(b) /\ Source \in Text
  BY BytesAssumption DEF Text
<1>2. Len(a) \in 0 .. Len(Source)
  BY <1>1
<1>3. \A j \in 1 .. Len(a) : Source[j] = a[j]
  BY <1>1 DEF Text
<1>4. /\ SubSeq(a, 1, Len(a)) = a /\ SubSeq(Source, 1, Len(a)) \in Text
      /\ Len(SubSeq(Source, 1, Len(a))) = Len(a)
      /\ \A j \in 1 .. Len(a) : SubSeq(Source, 1, Len(a))[j] = Source[j]
  <2>1. SubSeq(a, 1, Len(a)) = a
    BY SubSeqFull DEF Text
  <2> QED
    BY <1>1, <1>2, <2>1 DEF Text
<1>5. SubSeq(Source, 1, Len(a)) = a
  BY <1>3, <1>4, SeqEqual DEF Text
<1> QED
  BY <1>1, <1>2, <1>4, <1>5 DEF Texts!IsPrefix

LEMMA OrderFollows == StreamsType /\ ReadInv /\ Origin => ReadInOrder
<1> SUFFICES ASSUME StreamsType, ReadInv, Origin, mode # "write"
             PROVE  ReadInOrder
  BY DEF ReadInOrder
<1>1. Got \in Text /\ source \in Text /\ Got = Texts!FlattenSeq(input)
  BY GotFacts DEF StreamsType, Got
<1>2. ~broken => \E rest \in Text : Got \o rest = Source
  BY <1>1 DEF Origin
<1>3. ~broken => Texts!IsPrefix(Got, Source)
  BY <1>1, <1>2, PrefixOfSource
<1>4. mode = "readall" /\ eof /\ ~dropped /\ ~broken => Got = Source /\ outBuffer = <<>>
  BY <1>1, TextFacts DEF Origin
<1>5. ~short =>
        IF failures = 0 /\ ~panicked THEN delivered \o outBuffer = Texts!FlattenSeq(Rewritten)
        ELSE \A x \in Texts!ToSet(WholeLines(delivered \o outBuffer)) : x \in Texts!ToSet(Rewritten)
  BY LinesFollow, Zenon
<1> QED
  BY <1>1, <1>3, <1>4, <1>5, Zenon DEF ReadInOrder

\* The buffers of the processers, the writers and the readers hold texts, and the
\* lines given to the nested writer are whole lines.
THEOREM StreamsTypeCorrect == StreamsSpec => []StreamsType
<1>1. StreamsInit => StreamsType
  BY StreamsTypeInit
<1>2. StreamsType /\ [StreamsNext]_streamVars => StreamsType'
  BY StreamsTypeNext
<1> QED
  BY <1>1, <1>2, PTL DEF StreamsSpec

\* Whatever the chunks, the processers, their callbacks' failures and the interleaving
\* of the Writes, the nested writer gets lines that were written, whole, rewritten by
\* each processer, none twice; in order if no Writes overlap; all if nothing failed.
\* This as long as no Write was given bytes that an earlier one had written over.
THEOREM LinesAreWhole == StreamsSpec => []LinesWhole
<1>1. StreamsInit => WriteInv
  BY WriteInvInit
<1>2. StreamsType /\ WriteInv /\ [StreamsNext]_streamVars => WriteInv'
  BY WriteInvNext
<1>3. StreamsType /\ WriteInv => LinesWhole
  BY WholeFollows
<1> QED
  BY <1>1, <1>2, <1>3, StreamsTypeCorrect, PTL DEF StreamsSpec

\* Whatever the sizes of the Reads, a reader whose nested reader fills each slice
\* delivers the rewritten lines of what it took of its source, in order; after a failure,
\* only such lines.  What it took is the source up to some byte, and all of it when a
\* buffer reader answers io.EOF, if the nested reader neither failed nor gave bytes
\* with io.EOF.
THEOREM ReadsAreInOrder == StreamsSpec => []ReadInOrder
<1>1. StreamsInit => ReadInv /\ Origin
  BY ReadInvInit, OriginInit
<1>2. StreamsType /\ ReadInv /\ [StreamsNext]_streamVars => ReadInv'
  BY ReadInvNext
<1>3. StreamsType /\ Origin /\ [StreamsNext]_streamVars => Origin'
  BY OriginNext
<1>4. StreamsType /\ ReadInv /\ Origin => ReadInOrder
  BY OrderFollows
<1> QED
  BY <1>1, <1>2, <1>3, <1>4, StreamsTypeCorrect, PTL DEF StreamsSpec
=============================================================================
