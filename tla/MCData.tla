------------------------------- MODULE MCData -------------------------------
(* Patches of a tree, or streams of lines, for TLC: a behaviour is of one   *)
(* of the two, and the other stays in its initial state.                    *)
EXTENDS Patcher, LineStreams, TLC

VARIABLES part

\* texts of bytes 1 and 2, 0 ending the lines
MCChunks == {<<1>>, <<0>>, <<1, 0>>, <<2, 0, 1>>, <<0, 2, 0>>, <<1, 1>>}
\* a caller may have a text to write in two pieces
MCFollowing == {<<>>, <<2, 0>>}
MCSource == <<1, 0, 2, 1, 0, 0, 2>>
MCMark   == <<11, 12>>
MCBytes  == {0, 1, 2, 9, 11, 12}

-----------------------------------------------------------------------------
(* The tree {a: {l: [1, 2], n: null}}, its list an []int or an []any, and   *)
(* patches of it.                                                          *)

Map(f)  == (<<>> :> AMap) @@ f
Of(v)   == Leaf(Scalar(v))
Nothing == Leaf(Nil)
ListOf3 == Leaf(Slice(2, 1, "int"))
a == <<"a">>
b == <<"b">>
l == <<"a", "l">>
n == <<"a", "n">>

op(kind, from, path, value) == [op |-> kind, from |-> from, path |-> path, value |-> value]
test(path, value, thenOps, elseOps, swallow) ==
  op("test", a, path, value) @@ [then |-> thenOps, else |-> elseOps, swallowError |-> swallow]

MCOperations ==
  { op("add", a, l, Of(1)), op("add", a, <<"b", "l">>, Of(2)), op("add", a, b, Of(2)),
    op("add", a, l, Of(4)),
    op("add", a, b, Map(<<"l">> :> Slice(2, 1, "int"))), op("add", a, l \o <<"x">>, Of(1)),
    op("default", a, n, Of(1)), op("remove", a, l, Nothing),
    op("replace", a, n, Of(2)), op("replace", a, b, Of(1)),
    op("move", a, b, Nothing), op("move", a, <<"a", "x">>, Nothing),
    op("copy", a, b, Nothing), op("copy", l, b, Nothing), op("copy", b, l, Nothing),
    test(l, ListOf3, <<>>, <<op("add", a, l, Of(1))>>, FALSE),
    op("remove", a, <<>>, Nothing),
    test(b, Of(2), <<op("remove", a, <<>>, Nothing)>>, <<>>, TRUE),
    test(b, Of(2), <<op("remove", a, l, Nothing)>>, <<>>, FALSE) }

MCKeys   == {"a", "b", "l", "n", "x"}
MCKindOf == [v \in 1 .. 4 |-> IF v = 4 THEN "string" ELSE "int"]

MCBases ==
  { [tree |-> Map((a :> AMap) @@ (l :> Slice(1, 2, elem)) @@ (n :> Nil)),
     heap |-> << <<1, 2>> \o room, <<3>> >>] :
       room \in {<<>>, <<Unset>>}, elem \in {"int", "any"} }

-----------------------------------------------------------------------------
MCInit ==
  /\ part \in {"patches", "streams"}
  /\ PatcherInit /\ StreamsInit
  /\ part = "patches" => mode = "write"
  /\ part = "streams" => Tight

MCNext ==
  \/ part = "patches" /\ PatcherNext /\ UNCHANGED <<part, streamVars>>
  \/ part = "streams" /\ StreamsNext /\ UNCHANGED <<part, patcherVars>>

MCSpec == MCInit /\ [][MCNext]_<<part, patcherVars, streamVars>>
=============================================================================
