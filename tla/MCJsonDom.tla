----------------------------- MODULE MCJsonDom -----------------------------
(* JsonDom on small documents and patches, for TLC.                        *)
EXTENDS JsonDom

Text(l)  == Node("STRING", 0, l, <<>>)
Num(l)   == Node("NUMBER", 0, l, <<>>)
NullNode == Node("NULL", 0, "", <<>>)
Arr(vs)  == Node("ARRAY", 0, "", FoldLeft(LAMBDA k, v : Append(k, Kid("", v)), <<>>, vs))
Obj(ks, vs) == Node("OBJECT", 0, "", FoldLeft(LAMBDA k, v : Append(k, Kid(ks[Len(k) + 1], v)), <<>>, vs))

Docs == {Num("1"), Arr(<<>>), Arr(<<Num("1"), Text("x")>>), Obj(<<"a">>, <<Obj(<<"a">>, <<Text("y")>>)>>),
         Obj(<<"a", "b">>, <<Arr(<<Text("x")>>), Num("1.0")>>)}

Op(op, path, from, value) == [op |-> op, path |-> path, from |-> from, value |-> value]
None == NullNode
AddOp(path, value) == Op("add", path, <<>>, value)
RemoveOp(path) == Op("remove", path, <<>>, None)
MoveOp(from, path) == Op("move", path, from, None)
CopyOp(from, path) == Op("copy", path, from, None)
TestOp(path, value) == Op("test", path, <<>>, value)
ReplaceOp(path, value) == Op("replace", path, <<>>, value)

SomePaths == {<<>>, <<"">>, <<"~1">>, <<"0">>, <<"-">>, <<"01">>, <<"a", "0">>, <<"a", "", "a">>}
Places == {<<"a">>, <<"b">>, <<"0">>, <<"1">>, <<"a", "0">>, <<"a", "a">>}
Single == {<<AddOp(p, Obj(<<"b">>, <<Num("1")>>))>> : p \in SomePaths}
    \union {<<RemoveOp(p)>> : p \in SomePaths}
    \union {<<ReplaceOp(p, Text("z"))>> : p \in {<<"">>, <<"b">>, <<"a", "0">>}}
    \union {<<TestOp(p, Num("1"))>> : p \in {<<>>, <<"b">>, <<"0">>}}
    \union {<<MoveOp(f, p)>> : f \in Places, p \in Places}
    \union {<<MoveOp(f, <<"-">>)>> : f \in {<<"0">>, <<"1">>, <<"1", "a">>}}
    \union {<<MoveOp(<<"0", "a">>, <<"1">>)>>, <<MoveOp(<<"1", "a">>, <<"0">>)>>}
    \union {<<CopyOp(<<"a">>, p)>> : p \in {<<"b">>, <<"0">>, <<"a", "0">>}}
Several == {<<AddOp(<<"0">>, Num("1")), TestOp(<<"1">>, Num("1.0")), RemoveOp(<<"0">>)>>,
            <<CopyOp(<<"a">>, <<"b">>), MoveOp(<<"a", "0">>, <<"b", "0">>), TestOp(<<"a">>, Arr(<<>>))>>,
            <<RemoveOp(<<"a">>), AddOp(<<"a">>, Arr(<<>>)), AddOp(<<"a", "-">>, NullNode), AddOp(<<"a", "0">>, Text("y"))>>,
            <<ReplaceOp(<<"b", "a">>, Num("1")), MoveOp(<<"b">>, <<"a">>), TestOp(<<"a", "a">>, Num("1.0"))>>,
            <<AddOp(<<"b">>, Num("1")), TestOp(<<"b">>, Text("y"))>>}
AllPatches == Single \union Several
AllMerges == {Num("1"), Arr(<<NullNode>>), Obj(<<"a">>, <<NullNode>>),
              Obj(<<"a", "b">>, <<Obj(<<"b">>, <<Num("1")>>), Obj(<<"a">>, <<NullNode>>)>>),
              Obj(<<"b", "a">>, <<Arr(<<Obj(<<"a">>, <<NullNode>>)>>), Obj(<<"a">>, <<NullNode>>)>>)}

MCSymmetry == Permutations(Slots)
MCView == <<held, made, live, broken, Ended>>
=============================================================================
