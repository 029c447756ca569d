----------------------------- MODULE JsonPatch -----------------------------
(***************************************************************************)
(* JSON Patch and JSON Merge Patch as functions on values (json_patch.c):  *)
(* what the operations of a patch make of the clone they are applied to,   *)
(* and what is left of the original when the clone is copied back.  With   *)
(* every operation, what RFC 6902 and RFC 7386 say it means, as sets of    *)
(* places (Contents).                                                      *)
(*                                                                         *)
(* An operation is [op, path, from, value]; a path is a sequence of tokens.*)
(* Left out: operations that lack a field or name an unknown one, paths    *)
(* that begin with no slash (both fail).                                   *)
(***************************************************************************)
EXTENDS JsonValue

\* An operation that fails gives no value.
Failed == Missing

-----------------------------------------------------------------------------
(* The operations.                                                         *)

\* strtoull, as the operations read the last token: nothing at all is a zero.
Index(t) == CASE t = "" -> 0 [] t = "01" -> 1 [] OTHER -> StrictIndex(t)

\* json_patch_find_parent_and_token.
Parent(v, path) == Get(v, Front(path))
Nowhere(path)   == path \in {<<>>, <<"">>}

\* Faulty: the key is not looked for.
PutAppends(o, key, w) == [o EXCEPT !.kids = Append(@, Kid(key, w))]
Put(o, key, w) ==
    IF HasKey(o, key) THEN [o EXCEPT !.kids[KeyAt(o, key)].value = w]
    ELSE [o EXCEPT !.kids = Append(@, Kid(key, w))]

\* json_patch_add.
PatchAdd(v, path, value) ==
    IF Nowhere(path) \/ Parent(v, path).node.type \notin Containers THEN Failed
    ELSE LET parent == Parent(v, path)
             token  == Last(path)
             w      == InContext(value, parent.node.ctx)
             at     == IF token = "-" THEN Len(parent.node.kids) ELSE Index(token)
         IN  CASE parent.node.type = "OBJECT" -> With(v, parent.loc, Put(parent.node, Key(token), w))
               [] parent.node.type = "ARRAY" /\ at # NotIndex /\ at <= Len(parent.node.kids)
                    -> With(v, parent.loc, [parent.node EXCEPT !.kids = InsertAt(@, at + 1, Kid("", w))])
               [] OTHER -> Failed

\* json_patch_remove.
PatchRemove(v, path) ==
    IF Nowhere(path) \/ Parent(v, path).node.type \notin Containers THEN Failed
    ELSE LET parent == Parent(v, path)
             at     == IF parent.node.type = "ARRAY" THEN Index(Last(path)) + 1
                       ELSE KeyAt(parent.node, Key(Last(path)))
         IN  IF at \notin 1..Len(parent.node.kids) THEN Failed
             ELSE With(v, parent.loc, [parent.node EXCEPT !.kids = RemoveAt(@, at)])

\* Faulty: an element is inserted before the one it should replace.
PatchReplaceAdds(v, path, value) ==
    IF Get(v, path).node = Missing THEN Failed ELSE PatchAdd(v, path, value)
\* json_patch_replace.
PatchReplace(v, path, value) ==
    IF Get(v, path).node = Missing \/ PatchRemove(v, path) = Failed THEN Failed
    ELSE PatchAdd(PatchRemove(v, path), path, value)

\* json_patch_copy.
PatchCopy(v, from, path) ==
    IF Get(v, from).node = Missing THEN Failed ELSE PatchAdd(v, path, Get(v, from).node)

\* json_patch_move: the value is added before it is removed.
PatchMove(v, from, path) ==
    IF IsStrictPrefix(from, path) \/ PatchCopy(v, from, path) = Failed THEN Failed
    ELSE PatchRemove(PatchCopy(v, from, path), from)

\* json_patch_test.
PatchTest(v, path, value) ==
    IF Get(v, path).node # Missing /\ Equal(Get(v, path).node, value) THEN v ELSE Failed

\* The body of the loop of gtext_json_patch_apply.
Applied(v, op) ==
    CASE v = Failed         -> Failed
      [] v # Failed /\ op.op = "add"     -> PatchAdd(v, op.path, op.value)
      [] v # Failed /\ op.op = "remove"  -> PatchRemove(v, op.path)
      [] v # Failed /\ op.op = "replace" -> PatchReplace(v, op.path, op.value)
      [] v # Failed /\ op.op = "move"    -> PatchMove(v, op.from, op.path)
      [] v # Failed /\ op.op = "copy"    -> PatchCopy(v, op.from, op.path)
      [] v # Failed /\ op.op = "test"    -> PatchTest(v, op.path, op.value)
Patched(v, patch) == FoldLeft(Applied, v, patch)

\* The pointers that an operation evaluates.  json_pointer_evaluate decodes each token
\* into memory of its own, and finds nothing where there is none.
Evaluated(op) ==
    LET above == IF Nowhere(op.path) THEN <<>> ELSE Front(op.path)
    IN  CASE op.op \in {"add", "remove"}   -> {above}
          [] op.op \in {"replace", "test"} -> {op.path}
          [] op.op \in {"move", "copy"}    -> {op.from, above}
\* Does the patch come to an operation that reports such a lack of memory as a path
\* that is not there?
MayNotFind(v, patch) ==
    \E k \in 1..Len(patch) : /\ Patched(v, SubSeq(patch, 1, k - 1)) # Failed
                             /\ \E path \in Evaluated(patch[k]) : ToSet(path) \ {""} # {}

\* json_value_copy_content: of the old value only the node itself stays.
CopiedBack(old, new) == [InContext(new, old.ctx) EXCEPT !.ctx = old.ctx]
\* An allocation fails on the way: the string or number is empty or the old one,
\* the container holds the children cloned so far.
TornCopies(old, new) ==
    IF new.type \in Containers
    THEN {[CopiedBack(old, new) EXCEPT !.kids = SubSeq(@, 1, n)] : n \in 0..(Len(new.kids) - 1)}
    ELSE {Node(new.type, old.ctx, IF old.type = new.type THEN old.lit ELSE "", <<>>)}

-----------------------------------------------------------------------------
(* Merge patch.                                                            *)

RECURSIVE Merged(_, _)
\* One member of the patch.
MergedMember(v, key, p) ==
    CASE p.type = "NULL"  -> IF HasKey(v, key) THEN [v EXCEPT !.kids = RemoveAt(@, KeyAt(v, key))] ELSE v
      [] p.type # "NULL" /\ HasKey(v, key)
           -> [v EXCEPT !.kids[KeyAt(v, key)].value = Merged(@, p)]
      [] OTHER -> [v EXCEPT !.kids = Append(@, Kid(key, InContext(p, v.ctx)))]
\* Faulty: an array keeps its elements as it becomes an object.
AsObjectKept(v) == IF v.type = "OBJECT" THEN v ELSE [v EXCEPT !.type = "OBJECT", !.lit = ""]
AsObject(v) == IF v.type = "OBJECT" THEN v ELSE Node("OBJECT", v.ctx, "", <<>>)
\* json_merge_patch_recursive.
Merged(v, p) ==
    IF p.type # "OBJECT" THEN InContext(p, v.ctx)
    ELSE FoldLeft(LAMBDA w, kid : MergedMember(w, kid.key, kid.value),
                  AsObject(v), p.kids)

\* The patch has a member its target lacks, at a place the merge comes to.
RECURSIVE AddsMember(_, _)
AddsMember(v, p) ==
    p.type = "OBJECT" /\ \E i \in 1..Len(p.kids) :
        LET q == p.kids[i]
        IN  /\ q.value.type # "NULL"
            /\ IF HasKey(v, q.key) THEN AddsMember(v.kids[KeyAt(v, q.key)].value, q.value) ELSE TRUE

-----------------------------------------------------------------------------
(* What RFC 6902 says, on the contents of a document.                      *)

Gone == {}
TypeAt(C, p)  == (CHOOSE e \in C : e.path = p).type
Present(C, p) == \E e \in C : e.path = p
Under(C, p)   == {[e EXCEPT !.path = SubSeq(@, Len(p) + 1, Len(@))] : e \in {f \in C : IsPrefix(p, f.path)}}
Elements(C, p) == Cardinality({e \in C : Len(e.path) = Len(p) + 1 /\ IsPrefix(p, e.path)})
StepIn(C, p, t) ==
    IF Present(C, p) /\ TypeAt(C, p) = "ARRAY"
    THEN <<"", IF t = "-" THEN Elements(C, p) + 1 ELSE StrictIndex(t) + 1>>
    ELSE <<Key(t), 0>>
Place(C, path) == FoldLeft(LAMBDA p, t : Append(p, StepIn(C, p, t)), <<>>, path)
\* The elements of the array at p from n on move by d.
Shifted(C, p, n, d) ==
    {IF Len(e.path) > Len(p) /\ IsPrefix(p, e.path) /\ e.path[Len(p) + 1][2] >= n
     THEN [e EXCEPT !.path[Len(p) + 1][2] = @ + d] ELSE e : e \in C}
Removed(C, p) ==
    IF p = <<>> \/ ~Present(C, p) THEN Gone
    ELSE LET rest == {e \in C : ~IsPrefix(p, e.path)}
         IN  IF TypeAt(C, Front(p)) = "ARRAY" THEN Shifted(rest, Front(p), Last(p)[2], -1) ELSE rest
Added(C, p, S) ==
    IF p = <<>> \/ ~Present(C, Front(p)) THEN Gone
    ELSE LET here == {[e EXCEPT !.path = p \o @] : e \in S}
         IN  CASE TypeAt(C, Front(p)) = "OBJECT" -> {e \in C : ~IsPrefix(p, e.path)} \union here
               [] TypeAt(C, Front(p)) = "ARRAY" /\ Last(p)[2] \in 1..(Elements(C, Front(p)) + 1)
                    -> Shifted(C, Front(p), Last(p)[2], 1) \union here
               [] OTHER -> Gone
Normal(S) == {IF e.type = "NUMBER" /\ e.lit = "1.0" THEN [e EXCEPT !.lit = "1"] ELSE e : e \in S}

Says6902(C, op) ==
    LET p == Place(C, op.path)
        f == Place(C, op.from)
        S == Contents(op.value)
    IN  CASE C = Gone -> Gone
          [] C # Gone /\ op.op = "add"     -> Added(C, p, S)
          [] C # Gone /\ op.op = "remove"  -> Removed(C, p)
          [] C # Gone /\ op.op = "replace" -> IF Removed(C, p) = Gone THEN Gone ELSE Added(Removed(C, p), p, S)
          [] C # Gone /\ op.op = "copy"    -> IF Present(C, f) THEN Added(C, p, Under(C, f)) ELSE Gone
          [] C # Gone /\ op.op = "test"    -> IF Normal(Under(C, p)) = Normal(S) THEN C ELSE Gone
          [] C # Gone /\ op.op = "move"    ->
               IF Removed(C, f) = Gone \/ IsStrictPrefix(f, p) THEN Gone
               ELSE Added(Removed(C, f), Place(Removed(C, f), op.path), Under(C, f))
Says(C, patch) == FoldLeft(Says6902, C, patch)

\* The operations for which the code promises what the RFC says: it reads no
\* empty token and no key that looks like an index, and moves a value neither
\* onto itself or a place above it, nor where it matters for an index that the
\* value is added before it is removed: by then the source has another index
\* (it is at or after the target in one array), or the RFC reads the target's
\* index without the source (which is before it; the end of the array is the
\* same place either way).
Plain(path) == path # <<>> /\ \A k \in 1..Len(path) : path[k] \notin {"", "01", "~"}
KeysLookLikeKeys(C) == \A e \in C : \A k \in 1..Len(e.path) : StrictIndex(e.path[k][1]) = NotIndex
NotByIndex(C, path) == \A k \in 1..Len(path) :
    StrictIndex(path[k]) # NotIndex => ~Present(C, Place(C, SubSeq(path, 1, k - 1)))
                                    \/ TypeAt(C, Place(C, SubSeq(path, 1, k - 1))) # "OBJECT"
\* What is at q gets another index when an element comes to p, or goes from there.
Renumbers(C, p, q) ==
    /\ p # <<>> /\ IsPrefix(Front(p), q) /\ Len(p) <= Len(q)
    /\ Present(C, Front(p)) /\ TypeAt(C, Front(p)) = "ARRAY"
    /\ Last(p)[2] <= q[Len(p)][2]
Promised(C, op) ==
    /\ Plain(op.path) /\ NotByIndex(C, op.path)
    /\ op.op \in {"move", "copy"} => Plain(op.from) /\ NotByIndex(C, op.from)
    /\ op.op = "move" =>
          LET p == Place(C, op.path)
              f == Place(C, op.from)
          IN  /\ ~IsPrefix(op.path, op.from)
              /\ ~Renumbers(C, p, f)
              /\ Renumbers(C, f, p) => Front(f) = Front(p) /\ Last(op.path) = "-"
PromisedAll(C, patch) ==
    /\ KeysLookLikeKeys(C)
    /\ \A k \in 1..Len(patch) : Says(C, SubSeq(patch, 1, k - 1)) # Gone =>
                                    Promised(Says(C, SubSeq(patch, 1, k - 1)), patch[k])

-----------------------------------------------------------------------------
(* What RFC 7386 says: the patch names places; what is there is replaced,  *)
(* or removed if the patch says null; what it does not name stays.         *)

\* The places of a patch that are no objects, outside of arrays.
Leaves(P) == {e \in P : /\ e.type # "OBJECT"
                        /\ \A f \in P : f.type = "ARRAY" => ~IsStrictPrefix(f.path, e.path)}
Survives(C, e, P) ==
    /\ \A l \in Leaves(P) : ~IsPrefix(l.path, e.path)
    /\ \A o \in P : \A f \in C :
          (o.type = "OBJECT" /\ f.path = o.path /\ IsPrefix(f.path, e.path)) => f.type = "OBJECT"
Says7386(C, P) ==
    {e \in C : Survives(C, e, P)} \union (P \ {l \in Leaves(P) : l.type = "NULL"})
=============================================================================
