------------------------------ MODULE JsonDom ------------------------------
(***************************************************************************)
(* The values a program holds and what json_dom.h lets it do with them     *)
(* (src/json/json_dom.c, json_patch.c).  A value is created or parsed in a *)
(* context of its own.  Put into a container it keeps its context: one     *)
(* tree holds nodes of many contexts, and who frees a node must free the   *)
(* contexts below it, each once.                                           *)
(*                                                                         *)
(* The program follows the rules of json_dom.h: it gives a value to one    *)
(* parent, and then holds it no more, and frees what it holds.  Every call *)
(* is one step; allocations may fail.                                      *)
(***************************************************************************)
EXTENDS JsonPatch

CONSTANTS
    Slots,       \* where the program keeps its values
    Ctx,         \* contexts, in the order they are created: 1..n
    Documents,   \* what it parses
    Patches, MergePatches,
    Policies,    \* of gtext_json_object_merge
    MaxKids, MaxNodes,
    Starves      \* may an allocation fail?

ASSUME DomAssumption ==
    /\ Starves \in BOOLEAN /\ Ctx \subseteq Nat /\ MaxKids \in Nat /\ MaxNodes \in Nat

VARIABLES
    held,    \* the value in each slot, or Missing
    made,    \* the number of contexts created
    live,    \* the contexts that are not freed
    broken,  \* "no", or why nothing can be said of the values any more
    call,    \* the last call: its name, the slot and the patch it was given
    status

vars == <<held, made, live, broken, call, status>>

Keys == {"a", "b"}
Full(s) == held[s] # Missing
Hold(s, v) == held' = [held EXCEPT ![s] = v]
Called(name, s, arg) == call' = [name |-> name, slot |-> s, arg |-> arg, starved |-> FALSE]
\* A call in which an allocation failed.
CalledStarved(name, s, arg) ==
    Starves /\ call' = [name |-> name, slot |-> s, arg |-> arg, starved |-> TRUE]
Returns(name, st) == Called(name, "none", "none") /\ status' = st
Refuses(name, st) == Returns(name, st) /\ UNCHANGED <<held, made, live, broken>>
NoMemory(c) == Starves /\ Refuses(c, "OOM")

\* json_context_free on each of a sequence of contexts.
Free(ctxs) ==
    /\ live' = live \ ToSet(ctxs)
    /\ broken' = IF ToSet(ctxs) \subseteq live /\ Len(ctxs) = Cardinality(ToSet(ctxs))
                 THEN broken ELSE "freed"
KeepContexts == UNCHANGED <<live, broken>>
NewContext == /\ made + 1 \in Ctx
              /\ made' = made + 1 /\ live' = live \union {made + 1} /\ UNCHANGED broken

-----------------------------------------------------------------------------
(* Values come and go.                                                     *)

\* gtext_json_new_*, gtext_json_parse: a value in a new context.
New(s, document) ==
    \/ /\ ~Full(s) /\ NewContext
       /\ Hold(s, InContext(document, made + 1)) /\ Returns("new", "OK")
    \/ ~Full(s) /\ NoMemory("new")

\* gtext_json_clone.
CloneValue(s, t) ==
    \/ /\ ~Full(s) /\ Full(t) /\ NewContext
       /\ Hold(s, InContext(held[t], made + 1)) /\ Returns("clone", "OK")
    \/ ~Full(s) /\ Full(t) /\ NoMemory("clone")

\* gtext_json_free.
FreeValue(s) ==
    /\ Full(s) /\ Free(Append(Freed(held[s]), held[s].ctx))
    /\ Hold(s, Missing) /\ Returns("free", "OK") /\ UNCHANGED made

-----------------------------------------------------------------------------
(* Containers.  The program reaches one inside a value it holds.           *)

\* Faulty: the parent's own context is freed with the child.
DroppedAlways(parent, old) == Append(Freed(old), old.ctx)
\* What is freed as a child leaves its parent: nothing if it is in the parent's
\* own context, where it stays until that is freed.
Dropped(parent, old) ==
    IF old.ctx # parent.ctx THEN Append(Freed(old), old.ctx) ELSE <<>>

\* The value in slot c goes to the container at loc, which becomes w.
Takes(s, loc, w, c, name) ==
    /\ held' = [held EXCEPT ![s] = With(held[s], loc, w), ![c] = Missing]
    /\ Returns(name, "OK") /\ UNCHANGED made

\* gtext_json_array_push, gtext_json_array_insert: i is the new position.
ArrayInsert(s, loc, i, c) ==
    LET arr == NodeAt(held[s], loc)
    IN  /\ arr.type = "ARRAY" /\ s # c /\ Full(c) /\ Len(arr.kids) < MaxKids
        /\ \/ /\ i <= Len(arr.kids) + 1
              /\ Takes(s, loc, [arr EXCEPT !.kids = InsertAt(@, i, Kid("", held[c]))], c, "insert")
              /\ KeepContexts
           \/ i > Len(arr.kids) + 1 /\ Refuses("insert", "INVALID")
           \/ NoMemory("insert")

\* gtext_json_array_set.
ArraySet(s, loc, i, c) ==
    LET arr == NodeAt(held[s], loc)
    IN  /\ arr.type = "ARRAY" /\ s # c /\ Full(c)
        /\ IF i <= Len(arr.kids)
           THEN /\ Takes(s, loc, [arr EXCEPT !.kids[i].value = held[c]], c, "set")
                /\ Free(Dropped(arr, arr.kids[i].value))
           ELSE Refuses("set", "INVALID")

\* gtext_json_array_remove, gtext_json_object_remove.
Removal(s, loc, i) ==
    LET v == NodeAt(held[s], loc)
    IN  /\ v.type \in Containers
        /\ IF i \in 1..Len(v.kids)
           THEN /\ Hold(s, With(held[s], loc, [v EXCEPT !.kids = RemoveAt(@, i)]))
                /\ Free(Dropped(v, v.kids[i].value))
                /\ Returns("remove", "OK") /\ UNCHANGED made
           ELSE Refuses("remove", "INVALID")

\* gtext_json_object_put.
ObjectPut(s, loc, key, c) ==
    LET obj == NodeAt(held[s], loc)
    IN  /\ obj.type = "OBJECT" /\ s # c /\ Full(c)
        /\ \/ /\ Takes(s, loc, Put(obj, key, held[c]), c, "put")
              /\ IF HasKey(obj, key) THEN Free(Dropped(obj, obj.kids[KeyAt(obj, key)].value))
                 ELSE KeepContexts
           \/ ~HasKey(obj, key) /\ NoMemory("put")

BothObjects(v, j, kid) == j # 0 /\ v.kids[j].value.type = "OBJECT" /\ kid.value.type = "OBJECT"
\* Faulty: the value itself is put into the target.
GraftedUncloned(v, w) == w
Grafted(v, w) == InContext(w, v.ctx)
\* gtext_json_object_merge, one member of the source; r is [node, freed, status].
RECURSIVE MergedInto(_, _, _)
Member(r, kid, policy) ==
    LET v == r.node
        j == KeyAt(v, kid.key)
        both == BothObjects(v, j, kid)
        sub  == MergedInto(v.kids[j].value, kid.value, policy)
    IN  CASE r.status # "OK" -> r
          [] r.status = "OK" /\ j = 0
               -> [r EXCEPT !.node.kids = Append(@, Kid(kid.key, Grafted(v, kid.value)))]
          [] r.status = "OK" /\ j # 0 /\ policy = "ERROR" -> [r EXCEPT !.status = "DUPKEY"]
          [] r.status = "OK" /\ both /\ policy # "ERROR"
               -> [node |-> [v EXCEPT !.kids[j].value = sub.node],
                   freed |-> r.freed \o sub.freed, status |-> sub.status]
          [] r.status = "OK" /\ j # 0 /\ ~both /\ policy = "LAST"
               -> [r EXCEPT !.node.kids[j].value = Grafted(v, kid.value),
                            !.freed = @ \o Dropped(v, v.kids[j].value)]
          [] OTHER -> r
MergedInto(v, source, policy) ==
    FoldLeft(LAMBDA r, kid : Member(r, kid, policy),
             [node |-> v, freed |-> <<>>, status |-> "OK"], source.kids)
\* An allocation fails at any member: what was merged before it stays.
ObjectMerge(s, t, policy) ==
    /\ s # t /\ Full(s) /\ Full(t)
    /\ held[s].type = "OBJECT" /\ held[t].type = "OBJECT"
    /\ \E n \in 0..Len(held[t].kids) :
          LET whole == n = Len(held[t].kids)
              r == MergedInto(held[s], [held[t] EXCEPT !.kids = SubSeq(@, 1, n)], policy)
          IN  /\ whole \/ (Starves /\ r.status = "OK")
              /\ Hold(s, r.node) /\ Free(r.freed)
              /\ Called("object_merge", s, [source |-> t, policy |-> policy])
              /\ status' = (IF whole THEN r.status ELSE "OOM") /\ UNCHANGED made

-----------------------------------------------------------------------------
(* Patches.  They are applied to a clone in a context of its own, which is *)
(* gone when the call returns.                                             *)

Replaced(s, new) ==
    \/ Hold(s, CopiedBack(held[s], new)) /\ status' = "OK"
    \/ Starves /\ status' = "TORN" /\ \E torn \in TornCopies(held[s], new) : Hold(s, torn)

\* gtext_json_patch_apply.
PatchApply(s, patch) ==
    LET clone == InContext(held[s], 0)
        new   == Patched(clone, patch)
    IN  /\ Full(s) /\ UNCHANGED <<made, live, broken>>
        /\ \/ new = Failed /\ Called("patch", s, patch) /\ status' = "INVALID" /\ UNCHANGED held
           \/ new # Failed /\ Called("patch", s, patch) /\ Replaced(s, new)
           \/ /\ CalledStarved("patch", s, patch) /\ UNCHANGED held
              /\ status' = "OOM" \/ (status' = "INVALID" /\ MayNotFind(clone, patch))

\* gtext_json_merge_patch.  A new member that does not get into the clone is
\* freed by gtext_json_free, and with it the clone's context, which the caller
\* frees once more.
MergePatch(s, p) ==
    /\ Full(s) /\ Called("merge", s, p) /\ UNCHANGED <<made, live>>
    /\ \/ Replaced(s, Merged(InContext(held[s], 0), p)) /\ UNCHANGED broken
       \/ Starves /\ status' = "OOM" /\ UNCHANGED <<held, broken>>
       \/ Starves /\ AddsMember(held[s], p) /\ status' = "OOM" /\ broken' = "merge" /\ UNCHANGED held

Init ==
    /\ held = [s \in Slots |-> Missing] /\ made = 0 /\ live = {} /\ broken = "no"
    /\ call = [name |-> "none", slot |-> "none", arg |-> "none", starved |-> FALSE] /\ status = "OK"

Nodes(v) == Cardinality(Locations(v))
Next == broken = "no" /\ \E s \in Slots :
    \/ \E d \in Documents : New(s, d)
    \/ FreeValue(s)
    \/ \E p \in Patches : PatchApply(s, p)
    \/ \E p \in MergePatches : MergePatch(s, p)
    \/ \E t \in Slots : CloneValue(s, t) \/ \E policy \in Policies : ObjectMerge(s, t, policy)
    \/ \E loc \in Locations(held[s]) :
          \/ \E i \in 1..(MaxKids + 1) :
                \/ Removal(s, loc, i)
                \/ \E c \in Slots : ArrayInsert(s, loc, i, c) \/ ArraySet(s, loc, i, c)
          \/ \E key \in Keys : \E c \in Slots : ObjectPut(s, loc, key, c)
Spec == Init /\ [][Next]_vars

\* Bounds for TLC: the nodes of all values together, and no call after a patch
\* (it leaves a value in one context, like one that was parsed).
Ended == call.name \in {"patch", "merge"}
Small == FoldFunction(+, 0, [s \in Slots |-> Nodes(held[s])]) <= MaxNodes /\ ~Ended

-----------------------------------------------------------------------------
(* Properties.                                                             *)

\* The values are well formed: members of an object have different keys,
\* however they came there (parsed, put, merged or patched).
MembersDiffer ==
    /\ \A s \in Slots : Full(s) => WellFormedValue(held[s])
    /\ made \in Nat /\ live \subseteq 1..made /\ broken \in {"no", "freed", "merge"}

\* No node of a value the program holds is in a context that was freed, and no
\* context is freed twice: a child of another context goes with its parent, a
\* child of its parent's context stays until that goes (json_array_set,
\* json_object_put, gtext_json_object_merge, json_free_children_recursive).
HeldIsLive ==
    broken # "freed" /\ \A s \in Slots : Full(s) => Contexts(held[s]) \subseteq live

\* Values do not share contexts: to free one leaves the others whole.
ValuesAreApart ==
    \A s, t \in Slots : (s # t /\ Full(s) /\ Full(t)) => Contexts(held[s]) \intersect Contexts(held[t]) = {}

\* A patch that succeeds has done what RFC 6902 says of it, and one that the code calls
\* invalid fails by the RFC too, unless memory ran out on the way: a lookup that finds
\* no memory is reported as a path that is not there.
PatchFollowsRfc ==
    [][call'.name = "patch" =>
        LET s == call'.slot
            C == Contents(held[s])
        IN  PromisedAll(C, call'.arg) =>
              /\ status' = "OK" => Contents(held'[s]) = Says(C, call'.arg)
              /\ status' = "INVALID" => Says(C, call'.arg) = Gone \/ call'.starved]_vars

\* A merge patch does what RFC 7386 says of it, unless it has a null below a
\* member the target lacks.
MergePatchFollowsRfc ==
    [][(call'.name = "merge" /\ status' = "OK") =>
        LET s == call'.slot
            C == Contents(held[s])
            P == Contents(call'.arg)
        IN  (\A l \in Leaves(P) : l.type = "NULL" =>
                \/ Len(l.path) <= 1 \/ Present(C, Front(l.path))) =>
            Contents(held'[s]) = Says7386(C, P)]_vars
=============================================================================
