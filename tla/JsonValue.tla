----------------------------- MODULE JsonValue -----------------------------
(***************************************************************************)
(* JSON values in memory (src/json/json_internal.h, json_dom.c), with the  *)
(* context each node is allocated in, and the JSON pointers that find a    *)
(* node (json_pointer.c).  A value is a tree: a child belongs to one       *)
(* parent, which is what the callers of json_dom.h must see to.            *)
(*                                                                         *)
(* A token of a pointer is its text between two slashes.  Capacities, key  *)
(* and element arrays and the width of numbers are left out; a number is   *)
(* its lexeme, of which "1" and "1.0" are the same number.                 *)
(***************************************************************************)
EXTENDS Integers, SequencesExt

Containers == {"ARRAY", "OBJECT"}

Node(type, ctx, lit, kids) == [type |-> type, ctx |-> ctx, lit |-> lit, kids |-> kids]
\* A member of an object, an element (without a key) of an array.
Kid(key, value) == [key |-> key, value |-> value]
\* gtext_json_pointer_get that finds nothing.
Missing == Node("MISSING", 0, "", <<>>)

RECURSIVE Contexts(_), InContext(_, _), Freed(_), NodeAt(_, _), With(_, _, _),
          Locations(_), Equal(_, _)

Contexts(v) == {v.ctx} \union UNION {Contexts(v.kids[i].value) : i \in 1..Len(v.kids)}

\* json_value_clone.
InContext(v, ctx) ==
    [v EXCEPT !.ctx = ctx,
              !.kids = [i \in 1..Len(v.kids) |->
                           [v.kids[i] EXCEPT !.value = InContext(@, ctx)]]]

\* json_free_children_recursive: the contexts it frees, in order.
Freed(v) ==
    FlattenSeq([i \in 1..Len(v.kids) |->
        LET kid == v.kids[i].value
        IN  Freed(kid) \o IF kid.ctx # v.ctx THEN <<kid.ctx>> ELSE <<>>])

\* Nodes by their position.
NodeAt(v, loc) == IF loc = <<>> THEN v ELSE NodeAt(v.kids[Head(loc)].value, Tail(loc))
With(v, loc, w) ==
    IF loc = <<>> THEN w
    ELSE [v EXCEPT !.kids[Head(loc)].value = With(@, Tail(loc), w)]
Locations(v) ==
    {<<>>} \union UNION {{<<i>> \o l : l \in Locations(v.kids[i].value)} : i \in 1..Len(v.kids)}

-----------------------------------------------------------------------------
(* Equality as a patch tests it (json_value_equal).  gtext_json_equal is    *)
(* not this one: it tells an emptied container from one never filled.      *)

KeyAt(v, key) == SelectInSeq(v.kids, LAMBDA k : k.key = key)
HasKey(v, key) == v.type = "OBJECT" /\ KeyAt(v, key) # 0

SameNumber(a, b) == {a, b} = {"1", "1.0"} \/ a = b
Equal(a, b) ==
    /\ a.type = b.type /\ Len(a.kids) = Len(b.kids)
    /\ IF a.type = "NUMBER" THEN SameNumber(a.lit, b.lit) ELSE a.lit = b.lit
    /\ \A i \in 1..Len(a.kids) :
          LET j == IF a.type = "OBJECT" THEN KeyAt(b, a.kids[i].key) ELSE i
          IN  j # 0 /\ Equal(a.kids[i].value, b.kids[j].value)

-----------------------------------------------------------------------------
(* Pointers.                                                               *)

NotIndex == -1
\* json_pointer_parse_index: no sign, no leading zero.
StrictIndex(t) == CASE t = "0" -> 0 [] t = "1" -> 1 [] t = "2" -> 2 [] OTHER -> NotIndex
\* json_pointer_decode_token refuses a tilde that escapes nothing.
Decodable(t) == t # "~"
Key(t) == IF t = "~1" THEN "/" ELSE t

\* json_pointer_evaluate on one token: an empty one is skipped, what looks like
\* an index is never a key.
Found(r, t) ==
    LET v == r.node
        i == StrictIndex(t)
    IN  CASE v.type = "MISSING" \/ t = "" -> r
          [] t # "" /\ i # NotIndex /\ v.type = "ARRAY" /\ i < Len(v.kids)
               -> [node |-> v.kids[i + 1].value, loc |-> Append(r.loc, i + 1)]
          [] t # "" /\ i = NotIndex /\ Decodable(t) /\ HasKey(v, Key(t))
               -> [node |-> v.kids[KeyAt(v, Key(t))].value, loc |-> Append(r.loc, KeyAt(v, Key(t)))]
          [] OTHER -> [r EXCEPT !.node = Missing]
Get(v, path) == FoldLeft(Found, [node |-> v, loc |-> <<>>], path)

-----------------------------------------------------------------------------
(* What a value says: for every node its place, its type and its literal.  *)
(* The reference for everything that changes one.                          *)

RECURSIVE Contents(_)
Contents(v) ==
    {[path |-> <<>>, type |-> v.type, lit |-> v.lit]} \union
    UNION {LET step == IF v.type = "ARRAY" THEN <<"", i>> ELSE <<v.kids[i].key, 0>>
           IN  {[e EXCEPT !.path = <<step>> \o @] : e \in Contents(v.kids[i].value)}
           : i \in 1..Len(v.kids)}

RECURSIVE WellFormedValue(_)
WellFormedValue(v) ==
    /\ v.type \in Containers \union {"NULL", "STRING", "NUMBER"}
    /\ v.type \in Containers => v.lit = ""
    /\ v.type \notin Containers => v.kids = <<>>
    /\ \A i \in 1..Len(v.kids) :
          /\ WellFormedValue(v.kids[i].value)
          /\ v.type = "ARRAY" => v.kids[i].key = ""
          /\ v.type = "OBJECT" => KeyAt(v, v.kids[i].key) = i
=============================================================================
