----------------------------- MODULE JsonParser -----------------------------
(***************************************************************************)
(* gtext_json_parse and gtext_json_parse_multiple (src/json/json_parser.c) *)
(* over the lexer of JsonLexer: recursive descent that builds a tree in    *)
(* one context.  The frames are the calls of json_parse_array and          *)
(* json_parse_object in progress, so a step is one turn of their loops, a  *)
(* call of json_parse_value, or the return of a failed call to its caller. *)
(*                                                                         *)
(* A caller of gtext_json_parse_multiple goes on behind what was consumed. *)
(* Every allocation may fail; a value refers to the caller's input or to a *)
(* copy (in-situ mode), which is not told apart but for what can fail.     *)
(*                                                                         *)
(* Left out: error positions and snippets, null arguments, sizes that      *)
(* overflow a size_t, the conversion of numbers.                           *)
(***************************************************************************)
EXTENDS JsonReading

CONSTANTS
    Texts,          \* the texts, each a sequence of lexemes
    Options,        \* [dup, inSitu, trailing, multiple]
    MaxDepth, MaxElems, MaxString,
    Starves         \* may an allocation fail?

Policies == {"ERROR", "FIRST_WINS", "LAST_WINS", "COLLECT"}
ASSUME ParserAssumption ==
    /\ {MaxDepth, MaxElems, MaxString} \subseteq Nat
    /\ Starves \in BOOLEAN
    /\ \A o \in Options : o.dup \in Policies /\ {o.inSitu, o.trailing, o.multiple} \subseteq BOOLEAN

VARIABLES
    text, opts,
    base,     \* bytes before the input of this call
    pc,       \* "idle" between calls; what is read next; "fail" while a failure returns
    at,       \* lexer.current_offset
    frames,   \* the containers being read, outermost first
    root,     \* the value read
    ctx,      \* the context the values are in
    result,   \* what the last call returned
    got,      \* history: the values it and the calls before it returned
    starved   \* history: an allocation has failed

caller == <<text, opts, base, got>>
vars   == <<caller, pc, at, frames, root, ctx, result, starved>>

-----------------------------------------------------------------------------
(* Values.                                                                 *)

NoKey == <<>>
Leaf(t)         == [type |-> "LEAF", lexeme |-> t.lexeme, kids |-> <<>>]
Container(kind, kids) == [type |-> kind, lexeme |-> <<>>, kids |-> kids]
Kid(key, value) == [key |-> key, value |-> value]
NoValue         == Container("NONE", <<>>)

\* read is history: the pairs in the order they were read.
Frame(kind, owns) == [kind |-> kind, owns |-> owns, kids |-> <<>>, read |-> <<>>, key |-> NoKey]
Top == Last(frames)

\* json_object_find_key: 0 when there is none.
KeyAt(kids, key) == SelectInSeq(kids, LAMBDA k : k.key = key)

\* GTEXT_JSON_DUPKEY_COLLECT: an array takes the new value, another value
\* becomes the first element of a new array.
Collected(old, new) ==
    IF old.type = "ARRAY" THEN Container("ARRAY", Append(old.kids, Kid(NoKey, new)))
    ELSE Container("ARRAY", <<Kid(NoKey, old), Kid(NoKey, new)>>)

\* Faulty: the key found again is added again.
WithPairAgain(kids, key, value) == Append(kids, Kid(key, value))
\* The pairs of an object after one more was read.
WithPair(kids, key, value) ==
    LET i == KeyAt(kids, key)
    IN  CASE i = 0                                  -> Append(kids, Kid(key, value))
          [] i # 0 /\ opts.dup = "LAST_WINS"        -> [kids EXCEPT ![i].value = value]
          [] i # 0 /\ opts.dup = "COLLECT"          -> [kids EXCEPT ![i].value = Collected(@, value)]
          [] OTHER                                  -> kids
Attached(f, v) ==
    IF f.kind = "ARRAY" THEN [f EXCEPT !.kids = Append(@, Kid(NoKey, v))]
    ELSE [f EXCEPT !.kids = WithPair(@, f.key, v), !.read = Append(@, Kid(f.key, v))]

-----------------------------------------------------------------------------
(* What every step does with the context, the position and the result.     *)

Bytes    == FlattenSeq(text)
Input    == SubSeq(Bytes, base + 1, Len(Bytes))
Next1(p) == Lex(Input, p, NoToken, FALSE)

\* gtext_json_free of a value of the parse: its context goes with it.  What is freed
\* twice is not told from what is freed once: NothingLeaks is about leaks only.
Free == ctx' = "freed"
Keep == UNCHANGED ctx

FailIn(fs, code) ==
    /\ pc' = "fail" /\ result' = code /\ frames' = fs
    /\ starved' = (starved \/ code = "OOM")
    /\ UNCHANGED <<caller, at, root>>
Fail(code) == FailIn(frames, code)
Starve == Starves /\ Fail("OOM")

\* Faulty: the tokens inside a container are looked at and not consumed.
GoBack(p, fs) == at' = (IF fs = <<>> THEN p ELSE at) /\ frames' = fs /\ UNCHANGED <<caller, starved>>
\* A token was read up to p.
Go(p, fs) == at' = p /\ frames' = fs /\ UNCHANGED <<caller, starved>>
\* A value is complete; fs are the containers still being read.
Receive(fs, v, p) ==
    IF fs = <<>> THEN Go(p, fs) /\ root' = v /\ pc' = "trailing" /\ UNCHANGED result
    ELSE /\ Go(p, [fs EXCEPT ![Len(fs)] = Attached(@, v)]) /\ UNCHANGED root
         /\ IF Last(fs).kind = "OBJECT" /\ opts.dup = "ERROR" /\ KeyAt(Last(fs).kids, Last(fs).key) # 0
            THEN pc' = "fail" /\ result' = "DUPKEY"
            ELSE pc' = "next" /\ UNCHANGED result

-----------------------------------------------------------------------------
(* json_parse_value, json_parse_array, json_parse_object.                  *)

Scalars == {"NULL", "TRUE", "FALSE", "STRING", "NUMBER", "NONFINITE"}
\* The value of a string is its lexeme without the quotes.
Size(t) == Len(t.lexeme) - 2
TooLong(t) == t.type = "STRING" /\ Size(t) > MaxString
Opens == [LBRACKET |-> "ARRAY", LBRACE |-> "OBJECT"]

\* json_parser_check_depth.
DeepEnough == Len(frames) >= MaxDepth
Enter(kind, p) ==
    IF DeepEnough THEN Fail("DEPTH") /\ Keep
    ELSE \/ /\ Go(p, Append(frames, Frame(kind, ctx = "none"))) /\ pc' = "next"
            /\ ctx' = "live" /\ UNCHANGED <<root, result>>
         \/ Starve /\ Keep
\* No room for the value in its container: json_parse_object frees the value
\* when its key is new, and with it the context of all; a value that COLLECT
\* cannot collect stays.
NoRoom(fs) ==
    /\ Starves /\ fs # <<>>
    /\ LET isNew == KeyAt(Last(fs).kids, Last(fs).key) = 0
       IN  /\ Last(fs).kind = "ARRAY" \/ isNew \/ opts.dup = "COLLECT"
           /\ IF Last(fs).kind = "OBJECT" /\ isNew THEN Free ELSE Keep
    /\ FailIn(fs, "OOM")
Leave(p) == LET outer == Front(frames)
            IN  (Receive(outer, Container(Top.kind, Top.kids), p) /\ Keep) \/ NoRoom(outer)

\* A scalar of the root creates its context.
TakeScalar(t) ==
    /\ ctx' = IF ctx = "none" THEN "live" ELSE ctx
    /\ Receive(frames, Leaf(t), t.at)

ReadValue ==
    LET t == Next1(at)
    IN  /\ pc = "value"
        /\ CASE t.status # "OK"                           -> Fail(t.status) /\ Keep
             [] t.status = "OK" /\ TooLong(t)             -> Fail("LIMIT") /\ Keep
             [] t.type \in Scalars /\ ~TooLong(t)
                  -> \/ TakeScalar(t) \/ (Starve /\ Keep) \/ NoRoom(frames)
                     \/ (t.type = "NONFINITE" /\ ctx = "live" /\ Starve /\ Free)
             [] t.type \in DOMAIN Opens                   -> Enter(Opens[t.type], t.at)
             [] OTHER                                     -> Fail("BAD_TOKEN") /\ Keep

\* json_parse_array_element: strings of any length; a scalar whose bytes cannot
\* be copied is freed, and with it the context of all.
Element(t) ==
    CASE t.status # "OK"              -> Fail(t.status) /\ Keep
      [] t.status = "OK" /\ Len(Top.kids) >= MaxElems -> Fail("LIMIT") /\ Keep
      [] t.type \in Scalars /\ Len(Top.kids) < MaxElems
           -> \/ TakeScalar(t) \/ (Starve /\ Keep)
              \/ (t.type \in {"STRING", "NUMBER", "NONFINITE"} /\ Starve /\ Free)
      [] t.type \in DOMAIN Opens /\ Len(Top.kids) < MaxElems -> Enter(Opens[t.type], t.at)
      [] OTHER                        -> Fail("BAD_TOKEN") /\ Keep

\* Faulty: the closer is taken whatever the options say.
TrailingCommaAlways(p) == Leave(p)
\* A closer behind a comma.
TrailingComma(p) == IF opts.trailing THEN Leave(p) ELSE Fail("BAD_TOKEN") /\ Keep

ReadElement ==
    LET t == Next1(at)
        u == Next1(t.at)
    IN  /\ pc = "next" /\ Top.kind = "ARRAY"
        /\ CASE t.type = "RBRACKET"    -> Leave(t.at)
             [] t.type # "RBRACKET" /\ Top.kids = <<>> -> Element(t)
             [] t.type = "COMMA" /\ Top.kids # <<>>
                  -> IF u.type = "RBRACKET" THEN TrailingComma(u.at) ELSE Element(u)
             [] OTHER -> Fail(IF t.status = "OK" THEN "BAD_TOKEN" ELSE t.status) /\ Keep

\* The key, the colon and the element limit; the value is read next.
Pair(t) ==
    LET c == Next1(t.at)
    IN  CASE t.status # "OK"                            -> Fail(t.status) /\ Keep
          [] t.status = "OK" /\ t.type # "STRING"       -> Fail("BAD_TOKEN") /\ Keep
          [] t.type = "STRING" /\ TooLong(t)            -> Fail("LIMIT") /\ Keep
          [] t.type = "STRING" /\ ~TooLong(t) /\ c.type # "COLON"
               -> Fail(IF c.status = "OK" THEN "BAD_TOKEN" ELSE c.status) /\ Keep
          [] t.type = "STRING" /\ ~TooLong(t) /\ c.type = "COLON" /\ Len(Top.kids) >= MaxElems
               -> Fail("LIMIT") /\ Keep
          [] OTHER -> \/ /\ Go(c.at, [frames EXCEPT ![Len(frames)].key = t.lexeme])
                         /\ pc' = "value" /\ UNCHANGED <<root, result>> /\ Keep
                      \/ Starve /\ Keep

ReadPair ==
    LET t == Next1(at)
        u == Next1(t.at)
    IN  /\ pc = "next" /\ Top.kind = "OBJECT"
        /\ CASE t.type = "RBRACE"      -> Leave(t.at)
             [] t.type # "RBRACE" /\ Top.kids = <<>> -> Pair(t)
             [] t.type = "COMMA" /\ Top.kids # <<>>
                  -> IF u.type = "RBRACE" THEN TrailingComma(u.at) ELSE Pair(u)
             [] OTHER -> Fail(IF t.status = "OK" THEN "BAD_TOKEN" ELSE t.status) /\ Keep

-----------------------------------------------------------------------------
(* json_parse_internal.                                                    *)

Begin ==
    /\ pc = "idle"
    /\ result = "none" \/ (result = "OK" /\ opts.multiple /\ base < Len(Bytes))
    /\ frames' = <<>> /\ root' = NoValue
    /\ at' = StartOf(Input, AllowBom)
    /\ UNCHANGED caller
    /\ \/ /\ pc' = "value" /\ ctx' = IF opts.inSitu THEN "live" ELSE "none"
          /\ UNCHANGED <<result, starved>>
       \/ /\ opts.inSitu /\ Starves
          /\ pc' = "idle" /\ ctx' = "none" /\ result' = "OOM" /\ starved' = TRUE

\* Faulty: the token looked at behind the value is consumed with it.
ConsumedToken(t) == t.at
\* Where the next token begins: what gtext_json_parse_multiple reports.
Consumed(t) ==
    IF t.status = "NONFINITE" THEN t.at
    ELSE SkipComments(Input, SkipWhitespace(Input, at)).at

CheckTrailing ==
    LET t == Next1(at)
    IN  /\ pc = "trailing" /\ pc' = "idle"
        /\ UNCHANGED <<text, opts, at, frames, root, starved>>
        /\ IF opts.multiple \/ t.type = "EOF"
           THEN /\ result' = "OK" /\ got' = Append(got, root)
                /\ base' = base + Consumed(t) /\ Keep
           ELSE /\ result' = "TRAILING" /\ Free /\ UNCHANGED <<base, got>>

\* Faulty: the array that created the context leaves it to nobody.
FreesObject(f) == f.kind = "OBJECT"
\* A failed json_parse_object frees its object, whoever the context belongs to;
\* a failed json_parse_array frees its array only at the root.
Frees(f) == f.kind = "OBJECT" \/ f.owns

Unwind ==
    /\ pc = "fail"
    /\ UNCHANGED <<caller, at, root, result, starved>>
    /\ IF frames # <<>>
       THEN /\ frames' = Front(frames) /\ UNCHANGED pc
            /\ IF Frees(Top) THEN Free ELSE Keep
       ELSE /\ pc' = "idle" /\ UNCHANGED frames
            /\ IF opts.inSitu THEN Free ELSE Keep

Init ==
    /\ text \in Texts /\ opts \in Options
    /\ base = 0 /\ pc = "idle" /\ at = 0 /\ frames = <<>> /\ root = NoValue
    /\ ctx = "none" /\ result = "none" /\ got = <<>> /\ starved = FALSE

Next == Begin \/ ReadValue \/ ReadElement \/ ReadPair \/ CheckTrailing \/ Unwind
Spec == Init /\ [][Next]_vars

-----------------------------------------------------------------------------
(* Properties.                                                             *)

\* A value as the lexemes it is written with.
RECURSIVE Spelled(_)
Spelled(v) ==
    LET kid(k) == IF v.type = "OBJECT" THEN <<v.kids[k].key, <<":">>>> \o Spelled(v.kids[k].value)
                  ELSE Spelled(v.kids[k].value)
        inner  == FlattenSeq([k \in 1..Len(v.kids) |-> IF k = 1 THEN kid(k) ELSE <<<<",">>>> \o kid(k)])
    IN  CASE v.type = "LEAF"   -> <<v.lexeme>>
          [] v.type = "ARRAY"  -> <<<<"[">>>> \o inner \o <<<<"]">>>>
          [] v.type = "OBJECT" -> <<<<"{">>>> \o inner \o <<<<"}">>>>

\* The text without white space and comments.
IsComment(l) == /\ AllowComments /\ Len(l) > 2 /\ l[1] = "/"
                /\ (l[2] = "/" /\ Last(l) = "\n") \/ (l[2] = "*" /\ Len(l) > 3 /\ Last(l) = "/")
Bare(d) == SelectSeq(Written(d), LAMBDA l : ~IsComment(l))
Closer(l) == l \in {<<"]">>, <<"}">>}
\* The text without the commas before a closer and behind a value.
Plain(d) ==
    IF ~opts.trailing THEN d
    ELSE LET extra(k) == k > 1 /\ k < Len(d) /\ d[k] = <<",">> /\ Closer(d[k + 1])
                         /\ d[k - 1] \notin {<<",">>, <<"[">>, <<"{">>, <<":">>}
             kept == SelectSeq([k \in 1..Len(d) |-> k], LAMBDA k : ~extra(k))
         IN  [k \in 1..Len(kept) |-> d[kept[k]]]
\* Two scalars side by side may be one token: such texts are not compared.
Scalar(l) == TokenOf(l)[1] \notin {"{", "}", "[", "]", ",", ":"}
Apart(d)  == \A k \in 1..(Len(d) - 1) : ~(Scalar(d[k]) /\ Scalar(d[k + 1]))
IsKey(d, k) == IsString(d[k]) /\ k < Len(d) /\ d[k + 1] = <<":">>
Values(d) == {k \in DOMAIN d : Scalar(d[k]) \/ d[k] \in {<<"[">>, <<"{">>}}

\* gtext_json_parse returns the tree the text spells, or an error the text
\* deserves: too deep, too long, a key twice, or no JSON at all.
ParseFollowsText ==
    LET d == Plain(Bare(text))
    IN  (pc = "idle" /\ ~opts.multiple /\ ~starved /\ Apart(d)) =>
          CASE result = "none"   -> TRUE
            [] result = "OK"     -> WellFormed(d) /\ (opts.dup = "ERROR" => Spelled(root) = d)
            [] result = "DEPTH"  -> \E n \in DOMAIN d : Len(Reading(d, n).open) > MaxDepth
            [] result = "LIMIT"  -> \/ Cardinality(Values(d)) > MaxElems
                                    \/ \E k \in DOMAIN d : IsString(d[k]) /\ Len(d[k]) - 2 > MaxString
            [] result = "DUPKEY" -> /\ opts.dup = "ERROR"
                                    /\ \E j, k \in DOMAIN d : j < k /\ IsKey(d, j) /\ IsKey(d, k) /\ d[j] = d[k]
            [] OTHER             -> ~WellFormed(d)

\* The pairs an object should have after reading others, by policy (JSON.md 4.3).
Occurrences(read, key) == SelectSeq(read, LAMBDA p : p.key = key)
Promised(read, key) ==
    LET all == Occurrences(read, key)
    IN  CASE opts.dup = "LAST_WINS" -> {Last(all).value}
          [] opts.dup = "COLLECT" /\ Len(all) > 1
               -> {Container("ARRAY", [k \in DOMAIN all |-> Kid(NoKey, all[k].value)])}
          [] OTHER -> {all[1].value}
\* In every object being read each key stands once, where it was read first,
\* with the value the policy promises.  An array that COLLECT meets first takes
\* the others itself: what is promised of it is left open.
DuplicatesFollowPolicy ==
    \A n \in DOMAIN frames :
        LET f == frames[n]
            firsts == SelectSeq([k \in DOMAIN f.read |-> k],
                                LAMBDA k : \A j \in 1..(k - 1) : f.read[j].key # f.read[k].key)
        IN  (f.kind = "OBJECT" /\ pc # "fail") =>
              /\ [k \in DOMAIN f.kids |-> f.kids[k].key] = [k \in DOMAIN firsts |-> f.read[firsts[k]].key]
              /\ \A k \in DOMAIN f.kids :
                    \/ f.kids[k].value \in Promised(f.read, f.kids[k].key)
                    \/ opts.dup = "COLLECT" /\ f.read[firsts[k]].value.type = "ARRAY"

\* gtext_json_parse_multiple, called again behind what it consumed, reads every
\* value of a text of several, and nothing else (json_dom.h).
MultipleReadsAll ==
    LET d == Bare(text)
        spelled == FlattenSeq([k \in DOMAIN got |-> Spelled(got[k])])
    IN  (opts.multiple /\ opts.dup = "ERROR" /\ ~opts.trailing /\ Apart(d)) =>
          /\ IsPrefix(spelled, d)
          /\ (pc = "idle" /\ ~starved /\ result \notin {"none", "OK"}) =>
                \/ ~AllValues(d)
                \/ result \in {"DEPTH", "LIMIT", "DUPKEY"}
                \/ spelled = d

\* "On error: no resources are leaked" (json_dom.h): a failed call leaves no
\* context behind.
NothingLeaks == (pc = "idle" /\ result \notin {"none", "OK"}) => ctx # "live"

\* Every call returns, however the text is nested or broken: a step inside it
\* reads on, or ends it, or is the start or one return of a failure.
ParseAdvances ==
    [][pc # "idle" =>
          \/ pc' = "idle"
          \/ at' > at /\ pc # "fail"
          \/ at' = at /\ pc' = "fail" /\ (pc = "fail" => Len(frames') < Len(frames))]_vars
=============================================================================
