---------------------------- MODULE JsonReading ----------------------------
(***************************************************************************)
(* What a text means as JSON, lexeme by lexeme: the reference that both    *)
(* parsers, the streaming one and the one that builds a tree, are compared *)
(* with.  It is no model of code.  A text is a sequence of lexemes, white  *)
(* space and broken tokens among them; JsonText reads those JSON knows.    *)
(***************************************************************************)
EXTENDS JsonLexer

CONSTANT JsonLexemes    \* the lexemes that JSON, as configured, knows

Text == INSTANCE JsonText

Written(d) == SelectSeq(d, LAMBDA l : l[1] \notin Blanks)
IsString(l) == l[1] \in {"\"", "'"}
TokenOf(l) == IF l \notin JsonLexemes THEN <<"unknown">>
              ELSE IF IsString(l) THEN <<"quote", "text", "quote">>
              ELSE IF l[1] \in {Punctuation[t] : t \in DOMAIN Punctuation} THEN <<l[1]>>
              ELSE <<"scalar">>
Reading(d, n) == Text!Reads(FlattenSeq([k \in 1..n |-> TokenOf(d[k])]))

\* A sequence of complete values, and nothing else.
AllValues(d) == LET r == Reading(d, Len(d)) IN r.open = <<>> /\ r.at = "value" /\ ~r.doubled
\* One value, complete with its last lexeme and not before.
WellFormed(d) ==
    /\ d # <<>>
    /\ AllValues(d)
    /\ \A n \in 1..(Len(d) - 1) : Reading(d, n).open # <<>>
=============================================================================
