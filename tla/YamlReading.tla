---------------------------- MODULE YamlReading ----------------------------
(***************************************************************************)
(* What a YAML text means as events, piece by piece: the reference that    *)
(* the reader is compared with.  It is no model of code.  A piece is a     *)
(* token with the white space behind it, [bytes, kind, value, safe]: safe  *)
(* are the lengths behind which a chunk may end without changing what is   *)
(* read.                                                                   *)
(***************************************************************************)
EXTENDS Integers, SequencesExt

CONSTANTS MaxDepth, MaxAliases, RetainComments

NoName == <<>>
\* An event, with the anchor and the tag of the node it tells.
Event(type, value, anchor, tag) == [type |-> type, value |-> value, anchor |-> anchor, tag |-> tag]
Bare(type) == Event(type, <<>>, NoName, NoName)

Opening == [s \in {<<"[">>, <<"{">>} |-> IF s = <<"[">> THEN "SEQUENCE_START" ELSE "MAPPING_START"]
Closing == [s \in {<<"]">>, <<"}">>} |-> IF s = <<"]">> THEN "SEQUENCE_END" ELSE "MAPPING_END"]

NothingRead == [events |-> <<>>, open |-> FALSE, depth |-> 0, aliases |-> 0,
                anchor |-> NoName, tag |-> NoName, status |-> "OK"]
Says(m, e)        == [m EXCEPT !.events = Append(@, e)]
Starts(m)         == [Says(m, Bare("DOCUMENT_START")) EXCEPT !.open = TRUE]
Ends(m)           == IF m.open THEN [Says(m, Bare("DOCUMENT_END")) EXCEPT !.open = FALSE] ELSE m
InDocument(m)     == IF m.open THEN m ELSE Starts(m)
Refused(m, why)   == [m EXCEPT !.status = why]
\* A node takes the names that were read before it.
Node(m, type, value) == [Says(m, Event(type, value, m.anchor, m.tag)) EXCEPT !.anchor = NoName, !.tag = NoName]

ReadPiece(m, p) ==
    LET d == InDocument(m)
    IN  CASE m.status # "OK"      -> m
          [] m.status = "OK" /\ p.kind = "start"     -> Starts(Ends(m))
          [] m.status = "OK" /\ p.kind = "end"       -> Ends(d)
          [] m.status = "OK" /\ p.kind = "comment"   ->
               IF RetainComments THEN Says(m, Event("COMMENT", p.value, NoName, NoName)) ELSE m
          [] m.status = "OK" /\ p.kind = "directive" -> Says(m, Event("DIRECTIVE", p.value, NoName, NoName))
          [] m.status = "OK" /\ p.kind = "scalar"    -> Node(d, "SCALAR", p.value)
          [] m.status = "OK" /\ p.kind = "open"      ->
               IF d.depth = MaxDepth THEN Refused(d, "DEPTH")
               ELSE [Node(d, Opening[p.value], <<>>) EXCEPT !.depth = @ + 1]
          [] m.status = "OK" /\ p.kind = "close"     ->
               [Says(d, Bare(Closing[p.value])) EXCEPT !.depth = IF @ = 0 THEN 0 ELSE @ - 1]
          [] m.status = "OK" /\ p.kind = "mark"      -> Says(d, Event("INDICATOR", p.value, NoName, NoName))
          [] m.status = "OK" /\ p.kind = "anchor"    -> [d EXCEPT !.anchor = p.value]
          [] m.status = "OK" /\ p.kind = "tag"       -> [d EXCEPT !.tag = p.value]
          [] m.status = "OK" /\ p.kind = "alias"     ->
               IF d.aliases = MaxAliases THEN Refused(d, "LIMIT")
               ELSE [Says(d, Event("ALIAS", p.value, NoName, NoName)) EXCEPT !.aliases = @ + 1, !.tag = NoName]
          [] m.status = "OK" /\ p.kind = "broken"    -> Refused(d, p.value)
          [] m.status = "OK" /\ p.kind = "unread"    -> Refused(m, p.value)

\* The events of a whole text, and why it is refused where it is.
Meaning(pieces) ==
    LET m == FoldLeft(ReadPiece, [NothingRead EXCEPT !.events = <<Bare("STREAM_START")>>], pieces)
    IN  IF m.status = "OK" THEN Says(Ends(m), Bare("STREAM_END")) ELSE m

-----------------------------------------------------------------------------
(* How a text is written, and where it may be cut.                         *)

Characters(pieces) == FlattenSeq([k \in DOMAIN pieces |-> pieces[k].bytes])
Marks == [UTF8 |-> <<"EF", "BB", "BF">>, UTF16BE |-> <<"FE", "FF">>, UTF16LE |-> <<"FF", "FE">>,
          UTF32BE |-> <<"00", "00", "FE", "FF">>, UTF32LE |-> <<"FF", "FE", "00", "00">>, none |-> <<>>]
Unit(c, encoding) ==
    CASE encoding \in {"none", "UTF8"} -> <<c>>
      [] encoding = "UTF16BE" -> IF c = "beyond" THEN <<"D8", "00", "DC", "00">> ELSE <<"00", c>>
      [] encoding = "UTF16LE" -> IF c = "beyond" THEN <<"00", "D8", "00", "DC">> ELSE <<c, "00">>
      [] encoding = "UTF32BE" -> IF c = "beyond" THEN <<"00", "01", "00", "00">> ELSE <<"00", "00", "00", c>>
      [] encoding = "UTF32LE" -> IF c = "beyond" THEN <<"00", "00", "01", "00">> ELSE <<c, "00", "00", "00">>
Written(chars, encoding) == Marks[encoding] \o FlattenSeq([k \in DOMAIN chars |-> Unit(chars[k], encoding)])

SafeBehind(pieces, n) ==
    n = 0 \/ \E k \in DOMAIN pieces : n - Len(Characters(SubSeq(pieces, 1, k - 1))) \in pieces[k].safe
\* A mark of UTF-32 must not be cut where it begins like that of UTF-16.
SafeCut(pieces, encoding, at) ==
    LET chars == Characters(pieces)
        n == CHOOSE k \in 0..Len(chars) :
                 /\ Len(Written(SubSeq(chars, 1, k), encoding)) <= at \/ k = 0
                 /\ k = Len(chars) \/ Len(Written(SubSeq(chars, 1, k + 1), encoding)) > at
    IN  SafeBehind(pieces, n) /\ ~(encoding = "UTF32LE" /\ at \in {2, 3})
=============================================================================
