------------------------------- MODULE CsvText -------------------------------
(***************************************************************************)
(* What a CSV text means, read byte by byte and in one piece: the          *)
(* reference the parser (CsvStream) and the writer (CsvWriter) are         *)
(* compared with.  RFC 4180 records, newline LF, a blank line is no        *)
(* record; quotes are doubled or escaped with a backslash; a line that     *)
(* begins with a comment prefix (of one byte) is skipped.  This module is  *)
(* not a model of the code.                                                *)
(***************************************************************************)
EXTENDS Naturals, SequencesExt

CONSTANTS
    Escape,         \* dialect.escape
    CommentPrefix   \* dialect.comment_prefix, <<>> when comments are not allowed

Bom   == <<"ef", "bb", "bf">>
Bytes == {"a", "n", "delim", "quote", "lf", "cr", "bslash", "hash"}
           \union {Bom[i] : i \in DOMAIN Bom}

ASSUME TextAssumption == /\ Escape \in {"doubled", "backslash", "none"}
                         /\ CommentPrefix \in Seq(Bytes)

-----------------------------------------------------------------------------
\* A text read so far: rows are its complete records, row the complete fields
\* of the next, cur the bytes of the field being read, at the place.
Unread == [at |-> "record", rows |-> <<>>, row |-> <<>>, cur |-> <<>>]

AddByte(r, b, where) == [r EXCEPT !.cur = Append(@, b), !.at = where]
CloseField(r) == [r EXCEPT !.row = Append(@, r.cur), !.cur = <<>>, !.at = "field"]
CloseRow(r)   == [r EXCEPT !.rows = Append(@, Append(r.row, r.cur)), !.row = <<>>,
                           !.cur = <<>>, !.at = "record"]
EscapedByte(b) == IF b = "n" THEN "lf" ELSE b

\* Outside quotes, between them, after the quote that may close a field, and
\* after a backslash.
ReadOutside(r, b) ==
    CASE b = "delim" -> CloseField(r)
      [] b = "lf"    -> CloseRow(r)
      [] b = "quote" -> [r EXCEPT !.at = IF @ = "plain" THEN "bad" ELSE "quoted"]
      [] OTHER       -> AddByte(r, b, "plain")
ReadInside(r, b) ==
    CASE b = "quote"                         -> [r EXCEPT !.at = "closed"]
      [] b = "bslash" /\ Escape = "backslash" -> [r EXCEPT !.at = "escaped"]
      [] OTHER                               -> AddByte(r, b, "quoted")
ReadClosed(r, b) ==
    CASE b \in {"delim", "lf"}               -> ReadOutside(r, b)
      [] b = "quote" /\ Escape = "doubled"   -> AddByte(r, b, "quoted")
      [] OTHER                               -> [r EXCEPT !.at = "bad"]
ReadEscaped(r, b) ==
    IF b \in {"n", "bslash", "quote"} THEN AddByte(r, EscapedByte(b), "quoted")
    ELSE [r EXCEPT !.at = "bad"]
ReadByte(r, b) ==
    CASE r.at = "record"  -> IF b = "lf" THEN r
                             ELSE IF CommentPrefix = <<b>> THEN [r EXCEPT !.at = "comment"]
                             ELSE ReadOutside(r, b)
      [] r.at = "comment" -> IF b = "lf" THEN [r EXCEPT !.at = "record"] ELSE r
      [] r.at = "quoted"  -> ReadInside(r, b)
      [] r.at = "closed"  -> ReadClosed(r, b)
      [] r.at = "escaped" -> ReadEscaped(r, b)
      [] r.at = "bad"     -> r
      [] OTHER            -> ReadOutside(r, b)

Meaning(text) == FoldLeft(ReadByte, Unread, text)
=============================================================================
