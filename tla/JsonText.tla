------------------------------ MODULE JsonText ------------------------------
(***************************************************************************)
(* How a sequence of JSON tokens reads (RFC 8259): the containers that are *)
(* open, which of them have elements, and what may come next.  Several     *)
(* values may follow one another at the top level.  This module is not a   *)
(* model of the code; it is the reference the writer is compared with.     *)
(*                                                                         *)
(* A string is the tokens quote, text, quote; any other scalar is one      *)
(* token.  A comma after the colon of a pair that is not the first of its  *)
(* object is no JSON; it is read over and remembered in doubled.           *)
(***************************************************************************)
EXTENDS Naturals, SequencesExt

Tokens == {"{", "}", "[", "]", ",", ":", "quote", "text", "scalar", "ws"}

\* A text read so far.  at is "value" where a value must follow, "first" in an
\* empty container, "after" behind an element, "key" behind a comma in an
\* object, "colon" behind a key, "text" and "unquote" in a string.
Unread == [open |-> <<>>, at |-> "value", key |-> FALSE, doubled |-> FALSE]

Bad(r)  == [r EXCEPT !.at = "bad"]
Inner(r) == Last(r.open)
InObject(r) == r.open # <<>> /\ Inner(r).type = "object"

\* A value is complete: its container has an element.
Element(r) ==
    IF r.open = <<>> THEN [r EXCEPT !.at = "value"]
    ELSE [r EXCEPT !.at = "after", !.open[Len(r.open)].hasElements = TRUE]

Open(r, type) == [r EXCEPT !.open = Append(@, [type |-> type, hasElements |-> FALSE]), !.at = "first"]
Close(r, type) ==
    IF r.open # <<>> /\ Inner(r).type = type /\ r.at \in {"first", "after"}
    THEN Element([r EXCEPT !.open = Front(@)]) ELSE Bad(r)

MayBeValue(r) == r.at = "value" \/ (r.at = "first" /\ ~InObject(r))
MayBeKey(r)   == r.at = "key" \/ (r.at = "first" /\ InObject(r))

ReadToken(r, t) ==
    CASE r.at = "bad" \/ t = "ws"                             -> r
      [] r.at = "text" /\ t = "text"                          -> [r EXCEPT !.at = "unquote"]
      [] r.at = "unquote" /\ t = "quote" /\ r.key             -> [r EXCEPT !.at = "colon"]
      [] r.at = "unquote" /\ t = "quote" /\ ~r.key            -> Element(r)
      [] t = "quote" /\ (MayBeKey(r) \/ MayBeValue(r))
           -> [r EXCEPT !.at = "text", !.key = MayBeKey(r)]
      [] t = "scalar" /\ MayBeValue(r)                        -> Element(r)
      [] t = "[" /\ MayBeValue(r)                             -> Open(r, "array")
      [] t = "{" /\ MayBeValue(r)                             -> Open(r, "object")
      [] t = "]"                                              -> Close(r, "array")
      [] t = "}"                                              -> Close(r, "object")
      [] t = ":" /\ r.at = "colon"                            -> [r EXCEPT !.at = "value"]
      [] t = "," /\ r.at = "after"
           -> [r EXCEPT !.at = IF InObject(r) THEN "key" ELSE "value"]
      [] t = "," /\ r.at = "value" /\ InObject(r) /\ Inner(r).hasElements
           -> [r EXCEPT !.doubled = TRUE]
      [] OTHER                                                -> Bad(r)

Reads(tokens) == FoldLeft(ReadToken, Unread, tokens)
=============================================================================
