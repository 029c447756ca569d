----------------------------- MODULE JsonLexer -----------------------------
(***************************************************************************)
(* The JSON lexer of src/json/json_lexer.c as a function: from the bytes   *)
(* the lexer was initialised with, the offset it has reached and the token *)
(* buffer it resumes from, to the next token, the offset behind it and the *)
(* token buffer.  The streaming parser calls it on every chunk, and its    *)
(* whole difficulty is what it does where a chunk ends inside a token.     *)
(*                                                                         *)
(* A byte is a one-character string, the bytes of a byte order mark are    *)
(* "EF", "BB" and "BF", and offsets count from 0.  The value of a string   *)
(* or a number is its lexeme: escapes are checked, not translated.         *)
(* Left out: line and column, UTF-8 validation, a size_t that overflows,   *)
(* the conversion of a lexeme to int64, uint64 and double.                 *)
(***************************************************************************)
EXTENDS Integers, SequencesExt

CONSTANTS AllowComments, AllowNonfinite, AllowSingleQuotes, AllowControls,
          AllowBom       \* allow_leading_bom

ASSUME LexerAssumption ==
    {AllowComments, AllowNonfinite, AllowSingleQuotes, AllowControls, AllowBom}
        \subseteq BOOLEAN

Digits  == {"0", "1", "2", "5", "8"}
Blanks  == {" ", "\n"}
Hex     == Digits \union {"a", "D", "C"}
Letters == {"t", "r", "u", "e", "f", "a", "l", "s", "n", "N", "I", "i", "y", "D", "C"}
Keywords == [NULL |-> <<"n", "u", "l", "l">>, TRUE |-> <<"t", "r", "u", "e">>,
             FALSE |-> <<"f", "a", "l", "s", "e">>]
NaN      == <<"N", "a", "N">>
Infinity == <<"I", "n", "f", "i", "n", "i", "t", "y">>
NegInfinity == <<"-">> \o Infinity
Mark     == <<"EF", "BB", "BF">>
Punctuation == [LBRACE |-> "{", RBRACE |-> "}", LBRACKET |-> "[", RBRACKET |-> "]",
                COLON |-> ":", COMMA |-> ","]

\* json_token_buffer: the part of a token that earlier chunks held.
NoToken == [type |-> "NONE", bytes |-> <<>>, inEscape |-> FALSE, hexLeft |-> 0,
            dot |-> FALSE, exp |-> FALSE, signed |-> FALSE, minus |-> FALSE]

\* What json_lexer_next gives: its status, the token, current_offset and the
\* token buffer.
Token(type, lexeme, p)  == [status |-> "OK", type |-> type, lexeme |-> lexeme, at |-> p, tb |-> NoToken]
Refused(status, p, tb)  == [status |-> status, type |-> "ERROR", lexeme |-> <<>>, at |-> p, tb |-> tb]
Incomplete(p, tb)       == Refused("INCOMPLETE", p, tb)

-----------------------------------------------------------------------------
(* White space and comments.                                               *)

At(b, p)    == b[p + 1]
Piece(b, p, q) == SubSeq(b, p + 1, Min({q, Len(b)}))
\* The first offset from p on where a byte is in (not in) a set.
FirstIn(b, p, S)    == Min({q \in p..(Len(b) - 1) : At(b, q) \in S} \union {Len(b)})
FirstNotIn(b, p, S) == Min({q \in p..(Len(b) - 1) : At(b, q) \notin S} \union {Len(b)})

StartOf(b, opts) == IF opts /\ IsPrefix(Mark, b) THEN 3 ELSE 0
SkipWhitespace(b, p) == FirstNotIn(b, p, Blanks)

SingleLine(b, p) == Piece(b, p, p + 2) = <<"/", "/">>
MultiLine(b, p)  == Piece(b, p, p + 2) = <<"/", "*">>
LineEnd(b, p)    == Min({FirstIn(b, p, {"\n"}) + 1, Len(b)})
Closers(b, p)    == {q \in (p + 2)..(Len(b) - 2) : Piece(b, q, q + 2) = <<"*", "/">>}

\* json_lexer_skip_comments: a comment that is not closed leaves the offset on
\* the last byte.
SkipComments(b, p) ==
    LET skip[q \in 0..Len(b)] ==
          IF SingleLine(b, q) THEN skip[SkipWhitespace(b, LineEnd(b, q))]
          ELSE IF ~MultiLine(b, q) THEN [closed |-> TRUE, at |-> q]
          ELSE IF Closers(b, q) = {}
               THEN [closed |-> FALSE, at |-> Max({q + 2, Len(b) - 1})]
          ELSE skip[SkipWhitespace(b, Min(Closers(b, q)) + 2)]
    IN  IF AllowComments THEN skip[p] ELSE [closed |-> TRUE, at |-> p]

-----------------------------------------------------------------------------
(* Keywords.                                                               *)

Word(b, p) == Piece(b, p, FirstNotIn(b, p, Letters \union Digits))

\* json_is_keyword_prefix knows the extension keywords whatever the options.
AllKeywords == {Keywords[t] : t \in DOMAIN Keywords} \union {NaN, Infinity}
IsKeywordPrefix(w) == \E k \in AllKeywords : IsPrefix(w, k)

\* json_lexer_match_keyword and what json_lexer_next does after it.
LexWord(b, p, streaming) ==
    LET w == Word(b, p)
        end == p + Len(w)
    IN  CASE \E t \in DOMAIN Keywords : Keywords[t] = w
               -> Token(CHOOSE t \in DOMAIN Keywords : Keywords[t] = w, w, end)
          [] w \in {NaN, Infinity} /\ AllowNonfinite  -> Token("NONFINITE", w, end)
          [] w \in {NaN, Infinity} /\ ~AllowNonfinite -> Refused("NONFINITE", end, NoToken)
          [] streaming /\ w \notin AllKeywords /\ IsKeywordPrefix(w) -> Incomplete(p, NoToken)
          [] OTHER -> Refused("BAD_TOKEN", p, NoToken)

-----------------------------------------------------------------------------
(* Strings.                                                                *)

\* json_decode_string: the escapes of a complete string.  A surrogate is one of
\* the code points D8xx (high) and DCxx (low).
High(h) == h[1] = "D" /\ h[2] = "8"
Low(h)  == h[1] = "D" /\ h[2] = "C"
Decodes(c) ==
    LET ok[p \in 0..Len(c)] ==
          IF p = Len(c) THEN TRUE
          ELSE IF At(c, p) # "\\" THEN (AllowControls \/ At(c, p) # "\n") /\ ok[p + 1]
          ELSE IF p + 1 >= Len(c) THEN FALSE
          ELSE IF At(c, p + 1) # "u"
               THEN At(c, p + 1) \in {"\"", "\\", "/", "n", "r", "t", "f"} /\ ok[p + 2]
          ELSE LET h == Piece(c, p + 2, p + 6)
                   l == Piece(c, p + 8, p + 12)
               IN  /\ Len(h) = 4
                   /\ ~Low(h)
                   /\ IF High(h) THEN /\ Len(l) = 4 /\ Piece(c, p + 6, p + 8) = <<"\\", "u">>
                                      /\ Low(l) /\ ok[p + 12]
                      ELSE ok[p + 6]
    IN  ok[0]

\* One byte of the search for the closing quote.
Scanned(r, c) ==
    IF r.closed \/ r.bad THEN r
    ELSE IF r.hexLeft > 0
         THEN IF c \in Hex THEN [r EXCEPT !.hexLeft = @ - 1, !.bytes = Append(@, c)]
              ELSE [r EXCEPT !.bad = TRUE]
    ELSE [r EXCEPT !.bytes = Append(@, c), !.inEscape = ~r.inEscape /\ c = "\\",
                   !.hexLeft = IF r.inEscape /\ c = "u" THEN 4 ELSE 0,
                   !.closed = ~r.inEscape /\ c = r.bytes[1]]

\* json_lexer_parse_string; the bytes held begin with the quote.
LexString(b, p, tb) ==
    LET resuming == tb.type = "STRING"
        held  == IF resuming THEN tb
                 ELSE [NoToken EXCEPT !.type = "STRING", !.bytes = <<At(b, p)>>]
        first == IF resuming THEN p ELSE p + 1
        r     == FoldLeft(Scanned, [bytes |-> held.bytes, inEscape |-> held.inEscape,
                           hexLeft |-> held.hexLeft, closed |-> FALSE, bad |-> FALSE],
                          Piece(b, first, Len(b)))
    IN  CASE r.bad -> Refused("BAD_UNICODE", p, NoToken)
          [] ~r.bad /\ ~r.closed
               -> Incomplete(Len(b), [held EXCEPT !.bytes = r.bytes, !.inEscape = r.inEscape,
                                                  !.hexLeft = r.hexLeft])
          [] ~r.bad /\ r.closed /\ ~Decodes(SubSeq(r.bytes, 2, Len(r.bytes) - 1))
               -> Refused("BAD_ESCAPE", p, NoToken)
          [] OTHER -> Token("STRING", r.bytes, first + Len(r.bytes) - Len(held.bytes))

-----------------------------------------------------------------------------
(* Numbers.                                                                *)

AreDigits(s) == s # <<>> /\ \A k \in 1..Len(s) : s[k] \in Digits

\* json_validate_number_syntax.
ValidNumber(s) ==
    LET body == IF s # <<>> /\ s[1] = "-" THEN Tail(s) ELSE s
        n    == Len(body)
    IN  \E i \in 1..n : \E f \in i..n :
          LET int  == SubSeq(body, 1, i)
              frac == SubSeq(body, i + 1, f)
              exp  == SubSeq(body, f + 1, n)
          IN  /\ AreDigits(int) /\ (Len(int) = 1 \/ int[1] # "0")
              /\ frac = <<>> \/ (frac[1] = "." /\ AreDigits(Tail(frac)))
              /\ \/ exp = <<>>
                 \/ exp[1] = "e" /\ AreDigits(Tail(exp))
                 \/ exp[1] = "e" /\ Len(exp) > 2 /\ exp[2] \in {"+", "-"} /\ AreDigits(SubSeq(exp, 3, Len(exp)))

\* json_parse_number.
ParsesNumber(s) == (AllowNonfinite /\ s = NegInfinity) \/ ValidNumber(s)

\* One byte of the loop that looks for the number's end; fresh says that the
\* byte before it was an e.
Taken(r, c) ==
    LET more == [r EXCEPT !.bytes = Append(@, c), !.taken = @ + 1, !.fresh = FALSE]
    IN  CASE r.stopped -> r
          [] ~r.stopped /\ (r.fresh \/ (r.resuming /\ r.exp /\ ~r.signed)) /\ c \in {"+", "-"}
               -> [more EXCEPT !.signed = TRUE]
          [] ~r.stopped /\ c \in Digits -> more
          [] ~r.stopped /\ c = "." /\ ~r.dot /\ ~r.exp -> [more EXCEPT !.dot = TRUE]
          [] ~r.stopped /\ c = "e" /\ ~r.exp
               -> [more EXCEPT !.exp = TRUE, !.signed = FALSE, !.fresh = TRUE]
          [] ~r.stopped /\ ~r.fresh /\ ~(r.resuming /\ r.exp /\ ~r.signed) /\ c = "-" /\ r.taken = 0
               -> [more EXCEPT !.minus = TRUE]
          [] OTHER -> [r EXCEPT !.stopped = TRUE]

\* The bytes at p that continue a held beginning of -Infinity.
OfInfinity(b, p, tb) ==
    IF AllowNonfinite /\ tb.minus /\ ~tb.dot /\ ~tb.exp /\ IsStrictPrefix(tb.bytes, NegInfinity)
    THEN Max({n \in 0..(Len(b) - p) : IsPrefix(tb.bytes \o Piece(b, p, p + n), NegInfinity)})
    ELSE 0

Ends(s, S) == s # <<>> /\ Last(s) \in S
Held(r, tb) == [tb EXCEPT !.type = "NUMBER", !.bytes = r.bytes, !.dot = r.dot, !.exp = r.exp,
                          !.signed = r.signed, !.minus = r.minus]

\* Faulty: a digit at the end of a chunk ends the number.
OpenEndedNotDigits(r, streaming) ==
    r.bytes = <<"-">> \/ Ends(r.bytes, {".", "e", "+"}) \/ (Ends(r.bytes, {"-"}) /\ r.exp)
\* A number that ends with its input may go on in the next chunk.
OpenEnded(r, streaming) ==
    \/ r.bytes = <<"-">>
    \/ Ends(r.bytes, {".", "e", "+"})
    \/ Ends(r.bytes, {"-"}) /\ r.exp
    \/ streaming /\ Ends(r.bytes, Digits)

\* The last check before a number is parsed: what may still become -Infinity is
\* incomplete.  The bytes of a number that began in this chunk are stored twice.
MaybeInfinity(r) ==
    /\ AllowNonfinite /\ r.minus /\ IsStrictPrefix(r.bytes, NegInfinity)
    /\ (IF r.resuming THEN Len(r.bytes) + r.taken ELSE r.taken) \in 1..9

\* Faulty: the token buffer still holds a number that was already delivered.
NumberTokenKept(r, p) == [Token("NUMBER", r.bytes, p) EXCEPT !.tb = Held(r, NoToken)]
NumberToken(r, p) == Token("NUMBER", r.bytes, p)
\* json_lexer_parse_number.
LexNumber(b, p, tb, streaming) ==
    LET resuming == tb.type = "NUMBER"
        inf   == IF resuming THEN OfInfinity(b, p, tb) ELSE 0
        r     == FoldLeft(Taken, [bytes |-> tb.bytes \o Piece(b, p, p + inf), taken |-> inf,
                            dot |-> tb.dot, exp |-> tb.exp, signed |-> tb.signed, minus |-> tb.minus,
                            fresh |-> FALSE, stopped |-> FALSE, resuming |-> resuming],
                          Piece(b, p + inf, Len(b)))
        end   == p + r.taken
    IN  CASE end = Len(b) /\ r.taken > 0 /\ OpenEnded(r, streaming) -> Incomplete(end, Held(r, tb))
          [] ~(end = Len(b) /\ r.taken > 0 /\ OpenEnded(r, streaming)) /\ MaybeInfinity(r)
               -> Incomplete(end, [Held(r, tb) EXCEPT !.bytes = IF resuming THEN @ ELSE @ \o @])
          [] OTHER -> IF ParsesNumber(r.bytes) THEN NumberToken(r, end)
                      ELSE Refused("BAD_NUMBER", p, NoToken)

\* json_lexer_match_neg_infinity.
AtNegInfinity(b, p) == Piece(b, p, p + 9) = NegInfinity
LexMinus(b, p, streaming) ==
    IF ~AtNegInfinity(b, p) THEN LexNumber(b, p, NoToken, streaming)
    ELSE IF AllowNonfinite THEN Token("NONFINITE", NegInfinity, p + 9)
    ELSE Refused("NONFINITE", p + 9, NoToken)

-----------------------------------------------------------------------------
\* The token that begins at p, where there is neither space nor comment.
LexAt(b, p, streaming) ==
    LET c == At(b, p)
    IN  CASE \E t \in DOMAIN Punctuation : Punctuation[t] = c
               -> Token(CHOOSE t \in DOMAIN Punctuation : Punctuation[t] = c, <<c>>, p + 1)
          [] c = "\"" \/ (c = "'" /\ AllowSingleQuotes) -> LexString(b, p, NoToken)
          [] c = "-"       -> LexMinus(b, p, streaming)
          [] c \in Digits  -> LexNumber(b, p, NoToken, streaming)
          [] c \in Letters -> LexWord(b, p, streaming)
          [] OTHER         -> Refused("BAD_TOKEN", p, NoToken)

\* json_lexer_next.
Lex(b, p, tb, streaming) ==
    LET skipped == SkipComments(b, SkipWhitespace(b, p))
    IN  CASE tb.type = "STRING" -> LexString(b, p, tb)
          [] tb.type = "NUMBER" -> LexNumber(b, p, tb, streaming)
          [] tb.type = "NONE" /\ ~skipped.closed -> Refused("BAD_TOKEN", skipped.at, tb)
          [] tb.type = "NONE" /\ skipped.closed /\ skipped.at = Len(b)
               -> Token("EOF", <<>>, skipped.at)
          [] OTHER -> LexAt(b, skipped.at, streaming)
=============================================================================
