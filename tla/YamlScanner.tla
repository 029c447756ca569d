---------------------------- MODULE YamlScanner ----------------------------
(***************************************************************************)
(* The YAML scanner of src/yaml/scanner.c as a function: from what it has  *)
(* buffered and where in a line and in which brackets it stands, to the    *)
(* next token and the scanner behind it.  A scanner that is not finished   *)
(* answers INCOMPLETE when it decides to wait for more bytes; what it has  *)
(* consumed by then stays consumed.                                        *)
(*                                                                         *)
(* A byte is a one-character string; "EF", "00" and the like are bytes by  *)
(* their value.  A scalar is told by the bytes it is written with: escapes *)
(* are not translated, block scalars neither indented, folded nor chomped. *)
(* Left out: positions, UTF-8 validation, more than one byte per character *)
(* but for one character beyond the basic plane, and that the prefix of the*)
(* buffer is freed behind 1024 bytes, which moves the end of the line that *)
(* a block scalar is consuming: of longer texts the model says nothing.    *)
(***************************************************************************)
EXTENDS Integers, SequencesExt

CONSTANT MaxContext     \* MAX_CONTEXT_DEPTH
ASSUME ScannerAssumption == MaxContext \in Nat

Newlines   == {"\n", "\r"}
Blanks     == {" ", "\t"}
Spaces     == Blanks \union Newlines
Indicators == {"-", ":", "?", "[", "]", "{", "}", ",", "#", "&", "*", "!", "|", ">", "%"}
Digits     == {"0", "1", "2"}
Folding    == {"|", ">"}      \* they begin a block scalar
Quotes     == {"'", "\""}

\* struct GTEXT_YAML_Scanner: input from the cursor on; lineStart for column 1.
NewScanner == [input |-> <<>>, raw |-> <<>>, encoding |-> "none", pending |-> <<>>, error |-> "OK",
               finished |-> FALSE, lineStart |-> TRUE, indent |-> TRUE, flow |-> 0, last |-> "none"]

Result(s, status, type, value) == [scanner |-> s, status |-> status, type |-> type, value |-> value]
Token(s, type, value) == Result([s EXCEPT !.last = "none"], "OK", type, value)
Wait(s)    == Result(s, "INCOMPLETE", "NONE", <<>>)
Invalid(s) == Result(s, "INVALID", "NONE", <<>>)

Byte(s, k)     == s.input[k + 1]
Within(s, k)   == k < Len(s.input)
\* The byte at offset k is one of set, or there is none.
EndsAt(s, k, set) == ~Within(s, k) \/ Byte(s, k) \in set
\* The first offset from k on whose byte is (not) in a set.
FirstIn(s, k, set)    == CHOOSE i \in k..Len(s.input) :
    EndsAt(s, i, set) /\ \A j \in k..(i - 1) : Byte(s, j) \notin set
FirstNotIn(s, k, set) == CHOOSE i \in k..Len(s.input) :
    (~Within(s, i) \/ Byte(s, i) \notin set) /\ \A j \in k..(i - 1) : Byte(s, j) \in set
\* Faulty: the end of a chunk is taken for the end of the token.
UndecidedNever(s, k) == FALSE
\* A token that reaches offset k may go on with the next bytes.
Undecided(s, k) == ~Within(s, k) /\ ~s.finished
Piece(s, k) == SubSeq(s.input, 1, k)

\* scanner_consume, n times.
Consume(s, n) ==
    LET eaten   == Piece(s, n)
        broken  == \E k \in 1..n : eaten[k] \in Newlines
        onlyBlank == \A k \in 1..n : eaten[k] = " " \/ \E j \in k..n : eaten[j] \in Newlines
    IN  IF n = 0 THEN s
        ELSE [s EXCEPT !.input = SubSeq(@, n + 1, Len(@)),
                       !.lineStart = eaten[n] \in Newlines,
                       !.indent = (@ \/ broken) /\ onlyBlank]

-----------------------------------------------------------------------------
(* What is fed: the encoding, decided once, and the characters.            *)

\* scanner_determine_encoding: the encoding and the length of its mark.
Encoding(raw, final) ==
    CASE IsPrefix(<<"00", "00", "FE", "FF">>, raw) -> <<"UTF32BE", 4>>
      [] IsPrefix(<<"FF", "FE", "00", "00">>, raw) -> <<"UTF32LE", 4>>
      [] IsPrefix(<<"EF", "BB", "BF">>, raw)       -> <<"UTF8", 3>>
      [] IsPrefix(<<"FE", "FF">>, raw)             -> <<"UTF16BE", 2>>
      [] IsPrefix(<<"FF", "FE">>, raw) /\ ~IsPrefix(<<"FF", "FE", "00", "00">>, raw) -> <<"UTF16LE", 2>>
      [] OTHER -> <<IF final \/ Len(raw) >= 4 THEN "UTF8" ELSE "none", 0>>

\* scanner_decode_utf16, scanner_decode_utf32: the characters read, the bytes
\* left, whether a unit was wrong.
Beyond == "beyond"
Units(encoding, bytes) ==
    LET width == IF encoding \in {"UTF16LE", "UTF16BE"} THEN 2 ELSE 4
        little == encoding \in {"UTF16LE", "UTF32LE"}
        unit(k) == LET w == SubSeq(bytes, k, k + width - 1) IN IF little THEN Reverse(w) ELSE w
        from[k \in 1..(Len(bytes) + 1)] ==
            LET stop(wrong) == <<<<>>, SubSeq(bytes, k, Len(bytes)), wrong>>
                got(c, n)   == [from[k + n] EXCEPT ![1] = <<c>> \o @]
                left        == Len(bytes) - k + 1
            IN  IF left < width THEN stop(FALSE)
                ELSE CASE \A j \in 1..(width - 1) : unit(k)[j] = "00" -> got(unit(k)[width], width)
                       [] width = 2 /\ unit(k)[1] = "D8" /\ left < 4 -> stop(FALSE)
                       [] width = 2 /\ unit(k)[1] = "D8" /\ left >= 4 /\ unit(k + 2)[1] = "DC" -> got(Beyond, 4)
                       [] width = 4 /\ unit(k)[1] = "00" /\ unit(k)[2] = "01" -> got(Beyond, 4)
                       [] OTHER -> stop(TRUE)
    IN  from[1]

\* scanner_decode_bytes.
Decode(s, bytes, final) ==
    IF s.encoding = "UTF8" THEN [s EXCEPT !.input = @ \o bytes]
    ELSE LET u == Units(s.encoding, s.pending \o bytes)
             wrong == u[3] \/ (final /\ u[2] # <<>>)
         IN  [s EXCEPT !.input = @ \o u[1],
                       !.pending = IF wrong THEN @ ELSE u[2],
                       !.error = IF wrong /\ @ = "OK" THEN "INVALID" ELSE @]

\* The encoding once raw is decided upon.
Determined(s, final) ==
    LET e == Encoding(s.raw, final)
    IN  IF e[1] = "none" THEN s
        ELSE Decode([s EXCEPT !.encoding = e[1], !.raw = <<>>],
                    SubSeq(s.raw, e[2] + 1, Len(s.raw)), final)

\* gtext_yaml_scanner_feed.
ScannerFeed(s, bytes) ==
    IF s.encoding = "none" THEN Determined([s EXCEPT !.raw = @ \o bytes], s.finished)
    ELSE Decode(s, bytes, s.finished)
\* It reports a wrong byte as a lack of memory, but not before the encoding is known.
FeedFails(s, bytes) == s.encoding \notin {"none", "UTF8"} /\ Units(s.encoding, s.pending \o bytes)[3]

\* gtext_yaml_scanner_finish.
ScannerFinish(s) ==
    LET t == [s EXCEPT !.finished = TRUE]
    IN  CASE s.encoding = "none" -> Determined(t, TRUE)
          [] s.encoding # "none" /\ s.pending # <<>> /\ s.error = "OK" -> [t EXCEPT !.error = "INVALID"]
          [] OTHER -> t

-----------------------------------------------------------------------------
(* Comments, directives, block scalars.                                    *)

\* The length of the line break at offset k.
Break(s, k) ==
    CASE Within(s, k + 1) /\ Byte(s, k) = "\r" /\ Byte(s, k + 1) = "\n" -> 2
      [] ~Within(s, k)                                                -> 0
      [] OTHER                                                        -> 1
\* A line is complete with its newline or at the end of all input.
LineToken(s, type) ==
    LET end == FirstIn(s, 0, Newlines)
    IN  IF Undecided(s, end) THEN Wait(s)
        ELSE Token(Consume(s, IF type = "COMMENT" THEN end ELSE end + Break(s, end)), type, Piece(s, end))

Number(digits) == FoldLeft(LAMBDA n, d : 10 * n + (CASE d = "0" -> 0 [] d = "1" -> 1 [] OTHER -> 2), 0, digits)
\* The indentation the header asks for, 0 for none.
HeaderIndent(s) ==
    LET first == IF Within(s, 1) /\ Byte(s, 1) \in {"+", "-"} THEN 2 ELSE 1
    IN  IF Within(s, first) THEN Number(SubSeq(s.input, first + 1, FirstNotIn(s, first, Digits))) ELSE 0

\* The lines of a block scalar: each is consumed when it is complete, and those
\* consumed are forgotten when a later one is not.  The loop stops at a line
\* that does not belong to it, or must not, or is not complete.
LineStarts(s) == {0, Len(s.input)} \union
    {k + Break(s, k) : k \in {j \in 0..(Len(s.input) - 1) : Byte(s, j) \in Newlines}}
BlockLines(s, indent) ==
    LET text(k)    == FirstNotIn(s, k, {" "})
        tabbed(k)  == Within(s, text(k)) /\ Byte(s, text(k)) = "\t"
        further(k) == Within(s, k) /\ IF indent > 0 THEN text(k) - k >= indent ELSE Byte(s, k) \in Spaces
        open(k)    == Undecided(s, FirstIn(s, k, Newlines))
        stop       == Min({k \in LineStarts(s) : ~further(k) \/ tabbed(k) \/ open(k)})
        t          == Consume(s, stop)
    IN  CASE s.input = <<>> /\ ~s.finished                 -> Wait(s)
          [] tabbed(stop)                                  -> Invalid(t)
          [] further(stop) /\ ~tabbed(stop) /\ open(stop) -> Wait(t)
          [] OTHER                                         -> Result(t, "OK", "SCALAR", Piece(s, stop))

\* The header is consumed up to its newline, and a line that is empty behind
\* it.  At the end of all input the loop that looks for the newline never ends.
BlockScalar(s) ==
    LET end == FirstIn(s, 0, Newlines)
        t   == Consume(s, end + 1)
    IN  CASE Undecided(s, end)               -> Wait(Consume(s, end))
          [] ~Within(s, end) /\ ~Undecided(s, end) -> Result(s, "LOOPS", "NONE", <<>>)
          [] OTHER -> BlockLines(IF Within(t, 0) /\ Byte(t, 0) = "\n" THEN Consume(t, 1) ELSE t,
                                 HeaderIndent(s))

-----------------------------------------------------------------------------
(* Indicators and scalars.                                                 *)

Indicator(s) ==
    LET c == Byte(s, 0)
        deeper == CASE c \in {"[", "{"} /\ s.flow < MaxContext -> s.flow + 1
                    [] c \in {"]", "}"} /\ s.flow > 0          -> s.flow - 1
                    [] OTHER                                   -> s.flow
    IN  Result([Consume(s, 1) EXCEPT !.flow = deeper, !.last = IF c \in {"&", "*", "!"} THEN c ELSE "none"],
               "OK", "INDICATOR", <<c>>)

HexDigits == [x |-> 2, u |-> 4]
\* The offset at which the loop over a quoted scalar stops: its closing quote,
\* the end, or a quote or an escape that the bytes so far do not decide.
QuoteStop(s) ==
    LET stop[k \in 1..Len(s.input)] ==
          LET c == Byte(s, k)
              digits == IF Byte(s, k + 1) \in DOMAIN HexDigits THEN HexDigits[Byte(s, k + 1)] ELSE 0
          IN  CASE ~Within(s, k) -> k
                [] Within(s, k) /\ c = Byte(s, 0) ->
                     IF c = "'" /\ Within(s, k + 1) /\ Byte(s, k + 1) = "'" THEN stop[k + 2] ELSE k
                [] Within(s, k) /\ c = "\\" /\ Byte(s, 0) = "\"" ->
                     IF Within(s, k + 1) /\ Within(s, k + 1 + digits) THEN stop[k + 2 + digits] ELSE k
                [] OTHER -> stop[k + 1]
    IN  stop[1]

Quoted(s) ==
    LET stop == QuoteStop(s)
    IN  CASE Undecided(s, stop) -> Wait(s)
          [] ~Within(s, stop) /\ ~Undecided(s, stop) -> Invalid(s)
          [] OTHER -> Token(Consume(s, stop + 1), "SCALAR", Piece(s, stop))

\* Where a plain scalar stops in a block, where it may contain blanks ...
BlockStop(s, k) ==
    LET behind == FirstNotIn(s, k, Blanks)
    IN  CASE Byte(s, k) \in Blanks ->
               EndsAt(s, behind, Newlines \union {":", "-", "?", "#", "&", "*", "[", "]", "{", "}", ","})
          [] Byte(s, k) \in {":", "-", "?"} -> EndsAt(s, k + 1, Spaces)
          [] OTHER -> Byte(s, k) \in Newlines \union (Indicators \ {":", "-", "?"})
\* ... and in brackets or as a name, where it may not.
FlowStop(s, k) == Byte(s, k) \in Spaces \union (Indicators \ (IF s.last = "!" THEN {"!"} ELSE {}))

Plain(s) ==
    LET stops(k) == IF s.flow = 0 /\ s.last = "none" THEN BlockStop(s, k) ELSE FlowStop(s, k)
        end == CHOOSE k \in 0..Len(s.input) :
                   (~Within(s, k) \/ stops(k)) /\ \A j \in 0..(k - 1) : ~stops(j)
    IN  IF Undecided(s, end) THEN Wait(s) ELSE Token(Consume(s, end), "SCALAR", Piece(s, end))

\* "---" and "...", wherever they stand.
Markers == [c \in {"-", "."} |-> IF c = "-" THEN "DOCUMENT_START" ELSE "DOCUMENT_END"]
Marker(s) ==
    LET c == Byte(s, 0)
        all == Within(s, 2) /\ Byte(s, 1) = c /\ Byte(s, 2) = c
    IN  CASE Undecided(s, 2) \/ (all /\ Undecided(s, 3)) -> "wait"
          [] all /\ ~Undecided(s, 3) /\ EndsAt(s, 3, Spaces) -> "yes"
          [] OTHER -> "no"

\* gtext_yaml_scanner_next behind white space; a tab does not indent.
TokenAt(s) ==
    LET c == Byte(s, 0)
        marker == IF c \in DOMAIN Markers THEN Marker(s) ELSE "no"
    IN  CASE c = "\t"                             -> Invalid(s)
          [] c = "#"                              -> LineToken(s, "COMMENT")
          [] c = "%" /\ s.lineStart               -> LineToken(s, "DIRECTIVE")
          [] c \in Folding                        -> BlockScalar(s)
          [] marker = "wait"                      -> Wait(s)
          [] marker = "yes"                       -> Token(Consume(s, 3), Markers[c], <<>>)
          [] marker = "no" /\ c \in Indicators \ ({"#"} \union Folding) /\ ~(c = "%" /\ s.lineStart) -> Indicator(s)
          [] c \in Quotes                         -> Quoted(s)
          [] OTHER                                -> Plain(s)

ScannerNext(s) ==
    LET first == CHOOSE k \in 0..Len(s.input) :
                     /\ \A j \in 0..(k - 1) : Byte(s, j) \in Spaces /\ ~(Byte(s, j) = "\t" /\ Consume(s, j).indent)
                     /\ ~Within(s, k) \/ Byte(s, k) \notin Spaces \/ (Byte(s, k) = "\t" /\ Consume(s, k).indent)
        t == Consume(s, first)
    IN  CASE s.error # "OK" -> Result(s, s.error, "NONE", <<>>)
          [] s.error = "OK" /\ t.input = <<>> -> IF s.finished THEN Token(t, "EOF", <<>>) ELSE Wait(t)
          [] OTHER -> TokenAt(t)
=============================================================================
