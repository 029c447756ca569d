----------------------------- MODULE JsonStream -----------------------------
(***************************************************************************)
(* The streaming JSON parser of src/json/json_stream.c over the lexer of   *)
(* JsonLexer: the caller feeds a text in chunks of its choice, the parser  *)
(* re-reads what it has buffered with a new lexer on every call, carries a *)
(* string or number that a chunk cuts in a token buffer, and tells events  *)
(* to a callback that may refuse any of them.                              *)
(*                                                                         *)
(* A step is one turn of a token loop: of json_stream_process_tokens (pc   *)
(* "process") or of one of the two loops of gtext_json_stream_finish that  *)
(* force what is held to its end ("complete", "rest").  Every allocation   *)
(* may fail.  The caller feeds all of its text and then finishes, at least *)
(* once; a text that stops in the middle is a text of its own.             *)
(*                                                                         *)
(* Left out: error positions and snippets, sizes that overflow a size_t,   *)
(* null arguments and empty chunks (which change nothing), and the states  *)
(* and checks the code never reaches (JSON_STREAM_STATE_ARRAY, the two     *)
(* trailing-comma checks in the state VALUE).                              *)
(***************************************************************************)
EXTENDS JsonReading

CONSTANTS
    Texts,         \* the texts a caller may feed, each a sequence of lexemes
    MaxDepth, MaxElems, MaxTotal,
    Refuses        \* may the callback refuse and an allocation fail?

ASSUME StreamAssumption ==
    /\ MaxDepth \in Nat /\ MaxElems \in Nat /\ MaxTotal \in Nat
    /\ Refuses \in BOOLEAN /\ Texts \subseteq Seq(Seq(STRING))

VARIABLES
    text,       \* what the caller will feed
    fed,        \* how many of its bytes were fed
    state,      \* st->state
    stack,      \* st->stack: the kinds of the open containers
    elems,      \* st->container_elem_count
    tb,         \* st->token_buffer
    buffer,     \* st->input_buffer[0 .. input_buffer_used - 1]
    processed,  \* st->input_buffer_processed
    at,         \* st->lexer.current_offset
    window,     \* st->lexer.input_len
    pc,         \* the token loop that runs, "idle" between calls
    call,       \* the call in progress or the last one
    status,     \* what it returned
    told,       \* history: the types of the events told to the callback
    values,     \* history: their lexemes
    clean       \* history: no callback has refused, no allocation failed

parser == <<state, stack, elems, told, values, clean>>
history == <<told, values, clean>>
input  == <<buffer, processed, tb>>
vars   == <<text, fed, parser, input, at, window, pc, call, status>>

Over   == {"DONE", "ERROR"}

-----------------------------------------------------------------------------
(* Events.  Every handler ends in Tell, Pass or SetError.                  *)

InArray  == stack # <<>> /\ Last(stack) = "ARRAY"
InObject == stack # <<>> /\ Last(stack) = "OBJECT"

\* json_stream_set_error.
SetError(code) == state' = "ERROR" /\ status' = code /\ UNCHANGED <<stack, elems, history>>
Pass(next)     == state' = next /\ status' = "OK" /\ UNCHANGED <<stack, elems, history>>

Says(type, lexeme) == told' = Append(told, type) /\ values' = Append(values, lexeme)

\* Faulty: a refusal is returned but does not end the stream.
RefusedOnly(type, lexeme) ==
    /\ Says(type, lexeme)
    /\ status' = "ABORT" /\ clean' = FALSE /\ UNCHANGED <<state, stack, elems>>
\* json_stream_emit_event when the callback refuses: the event was told, what
\* should follow it is not done.
RefusedEvent(type, lexeme) ==
    /\ Says(type, lexeme)
    /\ state' = "ERROR" /\ status' = "ABORT" /\ clean' = FALSE
    /\ UNCHANGED <<stack, elems>>
Tell(type, lexeme, next, containers, count) ==
    \/ /\ Says(type, lexeme)
       /\ state' = next /\ stack' = containers /\ elems' = count
       /\ status' = "OK" /\ UNCHANGED clean
    \/ Refuses /\ RefusedEvent(type, lexeme)

\* json_stream_push comes first, the event second.  A callback that refuses the
\* beginning leaves the container on the stack.  (A stack that cannot grow, from
\* 16 entries on, fails the same way as one that is too deep.)
MayPush == Len(stack) < MaxDepth
Begun(kind, type, next, t) ==
    /\ Says(type, t.lexeme)
    /\ stack' = Append(stack, kind) /\ elems' = 0
    /\ \/ state' = next /\ status' = "OK" /\ UNCHANGED clean
       \/ Refuses /\ state' = "ERROR" /\ status' = "ABORT" /\ clean' = FALSE
BeginContainer(kind, type, next, t) ==
    IF MayPush THEN Begun(kind, type, next, t) ELSE SetError("DEPTH")

\* What follows the end of a container.
AfterEnd == IF Len(stack) = 1 THEN "DONE" ELSE "VALUE"
EndContainer(type, t) == Tell(type, t.lexeme, AfterEnd, Front(stack), elems)

ScalarType == [NULL |-> "NULL", TRUE |-> "BOOL", FALSE |-> "BOOL", NUMBER |-> "NUMBER",
               NONFINITE |-> "NUMBER", STRING |-> "STRING"]

\* The end of json_stream_handle_value_token: the element is counted after it
\* was told.
Scalar(t) ==
    IF stack = <<>> THEN Tell(ScalarType[t.type], t.lexeme, "DONE", stack, elems)
    ELSE IF elems + 1 <= MaxElems
         THEN Tell(ScalarType[t.type], t.lexeme, "VALUE", stack, elems + 1)
    ELSE \/ /\ Says(ScalarType[t.type], t.lexeme)
            /\ state' = "ERROR" /\ status' = "LIMIT" /\ elems' = elems + 1
            /\ UNCHANGED <<stack, clean>>
         \/ Refuses /\ RefusedEvent(ScalarType[t.type], t.lexeme)

-----------------------------------------------------------------------------
(* json_stream_handle_token, one disjunct for each state.                  *)

\* json_stream_handle_value_token.
HandleValue(t) ==
    CASE t.type \in DOMAIN ScalarType -> Scalar(t)
      [] t.type = "LBRACKET" -> BeginContainer("ARRAY", "ARRAY_BEGIN", "EXPECT_VALUE", t)
      [] t.type = "LBRACE"   -> BeginContainer("OBJECT", "OBJECT_BEGIN", "OBJECT_KEY", t)
      [] OTHER               -> SetError("BAD_TOKEN")

\* A closing bracket or brace.
HandleEnd(t) ==
    CASE t.type = "RBRACKET" /\ InArray -> EndContainer("ARRAY_END", t)
      [] t.type = "RBRACE" /\ InObject  -> EndContainer("OBJECT_END", t)
      [] OTHER -> SetError("BAD_TOKEN")

AfterComma == IF InArray THEN "EXPECT_VALUE" ELSE "OBJECT_KEY"
AfterValue(t) ==
    CASE t.type = "COMMA" /\ stack # <<>>      -> Pass(AfterComma)
      [] t.type \in {"RBRACKET", "RBRACE"}     -> HandleEnd(t)
      [] OTHER                                 -> SetError("BAD_TOKEN")

ExpectedValue(t) == IF t.type \in {"RBRACKET", "RBRACE"} THEN HandleEnd(t) ELSE HandleValue(t)
ObjectKey(t)     == IF t.type # "STRING" THEN SetError("BAD_TOKEN")
                    ELSE Tell("KEY", t.lexeme, "OBJECT_VALUE", stack, elems)
ObjectValue(t)   == IF t.type # "COLON" THEN SetError("BAD_TOKEN") ELSE Pass("EXPECT_VALUE")

HandleToken(t) ==
    \/ state = "INIT"         /\ HandleValue(t)
    \/ state = "VALUE"        /\ AfterValue(t)
    \/ state = "EXPECT_VALUE" /\ ExpectedValue(t)
    \/ state = "OBJECT_KEY"   /\ ObjectKey(t)
    \/ state = "OBJECT_VALUE" /\ ObjectValue(t)
    \* json_stream_validate_state.
    \/ state \in Over /\ status' = "STATE" /\ UNCHANGED parser

-----------------------------------------------------------------------------
(* Feeding.                                                                *)

\* The bytes of the text.
Bytes == FlattenSeq(text)

\* json_stream_compact_buffer.
Unprocessed == SubSeq(buffer, processed + 1, Len(buffer))

\* A new lexer on bytes; nothing to read ends the loop before it begins.
StartLoop(loop, bytes) == at' = StartOf(bytes, AllowBom) /\ window' = Len(bytes) /\ pc' = loop
Return == pc' = "idle" /\ at' = 0 /\ window' = 0

\* The value that was cut off resumes as one that is expected.
Resumed == IF tb.type # "NONE" /\ state = "VALUE"
           THEN IF stack = <<>> THEN "INIT" ELSE "EXPECT_VALUE"
           ELSE state

Feed(n) ==
    /\ pc = "idle" /\ state \notin Over
    /\ fed' = fed + n /\ call' = "feed"
    /\ LET bytes == Unprocessed \o SubSeq(Bytes, fed + 1, fed + n)
       IN  /\ buffer' = bytes /\ processed' = 0
           /\ IF fed + n > MaxTotal
              THEN SetError("LIMIT") /\ Return
              ELSE /\ state' = Resumed /\ status' = "OK" /\ StartLoop("process", bytes)
                   /\ UNCHANGED <<stack, elems, history>>
    /\ UNCHANGED <<text, tb>>

\* The input buffer cannot grow.
FeedStarves(n) ==
    /\ pc = "idle" /\ state \notin Over /\ Refuses
    /\ fed' = fed + n /\ call' = "feed"
    /\ state' = "ERROR" /\ status' = "OOM" /\ clean' = FALSE
    /\ UNCHANGED <<text, stack, elems, told, values, input, at, window, pc>>

\* Nothing is fed to a stream that failed or is done.
FeedLate(n) ==
    /\ pc = "idle" /\ state \in Over
    /\ fed' = fed + n /\ call' = "feed" /\ status' = "STATE"
    /\ UNCHANGED <<text, parser, input, at, window, pc>>

-----------------------------------------------------------------------------
(* The token loops.                                                        *)

Lexed(streaming) == Lex(SubSeq(buffer, 1, window), at, tb, streaming)

\* gtext_json_stream_finish goes from one loop to the next: what the token
\* buffer holds is forced to its end, then what is left of the input.  The
\* loop reads from the buffer's start.
AfterLoop(done) ==
    LET left == Len(buffer) - processed'
        next == CASE call = "feed" -> "idle"
                  [] call = "finish" /\ done = "process" /\ tb'.type # "NONE" -> "complete"
                  [] call = "finish" /\ done # "rest" /\ left > 0
                     /\ ~(done = "process" /\ tb'.type # "NONE") -> "rest"
                  [] OTHER -> "final"
    IN  IF next \in {"complete", "rest"} THEN StartLoop(next, SubSeq(buffer, 1, left))
        ELSE pc' = next /\ at' = 0 /\ window' = 0

\* Faulty: the bytes of a cut token stay in the input as well.
ProcessedUpToKept(t) == processed
ProcessedUpTo(t) == IF t.tb.type # "NONE" THEN t.at ELSE processed

\* What json_stream_process_tokens does when the lexer gives no token: wait for
\* more input if the token is cut or the input is at its end; else fail, but
\* return the status of the lexer's initialisation, which is OK.
NoTokenYet(t) ==
    /\ processed' = IF t.status = "INCOMPLETE" THEN ProcessedUpTo(t) ELSE processed
    /\ tb' = t.tb /\ status' = "OK"
    /\ state' = IF t.status = "INCOMPLETE" \/ t.at >= window THEN state ELSE "ERROR"
    /\ UNCHANGED <<stack, elems, history>>
    /\ AfterLoop("process")

Handled(t, loop) ==
    /\ HandleToken(t) /\ tb' = t.tb
    /\ processed' = IF loop = "process" \/ status' = "OK" THEN t.at ELSE processed
    /\ IF status' # "OK" THEN Return
       ELSE IF state' \in Over THEN AfterLoop(loop)
       ELSE pc' = loop /\ at' = t.at /\ UNCHANGED window

Process ==
    /\ pc = "process"
    /\ LET t == Lexed(TRUE)
       IN  \/ t.status # "OK" /\ NoTokenYet(t)
           \/ t.status = "OK" /\ (t.type = "EOF" \/ state \in Over)
              /\ processed' = t.at /\ tb' = t.tb /\ status' = "OK" /\ UNCHANGED parser
              /\ AfterLoop("process")
           \/ t.status = "OK" /\ t.type # "EOF" /\ state \notin Over
              /\ Handled(t, "process")
    /\ UNCHANGED <<text, fed, buffer, call>>

\* The two loops of finish.
Forced(loop) ==
    /\ pc = loop
    /\ LET t == Lexed(FALSE)
       IN  \/ t.status # "OK" /\ SetError(t.status) /\ tb' = t.tb /\ UNCHANGED processed /\ Return
           \/ t.status = "OK" /\ t.type = "EOF"
              /\ processed' = t.at /\ tb' = t.tb /\ status' = "OK" /\ UNCHANGED parser
              /\ AfterLoop(loop)
           \/ t.status = "OK" /\ t.type # "EOF"
              /\ Handled(t, loop)
    /\ UNCHANGED <<text, fed, buffer, call>>
Complete == Forced("complete")
Rest     == Forced("rest")

\* A string or number is not appended to the token buffer or not decoded for
\* want of memory; json_stream_process_tokens returns OK all the same.
TokenStarves ==
    /\ Refuses /\ pc \in {"process", "complete", "rest"}
    /\ \/ tb.type # "NONE"
       \/ Lexed(pc = "process").type \in {"STRING", "NUMBER"}
       \/ Lexed(pc = "process").tb.type # "NONE"
    /\ state' = "ERROR" /\ clean' = FALSE
    /\ status' = IF pc = "process" THEN "OK" ELSE "OOM"
    /\ tb' \in {tb, NoToken}
    /\ UNCHANGED <<text, fed, stack, elems, told, values, buffer, processed, call>>
    /\ IF pc = "process" THEN AfterLoop("process") ELSE Return

-----------------------------------------------------------------------------
(* Finishing.                                                              *)

Finish ==
    /\ pc = "idle" /\ fed = Len(Bytes)
    /\ call' = "finish"
    /\ UNCHANGED <<text, fed, stack, elems, history, tb>>
    /\ IF state = "ERROR" THEN status' = "STATE" /\ UNCHANGED <<state, buffer, processed, at, window, pc>>
       ELSE /\ status' = "OK" /\ buffer' = Unprocessed /\ processed' = 0
            /\ IF Unprocessed # <<>> THEN state' = Resumed /\ StartLoop("process", Unprocessed)
               ELSE /\ UNCHANGED state
                    /\ IF tb.type # "NONE" THEN StartLoop("complete", <<>>)
                       ELSE pc' = "final" /\ UNCHANGED <<at, window>>

\* Faulty: an open container is no error.
FinalStatusLax == IF state = "INIT" /\ buffer = <<>> THEN "INCOMPLETE" ELSE "OK"
FinalStatus == IF stack # <<>> \/ (state = "INIT" /\ buffer = <<>>) THEN "INCOMPLETE" ELSE "OK"
Final ==
    /\ pc = "final"
    /\ status' = FinalStatus
    /\ state' = IF status' = "OK" THEN "DONE" ELSE "ERROR"
    /\ pc' = "idle"
    /\ UNCHANGED <<text, fed, stack, elems, history, input, at, window, call>>

Init ==
    /\ text \in Texts /\ fed = 0
    /\ state = "INIT" /\ stack = <<>> /\ elems = 0 /\ told = <<>> /\ values = <<>> /\ clean = TRUE
    /\ buffer = <<>> /\ processed = 0 /\ tb = NoToken
    /\ at = 0 /\ window = 0 /\ pc = "idle" /\ call = "none" /\ status = "OK"

Loop == Process \/ Complete \/ Rest \/ TokenStarves \/ Final
Next == \/ \E n \in 1..(Len(Bytes) - fed) : Feed(n) \/ FeedStarves(n) \/ FeedLate(n)
        \/ Finish
        \/ Loop

Spec == Init /\ [][Next]_vars

-----------------------------------------------------------------------------
(* Properties.                                                             *)

HasEmptyObject(d) == \E k \in 1..(Len(d) - 1) : d[k] = <<"{">> /\ d[k + 1] = <<"}">>
WithinLimits(d) ==
    /\ \A n \in 1..Len(d) : Len(Reading(d, n).open) <= MaxDepth
    /\ Cardinality({k \in 1..Len(d) : TokenOf(d[k])[1] \in {"quote", "scalar"}}) <= MaxElems
EventType(d, k) ==
    CASE d[k] = <<"{">> -> "OBJECT_BEGIN" [] d[k] = <<"}">> -> "OBJECT_END"
      [] d[k] = <<"[">> -> "ARRAY_BEGIN"  [] d[k] = <<"]">> -> "ARRAY_END"
      [] d[k] = Keywords.NULL -> "NULL"
      [] d[k] \in {Keywords.TRUE, Keywords.FALSE} -> "BOOL"
      [] d[k][1] \in {"\"", "'"}
           -> IF k < Len(d) /\ d[k + 1] = <<":">> THEN "KEY" ELSE "STRING"
      [] OTHER -> "NUMBER"
Silent(l) == l \in {<<":">>, <<",">>}
Expected(d) == LET loud == SelectSeq([k \in 1..Len(d) |-> k], LAMBDA k : ~Silent(d[k]))
               IN  [k \in 1..Len(loud) |-> <<EventType(d, loud[k]), d[loud[k]]>>]

\* Of these texts a cut loses bytes or keeps them twice (see the README): a byte
\* order mark is skipped at the beginning of every buffer, of a string's rest
\* too, and a minus that may become -Infinity is stored twice when more follows.
CutsAreClean(b) ==
    /\ AllowBom => \A p \in 1..(Len(b) - 3) : SubSeq(b, p + 1, p + 3) # Mark
    /\ AllowNonfinite => \A p \in 1..(Len(b) - 1) : b[p] = "-" => b[p + 1] \in Digits

\* A JSON text within the limits is read as what it says, cut into whatever
\* chunks: finish succeeds and the events are those of its lexemes, each with
\* its own bytes.  (json_stream_process_tokens and the lexer's resumption.  An
\* object without members is no such text, see the README.)
CompleteTextRead ==
    (pc = "idle" /\ call = "finish" /\ clean) =>
        LET d == Written(text)
        IN  (WellFormed(d) /\ WithinLimits(d) /\ ~HasEmptyObject(d) /\ Len(Bytes) <= MaxTotal
          /\ CutsAreClean(Bytes)) =>
                /\ status = "OK"
                /\ [k \in 1..Len(told) |-> <<told[k], values[k]>>] = Expected(d)

\* Between calls the token buffer and the unread input are together the last
\* bytes fed: a cut token is neither lost nor read twice (json_token_buffer,
\* input_buffer_processed), in a text without the two shapes of CutsAreClean.
HeldBytesAreFed ==
    (pc = "idle" /\ state \notin Over /\ CutsAreClean(Bytes)) =>
        LET held == tb.bytes \o Unprocessed
        IN  Len(held) <= fed /\ held = SubSeq(Bytes, fed - Len(held) + 1, fed)

\* The callback is told what JsonEvents promises.
OpenNow ==
    IF state \in Over THEN <<>>
    ELSE [k \in 1..Len(stack) |->
            [kind |-> stack[k],
             keyed |-> /\ k = Len(stack) /\ stack[k] = "OBJECT"
                       /\ state \in {"OBJECT_VALUE", "EXPECT_VALUE"}]]
Protocol == INSTANCE JsonEvents WITH open <- OpenNow, over <- (state \in Over), MaySlip <- TRUE
EventsFollowProtocol == Protocol!Spec

\* gtext_json_stream_finish says OK only of a value that was told to its end, in a
\* text without the two shapes of CutsAreClean, of which a token may be passed over.
FinishedIsComplete ==
    (pc = "idle" /\ call = "finish" /\ status = "OK" /\ CutsAreClean(Bytes)) => Protocol!Complete

\* No token loop runs forever: a turn that stays in the loop takes input or
\* empties the token buffer (a number that was complete at the chunk's end is
\* delivered without taking anything).
LoopsAdvance ==
    [][(pc # "idle" /\ pc' = pc) => (at' > at \/ (tb.type # "NONE" /\ tb'.type = "NONE"))]_vars
=============================================================================
