----------------------------- MODULE CsvStream -----------------------------
(***************************************************************************)
(* The streaming CSV parser of src/csv/csv_stream*.c: the caller feeds the *)
(* input in chunks of its choice, the parser walks each chunk with a state *)
(* machine and reports records and fields to a callback, and what is left  *)
(* of a field at the end of a chunk must survive until the next one.       *)
(*                                                                         *)
(* One action stands for one handler of csv_stream_process_chunk, that is  *)
(* for one turn of its loop (START_OF_RECORD falls through to              *)
(* START_OF_FIELD, which is pc = "fall").  The callback may refuse any     *)
(* event, and any growth of the field buffer may fail.                     *)
(*                                                                         *)
(* Bytes are the tokens of Bytes.  An unbuffered field is a pointer into   *)
(* the input (at) and a length; it is read through the pointer, and when   *)
(* its chunk is gone the bytes read are those fed only if the caller keeps *)
(* the whole input in one piece (KeepInput), else anything (Lost).         *)
(*                                                                         *)
(* Left out: byte offset and column of the position, the error snippet,    *)
(* arithmetic overflow of 64-bit counters, feeding no bytes or a stream in *)
(* state END (both change nothing), finishing twice.                       *)
(***************************************************************************)
EXTENDS Integers, CsvText

CONSTANTS
    Alphabet,       \* bytes the caller feeds
    AcceptLf, AcceptCrlf, AcceptCr,
    AllowUnquotedQuotes, AllowUnquotedNewlines,
    KeepBom,
    MaxCols, MaxFieldBytes, MaxRecordBytes, MaxTotalBytes,
    KeepInput,      \* do chunks stay where they were, one after the other?
    FeedsOn,        \* does the caller feed on after a call that failed?
    InputBound,     \* bound: bytes fed in all
    ChunkBound      \* bound: bytes of one chunk

Lost  == "lost"  \* a byte read through a pointer to a chunk that is gone

ASSUME DialectAssumption ==
    /\ Alphabet \subseteq Bytes
    /\ {AcceptLf, AcceptCrlf, AcceptCr, AllowUnquotedQuotes,
        AllowUnquotedNewlines, KeepBom, KeepInput, FeedsOn} \subseteq BOOLEAN
ASSUME LimitAssumption ==
    /\ {MaxCols, MaxFieldBytes, MaxRecordBytes, MaxTotalBytes}
         \subseteq Nat \ {0}
    /\ InputBound \in Nat
    /\ ChunkBound \in Nat \ {0}

VARIABLES
    s,        \* struct GTEXT_CSV_Stream
    pc,       \* "idle" between calls, "loop" and "fall" inside a feed
    resumed,  \* this feed found a buffered field in progress
    chunk,    \* the bytes being processed
    offset,   \* bytes of chunk consumed
    input,    \* history: all bytes fed
    events,   \* history: all events reported
    aborted,  \* history: how a call last failed without setting the state END
    finished  \* history: gtext_csv_stream_finish has been called

vars == <<s, pc, resumed, chunk, offset, input, events, aborted, finished>>

FieldModes  == {"UNQUOTED_FIELD", "QUOTED_FIELD", "QUOTE_IN_QUOTED"}
NoOffset    == -1  \* SIZE_MAX as start_offset
EmptyField  == [buffered |-> FALSE, buf |-> <<>>, at |-> 0, len |-> 0,
                start |-> NoOffset, quoted |-> FALSE]

-----------------------------------------------------------------------------
(* The bytes of a field.                                                   *)

Base    == Len(input) - Len(chunk)     \* bytes fed before this chunk
Byte(p) == chunk[p + 1]
FieldLen(f) == IF f.buffered THEN Len(f.buf) ELSE f.len

\* What is read through data and length.
Pointed(f) == IF f.at >= Base \/ KeepInput THEN SubSeq(input, f.at + 1, f.at + f.len)
              ELSE [k \in 1..f.len |-> Lost]
Raw(f)     == IF f.buffered THEN f.buf ELSE Pointed(f)

\* csv_field_buffer_clear.
Cleared(f) == [EmptyField EXCEPT !.quoted = f.quoted]

\* csv_stream_append_to_field_buffer and csv_field_buffer_ensure_buffered.
Store(f, bytes) == [f EXCEPT !.buffered = TRUE, !.buf = bytes]
Append2(f, bytes) == Store(f, Raw(f) \o bytes)
EnsureBuffered(f) == Store(f, Raw(f))

\* Faulty: the copy takes the quote that ends the field along.
EnsureBufferedWithQuote(f, end) ==
    IF f.buffered THEN f
    ELSE LET first == IF f.start = NoOffset THEN 0 ELSE f.start
         IN  Store(f, IF first < Len(chunk) THEN SubSeq(chunk, first + 1, Min({end + 1, Len(chunk)})) ELSE <<>>)
\* csv_stream_ensure_field_buffered: the copy is taken from the current chunk,
\* from start_offset (0 when the field has none) to end.
EnsureFieldBuffered(f, end) ==
    IF f.buffered THEN f
    ELSE LET first == IF f.start = NoOffset THEN 0 ELSE f.start
         IN  Store(f, IF first < Len(chunk) THEN SubSeq(chunk, first + 1, end) ELSE <<>>)

\* csv_stream_unescape_field: each pair of quotes becomes one quote.
CollapseByte(r, b) ==
    IF b = "quote" /\ ~r.half THEN [out |-> Append(r.out, b), half |-> TRUE]
    ELSE [out |-> IF r.half /\ b = "quote" THEN r.out ELSE Append(r.out, b), half |-> FALSE]
Collapse(bytes) == FoldLeft(CollapseByte, [out |-> <<>>, half |-> FALSE], bytes).out
Content(f) == IF f.quoted /\ Escape = "doubled" THEN Collapse(Raw(f)) ELSE Raw(f)

\* csv_detect_newline: the length of the newline at p, 0 when there is none.
NewlineAt(p) ==
    IF AcceptCrlf /\ p + 1 < Len(chunk) /\ Byte(p) = "cr" /\ Byte(p + 1) = "lf" THEN 2
    ELSE IF (AcceptLf /\ Byte(p) = "lf") \/ (AcceptCr /\ Byte(p) = "cr") THEN 1 ELSE 0

\* csv_stream_is_comment_start: the prefix lies in this chunk.
CommentAt(t, p) ==
    /\ CommentPrefix # <<>> /\ t.fieldCount = 0 /\ ~t.inRecord
    /\ p + Len(CommentPrefix) <= Len(chunk)
    /\ SubSeq(chunk, p + 1, p + Len(CommentPrefix)) = CommentPrefix

\* csv_stream_scan_unquoted_field_ahead: the first byte from p on that the
\* bulk scan of an unquoted field stops at.
StopsScan(b) == \/ b = "delim"
                \/ b \in {"lf", "cr"} /\ ~AllowUnquotedNewlines
                \/ b = "quote" /\ ~AllowUnquotedQuotes
ScanStop(p) == Min({q \in p..(Len(chunk) - 1) : StopsScan(Byte(q))} \union {Len(chunk)})

-----------------------------------------------------------------------------
(* How a handler ends.                                                     *)

Event(type, t, data) == [type |-> type, row |-> t.rowCount, col |-> t.fieldCount, data |-> data]
FieldEvent(t) == Event("FIELD", t, Content(t.field))

\* Faulty: the buffer is dropped although a field goes on in the next chunk.
AlwaysDropped(t) == IF resumed THEN [t EXCEPT !.field = EmptyField] ELSE t
\* gtext_csv_stream_feed drops the buffer of a field that was in progress when
\* the feed began, unless a field is in progress when it returns.
AtReturn(t) == IF resumed /\ t.mode \notin FieldModes
               THEN [t EXCEPT !.field = Cleared(@)] ELSE t

Return(t) == /\ pc' = "idle" /\ s' = AtReturn(t)
             /\ chunk' = <<>> /\ offset' = 0 /\ resumed' = FALSE

\* The loop goes on at p, or the feed returns when the chunk is consumed.
Continue(t, p) ==
    IF p < Len(chunk) THEN /\ pc' = "loop" /\ s' = t /\ offset' = p
                           /\ UNCHANGED <<chunk, resumed>>
    ELSE Return(t)

Quietly == UNCHANGED <<events, aborted>>
Goes(t, p) == Continue(t, p) /\ Quietly
\* csv_stream_set_error.
Fails(t, code) == Return([t EXCEPT !.mode = "END", !.error = code]) /\ Quietly
\* The callback refuses the last of evs; a buffer cannot grow.  The state stays.
Refused(t, evs) == Return(t) /\ events' = events \o evs /\ aborted' = "refused"
Starved(t) == Return(t) /\ aborted' = "oom" /\ UNCHANGED events
\* As Goes, after the field buffer had to grow; old is the stream before that.
Buffers(old, t, p) == Goes(t, p) \/ (~old.field.buffered /\ Starved(old))

Advance(t, n) == [t EXCEPT !.total = @ + n]
\* csv_stream_handle_newline.
PastNewline(t, n) == [t EXCEPT !.total = @ + n, !.line = @ + 1]
ClearField(t) == [t EXCEPT !.field = Cleared(@), !.doubled = FALSE, !.atBoundary = FALSE]
\* Faulty: the next record gets the number of this one.
EndRecordSameRow(t) == [ClearField(t) EXCEPT !.fieldCount = 0, !.mode = "START_OF_RECORD",
                                             !.inRecord = FALSE]
EndRecord(t) == [ClearField(t) EXCEPT !.fieldCount = 0, !.mode = "START_OF_RECORD",
                                      !.inRecord = FALSE, !.rowCount = @ + 1]
Emitted(t) == [t EXCEPT !.field = Store(@, Content(@))]
CountField(t) == [t EXCEPT !.fieldCount = @ + 1]

\* csv_stream_complete_field_at_delimiter.
EndsField(t, p) ==
    \/ /\ Continue(Advance([CountField(ClearField(t)) EXCEPT !.mode = "START_OF_FIELD"], 1), p + 1)
       /\ events' = Append(events, FieldEvent(t))
       /\ UNCHANGED aborted
    \/ Refused(Emitted(t), <<FieldEvent(t)>>)
    \/ ~t.field.buffered /\ t.field.len > 0 /\ Starved(t)

\* A field and its record end with a newline already taken; p is past it.
EndsRecord(t, p) ==
    LET done == CountField(Emitted(t))
        evs  == <<FieldEvent(t), Event("RECORD_END", done, <<>>)>>
    IN  \/ Continue(EndRecord(t), p) /\ events' = events \o evs /\ UNCHANGED aborted
        \/ Refused(Emitted(t), <<evs[1]>>)
        \/ Refused(done, evs)
        \/ ~t.field.buffered /\ Starved(t)

-----------------------------------------------------------------------------
(* csv_stream_process_chunk.                                               *)

\* Faulty: the turns of the loop in a record are not counted.
NotCounted == s
\* The head of the loop counts a turn against the record.
Counted == IF s.inRecord THEN [s EXCEPT !.recordBytes = @ + 1] ELSE s
TotalReached == s.total >= MaxTotalBytes
OverLimit == TotalReached \/ Counted.recordBytes > MaxRecordBytes
LimitExceeded == pc = "loop" /\ OverLimit
                 /\ Fails(IF TotalReached THEN s ELSE Counted, "LIMIT")

\* The handler of a mode runs, on the stream Now.
Handling(mode) == s.mode = mode /\ (pc = "fall" \/ (pc = "loop" /\ ~OverLimit))
Now == IF pc = "fall" THEN s ELSE Counted
Here == Byte(offset)
Newline == NewlineAt(offset)

\* csv_stream_process_start_of_record.
StartOfRecord ==
    LET begun == [Now EXCEPT !.mode = "START_OF_FIELD", !.inRecord = TRUE,
                             !.recordBytes = 0, !.fieldCount = 0]
        begin == Event("RECORD_BEGIN", Now, <<>>)
    IN  /\ Handling("START_OF_RECORD")
        /\ \/ /\ CommentAt(Now, offset)
              /\ Goes(Advance([Now EXCEPT !.mode = "COMMENT"], 1), offset + 1)
           \/ /\ ~CommentAt(Now, offset) /\ Newline > 0
              /\ Goes(PastNewline(Now, Newline), offset + Newline)
           \/ /\ ~CommentAt(Now, offset) /\ Newline = 0
              /\ \/ /\ s' = begun /\ pc' = "fall" /\ events' = Append(events, begin)
                    /\ UNCHANGED <<chunk, offset, resumed, aborted>>
                 \/ Refused(Now, <<begin>>)

\* csv_stream_process_start_of_field.
Fresh == [ClearField(Now) EXCEPT !.field.at = Base + offset, !.field.start = offset,
                                 !.field.quoted = FALSE]
TooManyColumns == /\ Handling("START_OF_FIELD") /\ s.fieldCount >= MaxCols
                  /\ Fails(Now, "TOO_MANY_COLS")
StartsField(b) == Handling("START_OF_FIELD") /\ s.fieldCount < MaxCols /\ b
OpenQuote ==
    LET t == Advance([Fresh EXCEPT !.mode = "QUOTED_FIELD", !.field.quoted = TRUE,
                                   !.field.at = @ + 1, !.field.start = @ + 1], 1)
    IN  /\ StartsField(Here = "quote")
        /\ IF offset + 1 < Len(chunk) THEN Goes(t, offset + 1)
           ELSE Buffers(t, [t EXCEPT !.field = EnsureBuffered(@)], offset + 1)
EmptyFieldAtDelimiter == StartsField(Here = "delim") /\ EndsField(Fresh, offset)
EmptyFieldAtNewline ==
    LET t   == PastNewline(Fresh, Newline)
        evs == <<FieldEvent(t), Event("RECORD_END", t, <<>>)>>
    IN  /\ StartsField(Newline > 0)
        /\ \/ /\ Continue(EndRecord(t), offset + Newline)
              /\ events' = events \o evs /\ UNCHANGED aborted
           \/ Refused(t, <<evs[1]>>)
           \/ Refused(t, evs)
OpenUnquoted == /\ StartsField(Here \notin {"quote", "delim"} /\ Newline = 0)
                /\ Goes(Advance([Fresh EXCEPT !.mode = "UNQUOTED_FIELD",
                                              !.field.len = 1], 1), offset + 1)

\* csv_stream_process_unquoted_field.
Unquoted(b) == Handling("UNQUOTED_FIELD") /\ FieldLen(Now.field) < MaxFieldBytes /\ b
UnquotedTooLong == /\ Handling("UNQUOTED_FIELD") /\ FieldLen(Now.field) >= MaxFieldBytes
                   /\ Fails(Now, "LIMIT")
UnquotedDelimiter == Unquoted(Here = "delim") /\ EndsField(Now, offset)
\* The newline is taken once to see that there is one and once to end the record.
UnquotedNewline ==
    /\ Unquoted(Newline > 0)
    /\ EndsRecord(PastNewline(PastNewline(Now, Newline), Newline), offset + Newline)
UnquotedInvalid(b) == \/ b = "quote" /\ ~AllowUnquotedQuotes
                      \/ b \in {"lf", "cr"} /\ ~AllowUnquotedNewlines
InvalidCode(b) == IF b = "quote" THEN "UNEXPECTED_QUOTE" ELSE "INVALID"
UnquotedRejected == /\ Unquoted(Newline = 0 /\ UnquotedInvalid(Here))
                    /\ Fails(Now, InvalidCode(Here))

\* csv_stream_unquoted_process_bulk: n more bytes of the chunk.
Extended(f, n) ==
    IF f.buffered THEN Append2(f, SubSeq(chunk, offset + 1, offset + n))
    ELSE [f EXCEPT !.len = @ + n]
\* Faulty: one byte more than the limit.
RoomForOneMore == MaxFieldBytes - FieldLen(Now.field) + 1
Room == MaxFieldBytes - FieldLen(Now.field)
UnquotedBulk ==
    LET stop == ScanStop(offset)
        n    == IF stop - offset > Room THEN Room ELSE stop - offset
        p    == offset + n
        t    == Advance([Now EXCEPT !.field = Extended(@, n)], n)
        nl   == NewlineAt(p)
    IN  /\ Unquoted(Newline = 0 /\ Here # "delim" /\ ~UnquotedInvalid(Here))
        /\ \/ p = Len(chunk) /\ Buffers(t, [t EXCEPT !.field = EnsureBuffered(@)], p)
           \/ p < stop /\ Goes(t, p)
           \/ /\ p = stop /\ p < Len(chunk)
              /\ \/ Byte(p) = "delim" /\ EndsField(t, p)
                 \/ nl > 0 /\ EndsRecord(PastNewline(t, nl), p + nl)
                 \/ /\ nl = 0 /\ UnquotedInvalid(Byte(p))
                    /\ Fails(t, InvalidCode(Byte(p)))
           \/ Now.field.buffered /\ Starved(Now)

\* csv_stream_process_quoted_field.
Quoted(b) == Handling("QUOTED_FIELD") /\ FieldLen(Now.field) < MaxFieldBytes /\ b
QuotedTooLong == /\ Handling("QUOTED_FIELD") /\ FieldLen(Now.field) >= MaxFieldBytes
                 /\ Fails(Now, "LIMIT")
\* After a doubled quote anywhere in the field a delimiter or a newline ends it.
EndsAfterDoubled == s.doubled /\ (Here = "delim" \/ Newline > 0)
QuotedEndsAfterDoubled ==
    /\ Quoted(EndsAfterDoubled)
    /\ IF Here = "delim" THEN EndsField(Now, offset)
       ELSE EndsRecord(PastNewline(Now, Newline), offset + Newline)
QuotedBackslash ==
    /\ Quoted(~EndsAfterDoubled /\ Escape = "backslash" /\ Here = "bslash")
    /\ Goes(Advance([Now EXCEPT !.mode = "ESCAPE_IN_QUOTED"], 1), offset + 1)
QuotedQuote ==
    LET t == Advance([Now EXCEPT !.mode = "QUOTE_IN_QUOTED"], 1)
    IN  /\ Quoted(Here = "quote")
        /\ IF offset + 1 < Len(chunk)
           THEN Goes([t EXCEPT !.atBoundary = FALSE], offset + 1)
           ELSE Buffers(t, [t EXCEPT !.field = EnsureFieldBuffered(@, offset),
                                     !.atBoundary = TRUE], offset + 1)
QuotedByte ==
    LET f == IF Now.field.buffered THEN Append2(Now.field, <<Here>>)
             ELSE [Now.field EXCEPT !.len = @ + 1]
        t == Advance([Now EXCEPT !.field = f], 1)
        last == offset + 1 = Len(chunk)
    IN  /\ Quoted(/\ ~EndsAfterDoubled /\ Here # "quote"
                  /\ ~(Escape = "backslash" /\ Here = "bslash"))
        /\ \/ Goes(IF last THEN [t EXCEPT !.field = EnsureFieldBuffered(f, offset + 1)]
                   ELSE t, offset + 1)
           \/ Now.field.buffered /\ Starved(Now)
           \/ ~Now.field.buffered /\ last /\ Starved(t)

\* csv_stream_process_quote_in_quoted: the byte after a quote.
BothQuotes == <<"quote", "quote">>
AfterQuote(b) == Handling("QUOTE_IN_QUOTED") /\ b
DoubledQuote ==
    LET f == EnsureFieldBuffered(Now.field, offset - 1)
    IN  /\ AfterQuote(Escape = "doubled" /\ Here = "quote")
        /\ \/ Goes(Advance([Now EXCEPT !.field = Append2(f, BothQuotes),
                                       !.mode = "QUOTED_FIELD", !.doubled = TRUE,
                                       !.atBoundary = FALSE], 1), offset + 1)
           \/ \E k \in 0..1 : Starved([Now EXCEPT !.field = Append2(f, SubSeq(BothQuotes, 1, k))])
           \/ ~Now.field.buffered /\ Starved(Now)
\* An empty field whose closing quote ended the chunk is taken for a quote.
ClosesAtDelimiter ==
    LET literal == Now.atBoundary /\ Escape = "doubled" /\ FieldLen(Now.field) = 0
        f == IF literal THEN Store(Now.field, BothQuotes)
             ELSE EnsureFieldBuffered(Now.field, offset - 1)
    IN  /\ AfterQuote(Here = "delim")
        /\ \/ EndsField([Now EXCEPT !.field = f, !.atBoundary = FALSE], offset)
           \/ ~literal /\ ~Now.field.buffered /\ Starved([Now EXCEPT !.atBoundary = FALSE])
ClosesAtNewline ==
    LET t == PastNewline(Now, Newline)
    IN  /\ AfterQuote(Newline > 0)
        /\ \/ EndsRecord([t EXCEPT !.field = EnsureFieldBuffered(@, offset - 1)],
                         offset + Newline)
           \/ ~Now.field.buffered /\ Starved(t)
\* A CR that is no newline: the handler returns and the loop comes back to it.
QuoteBeforeOtherNewline == /\ AfterQuote(Newline = 0 /\ Here \in {"lf", "cr"})
                           /\ Goes(Now, offset)
QuoteMisplaced ==
    /\ AfterQuote(/\ Here \notin {"delim", "lf", "cr"}
                  /\ ~(Escape = "doubled" /\ Here = "quote"))
    /\ Fails(Now, "INVALID")

\* csv_stream_process_escape_in_quoted: the byte after a backslash.  It is
\* translated only when the field is buffered; else the two bytes stay.
Unescaped(b) == IF b = "n" THEN "lf" ELSE b
Escaped(f) ==
    IF f.buffered THEN Append2(f, <<Unescaped(Here)>>)
    ELSE [f EXCEPT !.len = @ + 2,
                   !.start = IF @ = NoOffset /\ offset > 0 THEN offset - 1 ELSE @]
EscapeByte ==
    LET f == Escaped(Now.field)
        t == Advance([Now EXCEPT !.field = f, !.mode = "QUOTED_FIELD"], 1)
        last == offset + 1 = Len(chunk)
    IN  /\ Handling("ESCAPE_IN_QUOTED") /\ Here \in {"n", "bslash", "quote"}
        /\ \/ Goes(IF last THEN [t EXCEPT !.field = EnsureFieldBuffered(f, offset + 1)]
                   ELSE t, offset + 1)
           \/ Now.field.buffered /\ Starved([Now EXCEPT !.mode = "QUOTED_FIELD"])
           \/ ~Now.field.buffered /\ last /\ Starved(t)
EscapeUnknown == /\ Handling("ESCAPE_IN_QUOTED") /\ Here \notin {"n", "bslash", "quote"}
                 /\ Fails(Now, "INVALID_ESCAPE")

\* csv_stream_process_comment.
Comment ==
    /\ Handling("COMMENT")
    /\ IF Newline > 0
       THEN Goes([PastNewline(Now, Newline) EXCEPT !.mode = "START_OF_RECORD",
                                                   !.rowCount = @ + 1], offset + Newline)
       ELSE Goes(Advance(Now, 1), offset + 1)

\* One turn of the loop, by handler.
OnRecord   == LimitExceeded \/ StartOfRecord \/ Comment
OnField    == TooManyColumns \/ OpenQuote \/ EmptyFieldAtDelimiter
                \/ EmptyFieldAtNewline \/ OpenUnquoted
OnUnquoted == UnquotedTooLong \/ UnquotedDelimiter \/ UnquotedNewline
                \/ UnquotedRejected \/ UnquotedBulk
OnQuoted   == QuotedTooLong \/ QuotedEndsAfterDoubled \/ QuotedBackslash
                \/ QuotedQuote \/ QuotedByte
OnQuote    == DoubledQuote \/ ClosesAtDelimiter \/ ClosesAtNewline
                \/ QuoteBeforeOtherNewline \/ QuoteMisplaced
OnEscape   == EscapeByte \/ EscapeUnknown
Turn       == (OnRecord \/ OnField \/ OnUnquoted \/ OnQuoted \/ OnQuote \/ OnEscape)
                /\ UNCHANGED <<input, finished>>

-----------------------------------------------------------------------------
(* The calls.                                                              *)

Init ==
    /\ s = [mode |-> "START_OF_RECORD", inRecord |-> FALSE, fieldCount |-> 0,
            rowCount |-> 0, line |-> 1, total |-> 0, recordBytes |-> 0,
            field |-> EmptyField, doubled |-> FALSE, atBoundary |-> FALSE, error |-> "OK"]
    /\ pc = "idle" /\ resumed = FALSE /\ chunk = <<>> /\ offset = 0
    /\ input = <<>> /\ events = <<>> /\ aborted = "no" /\ finished = FALSE

\* csv_strip_bom: only a byte order mark that lies in one chunk is seen.
StripBom(data) ==
    IF s.total = 0 /\ ~KeepBom /\ Len(data) >= 3 /\ SubSeq(data, 1, 3) = Bom
    THEN SubSeq(data, 4, Len(data)) ELSE data

\* gtext_csv_stream_feed up to its call of csv_stream_process_chunk.
Feed(data) ==
    LET lost == s.mode = "QUOTE_IN_QUOTED" /\ ~s.field.buffered
        f    == IF lost THEN Store(s.field, <<>>) ELSE s.field
    IN  /\ pc = "idle" /\ ~finished /\ s.mode # "END"
        /\ aborted = "no" \/ FeedsOn
        /\ s' = [s EXCEPT !.field = f]
        /\ input' = input \o data
        /\ offset' = 0
        /\ IF StripBom(data) = <<>> THEN UNCHANGED <<pc, chunk, resumed>>
           ELSE /\ pc' = "loop" /\ chunk' = StripBom(data)
                /\ resumed' = (f.buffered /\ s.mode \in FieldModes)
        /\ UNCHANGED <<events, aborted, finished>>

Quit == [s EXCEPT !.mode = "END"]
UnterminatedQuote == s.mode \in {"QUOTED_FIELD", "QUOTE_IN_QUOTED", "ESCAPE_IN_QUOTED"}

\* Faulty: the field in progress is forgotten.
LastEventsNoField == (IF s.inRecord THEN <<Event("RECORD_END", s, <<>>)>> ELSE <<>>)
                       \o <<Event("END", s, <<>>)>>
\* gtext_csv_stream_finish: what it reports, up to the event refused, if any
\* (n = 0: no memory to copy the last field).
LastEvents ==
    (IF s.mode = "UNQUOTED_FIELD" /\ s.inRecord THEN <<FieldEvent(s)>> ELSE <<>>)
      \o (IF s.inRecord THEN <<Event("RECORD_END", s, <<>>)>> ELSE <<>>)
      \o <<Event("END", s, <<>>)>>
Finish ==
    /\ pc = "idle" /\ ~finished
    /\ finished' = TRUE
    /\ \/ /\ UnterminatedQuote
          /\ s' = [Quit EXCEPT !.error = "UNTERMINATED_QUOTE"]
          /\ UNCHANGED <<events, aborted>>
       \/ /\ ~UnterminatedQuote
          /\ \E n \in 0..Len(LastEvents) :
                /\ n = 0 => s.mode = "UNQUOTED_FIELD" /\ ~s.field.buffered
                /\ events' = events \o SubSeq(LastEvents, 1, n)
                /\ s' = IF n = Len(LastEvents) THEN Quit ELSE s
                /\ aborted' \in IF n = Len(LastEvents) THEN {aborted, "refused"}
                                ELSE {IF n = 0 THEN "oom" ELSE "refused"}
    /\ UNCHANGED <<pc, resumed, chunk, offset, input>>

\* Chunks of the caller, within the bounds.
Chunks == UNION {[1..k -> Alphabet] :
                   k \in {n \in 1..ChunkBound : Len(input) + n <= InputBound}}
Next == (\E data \in Chunks : Feed(data)) \/ Turn \/ Finish

\* A call runs until it returns; the caller may stop calling.
Spec == Init /\ [][Next]_vars /\ WF_vars(Turn)

-----------------------------------------------------------------------------
(* What the text fed so far means (CsvText), and what was heard of it.     *)

\* Two shapes the parser reads otherwise: an empty quoted field, whose closing
\* quote may end a chunk, and a quoted field with a quote before a delimiter
\* or a newline (the README's divergences).
EmptyQuoted(r, b)   == r.at = "closed" /\ r.cur = <<>> /\ b # "quote"
QuoteThenEnd(r, b)  == r.at = "quoted" /\ b \in {"delim", "lf"} /\ \E i \in DOMAIN r.cur : r.cur[i] = "quote"
ShapedByte(r, b) == [ReadByte(r, b) EXCEPT !.emptyQuoted  = @ \/ EmptyQuoted(r, b),
                                           !.quoteThenEnd = @ \/ QuoteThenEnd(r, b)]
NotShaped == [at |-> "record", rows |-> <<>>, row |-> <<>>, cur |-> <<>>,
              emptyQuoted |-> FALSE, quoteThenEnd |-> FALSE]
Shaped(text) == FoldLeft(ShapedByte, NotShaped, text)

\* The same of the events reported.
HearEvent(r, e) ==
    CASE e.type = "FIELD"      -> [r EXCEPT !.row = Append(@, e.data)]
      [] e.type = "RECORD_END" -> [rows |-> Append(r.rows, r.row), row |-> <<>>]
      [] OTHER                 -> r
Heard == FoldLeft(HearEvent, [rows |-> <<>>, row |-> <<>>], events)

Agrees(m) == /\ Heard.rows = m.rows /\ Heard.row = m.row
             /\ (s.error = "OK") = (m.at # "bad")
BetweenCalls == pc = "idle" /\ aborted = "no"

-----------------------------------------------------------------------------
(* Properties.                                                             *)

\* Whatever the chunks, between two calls the records and fields reported are
\* those of the text fed so far, and an error is reported exactly when the
\* text is malformed (CSV.md 2.2: the parser maintains state between calls).
RecordsMatchText ==
    LET m == Shaped(input)
    IN  BetweenCalls /\ ~finished /\ ~m.emptyQuoted /\ ~m.quoteThenEnd => Agrees(m)

\* Of a text that no feed refused, finish reports an unterminated quote exactly when it
\* ends within quotes or right behind them.  It completes the record in progress with an unquoted field, and
\* without one when the text ends behind a delimiter (the empty field there is lost, see
\* the README's divergences); all other records were told before (gtext_csv_stream_finish).
AllRows(m) == CASE m.at = "plain" -> Append(m.rows, Append(m.row, m.cur))
                [] m.at = "field" -> Append(m.rows, m.row)
                [] OTHER          -> m.rows
FinishStatus(m) == IF m.at \in {"quoted", "closed", "escaped"} THEN "UNTERMINATED_QUOTE" ELSE "OK"
FinishCompletesText ==
    LET m == Shaped(input)
    IN  BetweenCalls /\ finished /\ ~m.emptyQuoted /\ ~m.quoteThenEnd /\ m.at # "bad"
          => s.error = FinishStatus(m) /\ Heard.rows = AllRows(m)

\* As long as no call failed the events are records of at least one field, in
\* order, then one END; rows are numbered upwards and the fields of a record
\* from 0 without gaps.  csv_table_event_callback fills the table on this.
Follows(e, f) ==
    CASE f.type = "RECORD_BEGIN" -> e.type = "RECORD_END" /\ f.row > e.row
      [] f.type = "FIELD"        -> /\ f.row = e.row
                                    /\ \/ e.type = "RECORD_BEGIN" /\ f.col = 0
                                       \/ e.type = "FIELD" /\ f.col = e.col + 1
      [] f.type = "RECORD_END"   -> e.type = "FIELD" /\ f.row = e.row
      [] f.type = "END"          -> e.type = "RECORD_END"
EventsWellFormed ==
    aborted = "no" /\ s.error = "OK" =>
        /\ events # <<>> => events[1].type \in {"RECORD_BEGIN", "END"}
        /\ \A i \in 1..(Len(events) - 1) : Follows(events[i], events[i + 1])

\* A field held over the end of a call is in the parser's own buffer, but for
\* an unquoted field of which one byte was read and a field that waits for the
\* byte after a backslash: the parser depends on the caller's memory only there.
HeldFieldBuffered ==
    BetweenCalls /\ s.mode \in {"UNQUOTED_FIELD", "QUOTED_FIELD", "QUOTE_IN_QUOTED"}
        => s.field.buffered \/ (s.mode = "UNQUOTED_FIELD" /\ s.field.len = 1)

\* No field longer than max_field_bytes is reported and no record of more than
\* max_cols fields, whichever way the field was gathered (csv_core.h).
LimitsHold ==
    \A i \in DOMAIN events :
        (aborted = "no" /\ events[i].type = "FIELD") =>
            Len(events[i].data) <= MaxFieldBytes /\ events[i].col < MaxCols

\* Every call returns: no byte, or newline seen in part, keeps the loop busy.
FeedReturns == pc # "idle" ~> pc = "idle"

=============================================================================
