----------------------------- MODULE CsvWriter -----------------------------
(***************************************************************************)
(* The CSV writer of src/csv/csv_writer.c and its two sinks: a caller      *)
(* writes records field by field, or a whole table at once, and every call *)
(* becomes a sequence of sink writes (delimiter, quote, content, quote,    *)
(* newline), any of which may fail and end the call.                       *)
(*                                                                         *)
(* A call is begun by an action named after it, which sets todo to the     *)
(* sink writes it will make; each step of SinkWrite is one of them, and    *)
(* Return is the end of the call.  The growable sink fails when it has no  *)
(* memory to grow, the fixed sink when its buffer is full, an escape when  *)
(* its content needs a heap buffer.                                        *)
(*                                                                         *)
(* Left out: null sinks, writers and options (rejected at once), overflow  *)
(* of 64-bit lengths, always_escape_quotes and dialect fields the writer   *)
(* never reads.  The newline is LF, the delimiter and quote are fixed.     *)
(***************************************************************************)
EXTENDS Sink

CONSTANTS
    Fields,       \* fields the caller writes
    Tables,       \* tables the caller writes: sequences of rows
    Options,      \* write options a writer may be given
    StackBuffer   \* STACK_BUFFER_SIZE (256 in the code)

OptionSet == [quoteAll : BOOLEAN, quoteEmpty : BOOLEAN, quoteIfNeeded : BOOLEAN, trim : BOOLEAN,
              trailingNewline : BOOLEAN, escape : {"doubled", "backslash", "none"}]
ASSUME ByteAssumption ==
    {"delim", "quote", "bslash", "lf", "cr"} \subseteq Byte
ASSUME WriterAssumption ==
    /\ Fields \subseteq Seq(Byte)
    /\ Tables \subseteq Seq(Seq(Seq(Byte)))
    /\ Options \subseteq OptionSet
    /\ StackBuffer \in Nat

VARIABLES
    opts,     \* writer->opts
    w,        \* struct GTEXT_CSV_Writer: state, has_fields_in_record, last_error
    call,     \* the call in progress, "none" between calls
    arg,      \* its field or its table
    todo,     \* the sink writes it has still to make
    records,  \* history: records the caller completed
    pending,  \* history: fields of the open record
    mark,     \* history: bytes in the sink when the call began
    torn      \* history: some call failed after it had stored something

writer  == <<w, call, arg, todo>>
history == <<offered, records, pending, mark, torn>>
vars    == <<opts, sink, w, call, arg, todo, offered, records, pending, mark, torn>>

-----------------------------------------------------------------------------
(* The sink writes of a field.                                             *)

Has(f, bytes) == \E i \in DOMAIN f : f[i] \in bytes

\* Faulty: a newline in a field is taken for an ordinary byte.
NeedsQuotingNotNewline(f) ==
    \/ opts.quoteAll
    \/ opts.quoteEmpty /\ f = <<>>
    \/ opts.quoteIfNeeded /\ Has(f, {"delim", "quote"})
\* csv_field_needs_quoting.
NeedsQuoting(f) ==
    \/ opts.quoteAll
    \/ opts.quoteEmpty /\ f = <<>>
    \/ opts.quoteIfNeeded /\ Has(f, {"delim", "quote", "lf", "cr"})

\* csv_field_escape, as long as csv_field_escaped_length says.
EscapedByte(b) ==
    CASE opts.escape = "doubled" /\ b = "quote"                -> <<"quote", "quote">>
      [] opts.escape = "backslash" /\ b \in {"quote", "bslash"} -> <<"bslash", b>>
      [] OTHER                                                 -> <<b>>
Escaped(f) == FlattenSeq([i \in DOMAIN f |-> EscapedByte(f[i])])

\* A sink write: data may be NULL, or in a buffer that must be allocated first.
Write(bytes)     == [bytes |-> bytes, null |-> FALSE, heap |-> FALSE]
NullWrite        == [bytes |-> <<>>, null |-> TRUE, heap |-> FALSE]
EscapedWrite(f)  == [bytes |-> Escaped(f), null |-> FALSE, heap |-> Len(Escaped(f)) >= StackBuffer]
Quote     == Write(<<"quote">>)
Delimiter == Write(<<"delim">>)
Newline   == Write(<<"lf">>)

\* csv_write_field; null says that the data of an empty field is NULL.
FieldWrites(f, null) ==
    IF NeedsQuoting(f)
    THEN <<Quote>> \o (IF f = <<>> THEN <<>> ELSE <<EscapedWrite(f)>>) \o <<Quote>>
    ELSE IF Has(f, {"quote"}) /\ opts.escape # "none" THEN <<EscapedWrite(f)>>
    ELSE IF f = <<>> /\ null THEN <<NullWrite>> ELSE <<Write(f)>>

\* csv_find_last_non_empty_field decides how much of a row is written.
LastNonEmpty(row) == Max({0} \union {i \in DOMAIN row : row[i] # <<>>})
Trimmed(row) == IF opts.trim THEN SubSeq(row, 1, LastNonEmpty(row)) ELSE row

RowWrites(row) ==
    FlattenSeq([i \in DOMAIN row |-> (IF i > 1 THEN <<Delimiter>> ELSE <<>>)
                                       \o FieldWrites(row[i], FALSE)]) \o <<Newline>>

\* gtext_csv_write_table: the header row is written like the others.
TableWrites(table) ==
    IF table = <<>> THEN (IF opts.trailingNewline THEN <<Newline>> ELSE <<>>)
    ELSE FlattenSeq([i \in DOMAIN table |-> RowWrites(Trimmed(table[i]))])

-----------------------------------------------------------------------------
(* Calls.                                                                  *)

\* gtext_csv_sink_buffer, gtext_csv_sink_fixed_buffer and gtext_csv_writer_new.
Init ==
    /\ opts \in Options
    /\ sink \in NewSinks
    /\ w = [state |-> "INITIAL", hasFields |-> FALSE, lastError |-> "OK"]
    /\ call = "none" /\ arg = <<>> /\ todo = <<>>
    /\ offered = <<>> /\ records = <<>> /\ pending = <<>> /\ mark = 0 /\ torn = FALSE

InRecord == w.state = "IN_RECORD"

AllBytes(writes) == FlattenSeq([i \in DOMAIN writes |-> writes[i].bytes])
Begin(c, a, writes) ==
    /\ call = "none"
    /\ Len(offered) + Len(AllBytes(writes)) <= OutBound
    /\ call' = c /\ arg' = a /\ todo' = writes /\ mark' = Len(sink.out)
    /\ UNCHANGED <<opts, sink, w, offered, records, pending, torn>>

\* A call that is out of order is refused.
Refuse == /\ call = "none"
          /\ w' = [w EXCEPT !.lastError = "INVALID"]
          /\ UNCHANGED <<opts, sink, call, arg, todo, history>>

RecordBegin ==
    \/ w.state # "INITIAL" /\ Refuse
    \/ /\ w.state = "INITIAL" /\ call = "none"
       /\ w' = [state |-> "IN_RECORD", hasFields |-> FALSE, lastError |-> "OK"]
       /\ pending' = <<>>
       /\ UNCHANGED <<opts, sink, call, arg, todo, offered, records, mark, torn>>

Field(f, null) ==
    \/ ~InRecord /\ Refuse
    \/ /\ InRecord /\ (null => f = <<>>)
       /\ Begin("field", f, (IF w.hasFields THEN <<Delimiter>> ELSE <<>>) \o FieldWrites(f, null))

RecordEnd ==
    \/ ~InRecord /\ Refuse
    \/ InRecord /\ Begin("record_end", <<>>, <<Newline>>)

Finish ==
    \/ InRecord /\ Begin("finish", <<>>, <<Newline>>)
    \/ /\ ~InRecord /\ call = "none"
       /\ w' = [w EXCEPT !.state = "FINISHED"]
       /\ UNCHANGED <<opts, sink, call, arg, todo, history>>

\* The table goes to the sink beside the writer; the caller has no record open.
WriteTable(table) == ~InRecord /\ Begin("table", table, TableWrites(table))

-----------------------------------------------------------------------------
(* The course of a call.                                                   *)

Goes == /\ todo' = Tail(todo)
        /\ UNCHANGED <<opts, w, call, arg, records, pending, mark, torn>>

\* The status of a failed sink write is returned, and remembered by the writer.
Fails(status) ==
    /\ call' = "none" /\ arg' = <<>> /\ todo' = <<>>
    /\ w' = IF call = "table" THEN w ELSE [w EXCEPT !.lastError = status]
    /\ torn' = (torn \/ Len(sink'.out) > mark)
    /\ UNCHANGED <<opts, records, pending, mark>>

SinkWrite ==
    /\ todo # <<>>
    /\ LET write == Head(todo)
       IN  \/ write.null /\ UNCHANGED <<sink, offered>> /\ Fails("INVALID")
           \/ write.heap /\ UNCHANGED <<sink, offered>> /\ Fails("OOM")
           \/ ~write.null /\ SinkTakes(write.bytes) /\ Goes
           \/ ~write.null /\ SinkRefuses(write.bytes)
                          /\ Fails(IF sink.kind = "fixed" THEN "WRITE" ELSE "OOM")

RecordEnded(state) == [w EXCEPT !.state = state, !.hasFields = FALSE]

Return ==
    /\ call # "none" /\ todo = <<>>
    /\ call' = "none" /\ arg' = <<>>
    /\ \/ /\ call = "field"
          /\ w' = [w EXCEPT !.hasFields = TRUE]
          /\ pending' = Append(pending, arg) /\ UNCHANGED records
       \/ /\ call \in {"record_end", "finish"}
          /\ w' = RecordEnded(IF call = "finish" THEN "FINISHED" ELSE "INITIAL")
          /\ records' = Append(records, pending) /\ pending' = <<>>
       \/ /\ call = "table"
          /\ records' = records \o [i \in DOMAIN arg |-> Trimmed(arg[i])]
          /\ UNCHANGED <<w, pending>>
    /\ UNCHANGED <<opts, sink, todo, offered, mark, torn>>

Next ==
    \/ RecordBegin \/ RecordEnd \/ Finish
    \/ \E f \in Fields, null \in BOOLEAN : Field(f, null)
    \/ \E table \in Tables : WriteTable(table)
    \/ SinkWrite \/ Return

Spec == Init /\ [][Next]_vars

-----------------------------------------------------------------------------
(* Properties.                                                             *)

Doubled   == INSTANCE CsvText WITH Escape <- "doubled", CommentPrefix <- <<>>
Backslash == INSTANCE CsvText WITH Escape <- "backslash", CommentPrefix <- <<>>
Reading   == IF opts.escape = "doubled" THEN Doubled!Meaning(sink.out)
             ELSE Backslash!Meaning(sink.out)

\* A record of no fields, or of one empty field without quotes, is a blank line.
Visible(o, record) == record # <<>> /\ (record = <<<<>>>> => o.quoteAll \/ o.quoteEmpty)
AddVisible(o, rows, record) == IF Visible(o, record) THEN Append(rows, record) ELSE rows
VisibleRecords(o, given) ==
    FoldLeft(LAMBDA rows, record : AddVisible(o, rows, record), <<>>, given)

\* csv_writer.h, round-trip stability: between two calls the output reads as
\* the records completed and the fields of the open one, whatever calls were
\* refused or failed before they stored anything (they may be repeated).
RoundTrip ==
    call = "none" /\ ~torn /\ opts.escape # "none" /\ (opts.quoteIfNeeded \/ opts.quoteAll) =>
        /\ Reading.rows = VisibleRecords(opts, records)
        /\ Reading.at \notin {"bad", "quoted", "escaped"}
        /\ IF w.hasFields THEN Append(Reading.row, Reading.cur) = pending
           ELSE Reading.at = "record"
=============================================================================
