# Verification of the Ghoti.io text library (coreyp1/text)

TLA+ models of the library's stateful cores, TLC runs on small instances, and
theorems checked by TLAPS.  The library parses, mutates and writes CSV, JSON and
YAML in C.  Paths below are relative to the repository (`src/csv/...` is
`src/src/csv/...` beside this directory).

The library is single-threaded and keeps no global state: a caller owns a
parser, a table or a writer and calls into it; the library calls back through
event callbacks (parsers) and sinks (writers).  What makes it hard is therefore
not concurrency but **order and partiality**: input cut into chunks at every
byte, callbacks and sinks that refuse in the middle of a call, allocations that
fail between two assignments, and long sequences of legal calls that walk a
structure with several redundant parts (counts, caches, maps) into a corner.

## 1. Inventory

| Component | State | Operations | Hard part | What makes it correct |
|---|---|---|---|---|
| CSV table (`csv/csv_table.c`) | rows array and capacity, `column_count`, header row and header map, policy flags, arena | row append/insert/remove/set, field set, column append/insert/remove/rename (with and without values), normalize, set header row, compact, clear, clone | redundant state kept in step by hand; each call allocates several times before it commits | count bounds the rows; map and header row agree; a rectangular table stays so; a column moves in all rows at once; a failed call changes nothing |
| CSV streaming parser (`csv/csv_stream*.c`, `csv_utils.c`) | state of the machine, field buffer or pointer into the chunk, counters | feed, finish; calls the event callback | a field may be cut at every byte; the chunk is gone when feed returns | the events mean the text, whatever the chunks; limits; feed returns |
| CSV table parsing (`csv_table.c` 543-936) | table under construction, header map | event callback over the stream | in-situ fields, header duplicates | what the events say is what the table holds |
| CSV writer and sinks (`csv/csv_writer.c`) | writer state, sink buffer | record begin, field, record end, finish; sink write | a field is several sink writes, each may fail | what is written reads back as the same records |
| JSON lexer, numbers, strings | position, saved incomplete token | next token | incomplete tokens at the end of a chunk | tokens do not depend on chunks |
| JSON parser, DOM | value tree, contexts (arenas) | parse, array/object set, insert, remove | ownership of children of other contexts | each context freed once, after its last use |
| JSON streaming parser (`json_stream.c`) | state, container stack | feed, finish; calls the callback | one state per level, commas and closers | only well-formed event sequences |
| JSON pointer, patch, merge patch | value trees | add, remove, replace, move, copy, test | atomicity; index shift inside one array | all or nothing; RFC 6902 order |
| JSON writer (`json_writer.c`) | container stack, error flag, sink | begin, end, key, scalars, finish | commas and keys shared by every value function | output is one JSON text; nothing after an error |
| JSON schema | compiled schema | compile, validate | none of state | pure function |
| YAML scanner (`scanner.c`; `reader.c` is not called) | buffered input, encoding, flow depth | next token | incomplete tokens | tokens do not depend on chunks |
| YAML stream, resolver | document flags, pending anchor, tag and alias, expansion counters | feed, finish; callback | pending items over chunks, alias cycles, limits | events well formed; expansion bounded |
| YAML pull reader | ring of queued events | feed, next | ring growth while wrapped; finish retried | a FIFO queue, one STREAM_END |
| YAML parser, resolution, DOM | node graph, anchors | parse, merge keys, mutate | growth moves nodes | aliases resolve to their anchors |
| YAML writer, file output | writer stack; temporary file | write, rename | crash between write and rename | old or new document, never half |

How they interact: `gtext_csv_parse_table` drives the CSV stream in one or two
feeds and builds the table in its callback; the table writer iterates a table and
drives the CSV writer, which calls its sink.  The JSON stream drives the lexer;
the patch functions mutate DOM values.  The YAML pull reader wraps the YAML
stream, whose callback fills the queue.

PROJECT.json lists every component with its status, and under `hazards` every
place where the code could go wrong in a way tests hardly reach.

## 2. Modules

### CsvTable

Models `src/csv/csv_table.c` as its callers drive it.  `rows`, `rowCapacity`,
`columnCount`, `hasHeader`, `headerMap` and the two flags are the fields of
`struct GTEXT_CSV_Table`; `hasMap` is `header_map != NULL`; `status` is what the
last call returned.  One action per public mutation, each with all its outcomes:
success, every rejection in the order the code checks, and failed allocation.
What a failed call has changed before it failed is part of the action
(`EnableHeaderRow` pads first and fails later, as the code does).

Abstracted: a field is a member of `Names` (only equality and emptiness are
looked at); the arena (an allocation may fail at any call, compaction changes no
content); the hash buckets (`headerMap` is the concatenation of the chains,
newest entry first: two entries of one name share a bucket, and the order across
buckets cannot be observed); `index_to_entry`, a cache of the map.
Init is any table the parser can leave: rows of any lengths, a header row or
none, any map `gtext_csv_parse_table` builds under any `header_dup_mode`,
entries the arena had no room for left out (the parse goes on without them).

### CsvText and CsvStream

`CsvText` is no model of code: it says, byte by byte and in one piece, which
records a CSV text means.  `CsvStream` models the parser.  The record `s` is
`GTEXT_CSV_Stream`; `pc` says where inside a feed the parser is ("fall" is the
fall-through from START_OF_RECORD to START_OF_FIELD); `chunk` and `offset` are
the arguments of the call.  One action per handler of
`csv_stream_process_chunk`, so one step is one turn of its loop.  The field in
progress is either buffered (bytes of its own) or a pointer `at` into the input
with a length.  When the chunk it points to is gone the bytes are read as they
were fed if the caller keeps the whole input in one piece (`KeepInput`), and as
`Lost` otherwise: what they are then is up to the caller's memory.

Every event may be refused by the callback and every growth of the field buffer
may fail (`Refused`, `Starved`); `aborted` remembers that, and `FeedsOn` says
whether the caller feeds on after it.

Left out: byte offset, column and error snippet (presentation), overflow of
64-bit counters, feeding nothing or feeding after END (no change), finishing
twice, UTF-8 validation, and the in-situ `original_buffer`, which the caller of
the stream never sets (only the table parser does).

Two shapes are excluded from `RecordsMatchText` and `FinishCompletesText`, because
the code reads them otherwise (section 5): an empty quoted field, and a quoted
field with a quote before a delimiter or newline.  What `finish` does with a text that
ends behind a delimiter is stated as the code does it: the empty field there is lost
(`AllRows`).

### DataLemmas and the modules of proofs

`DataLemmas` holds facts about sequences, their operators from SequencesExt, folds
and maxima of finite sets that are about no module of the project in particular.
`CsvTable_proofs`, `CsvStream_proofs`, `CsvWriter_proofs`, `JsonWriter_proofs`,
`JsonStream_proofs`, `YamlReader_proofs` and `YamlFile_proofs` each hold the theorems
about the module they are named after; what every write to a sink preserves is shown
for each of the two writers, over its own variables.

### Sink, CsvWriter

`Sink` is the code both writers share line for line: the growable buffer and the
fixed buffer, their write functions as `SinkTakes` and `SinkRefuses` (a refused
write of a fixed buffer keeps what fits, one of a growable buffer nothing).
`offered` is a history variable: everything given to the sink, kept or not.

`CsvWriter` models `src/csv/csv_writer.c`: `w` is `struct GTEXT_CSV_Writer`,
`opts` its options.  A call of the writer is several sink writes; the action named
after the function checks the state and computes them (`todo`), each step of
`SinkWrite` makes one, and `Return` is what the function does after the last.
Any of them may fail; `torn` remembers that one failed after the call had stored
something.  `gtext_csv_write_table` is a call with the writes of all its rows.
The history `records` and `pending` is what the caller believes to have written;
`RoundTrip` compares it with `CsvText` reading the sink, the same reference that
`CsvStream` is compared with: together they say that what the writer writes the
parser reads back, as far as both agree with the reference.

Left out: null arguments, overflow of lengths, the newline string (LF), dialect
fields the writer does not read.  A byte is a member of `Byte`.

### JsonText, JsonWriter

`JsonText` is the reference: how a sequence of tokens reads as JSON.  `JsonWriter`
models the streaming writer of `src/json/json_writer.c` with the same three kinds
of actions (begin, `SinkWrite`, `Return`).  `stack`, `capacity` and `error` are the
fields of `struct GTEXT_JSON_Writer`.  Output is tokens: a string is three writes
(quote, text, quote), any other scalar one, white space one token.  `Value(kind)`
stands for the seven scalar functions, which differ only in `ValueWrites`.
`gtext_json_write_value`, a recursion over a DOM value, is left out.

### JsonLexer, JsonReading, JsonStream, JsonEvents

`JsonLexer` is `src/json/json_lexer.c` as a function: from the bytes a lexer was
initialised with, its offset and the token buffer it resumes from, to the next
token and what it leaves in the buffer.  Both parsers use it.  `JsonReading` is the
reference (no model of code): a text is a sequence of lexemes, and it says what
they mean.

`JsonStream` models `src/json/json_stream.c`.  One step is one turn of a token
loop; `pc` says which of the three loops runs (`process` in a feed, `complete` and
`rest` in finish).  The parser re-lexes its buffer from a new lexer at each call:
the buffer, the token buffer and the state are separate variables because every
fault met here is a disagreement between them.  Callback refusals and failed
allocations are outcomes of the steps.  `JsonEvents` is the abstract
specification: what a callback may rely on (`EventsFollowProtocol` is
`Events!Spec` under the refinement mapping from the told events and the container
stack).

### JsonParser

`gtext_json_parse` and `gtext_json_parse_multiple` with a stack of frames, the C
calls of `json_parse_array` and `json_parse_object` in progress; a step is one
turn of their loops.  Trees, duplicate-key policies, trailing commas, limits,
in-situ mode (only for what it changes about failing) and failed allocations.  `Free`
of what is freed already changes nothing: `NothingLeaks` sees a context left behind, not
one freed twice, which the code does (section 5).

### JsonValue, JsonPatch, JsonDom

`JsonValue` gives values as trees whose nodes carry the context they are allocated
in, and pointer evaluation as in `json_pointer.c`.  `JsonPatch` has the six
operations, the copy back over the original and merge patches as functions, each
beside what RFC 6902 and RFC 7386 say, stated as a set of places and what is found
there.  `JsonDom` is the program: slots that hold values, one action per call of
`json_dom.h` and `json_patch.h`, with `freed` and `live` contexts.  The rule that a
value has one parent is the header's, and the modelled program keeps it (`Takes`).
A patch that lacks memory answers OOM, or INVALID when it was the evaluation of a
pointer that lacked it (`MayNotFind`): json_pointer.c returns the same NULL for both.
`PatchFollowsRfc` claims of INVALID that the RFC fails the patch, or that memory lacked;
either way the document is unchanged.  `Equal` is the equality that the operation
`test` uses, `json_value_equal` of json_patch.c.

### YamlScanner, YamlReading, YamlReader, EventRing, EventFifo

`YamlScanner` is `src/yaml/scanner.c` as a function of what it has buffered to the
next token, with the decoding of UTF-16 and UTF-32.  INCOMPLETE is an answer like
any other, and what was consumed before it stays consumed.  The buffer is what is left
to read: that `scanner_consume` moves it behind 1024 bytes is left out, and with it the
block scalar that then consumes too much (section 5), so that the model, and the
theorems of section 4 about it, speak of texts below that length, or without block
scalars.  `YamlReading` is the
reference: what a text means as events, and behind which bytes of a token a chunk
may end without changing that (`safe`).  The lengths that are not safe are the
code's chunk dependences; section 5 lists them.

`YamlReader` is `yaml_pull_reader.c` over `stream.c`: `Drain` is the loop of feed
and finish over a record of the stream and the reader's queue, to which the callback
copies each event.  It is a recursive function of the number of turns (`Turn`): a turn
that does not end the loop takes a byte at least, so `MaxTotal + 1` are enough.  A call may lack memory for its n-th event, or for its names (whose `strdup`
nobody checks).  `blame` remembers what may excuse a deviation: an unsafe cut,
memory, bytes behind the end, a call after one that failed.  `EventRing` is the
queue's array, `EventFifo` the abstract queue that the reader implements with it.
What a caller knows of documents, containers and aliases when it has heard a sequence
of events is `Heard`, a fold; `DocumentsBalanced` and `LimitsHold` speak of it.

### AtomicFile, YamlFile

`YamlFile` models `yaml_file_io.c` step by step: make a temporary file, write
through a buffer, flush, close, rename; open, read, close.  Several processes use
one path; every step may fail, the removal of the temporary file too (its result is
ignored), and a process may die anywhere.  `AtomicFile` is the
abstract specification: a write takes effect in one moment or not at all, and a
read returns what the file held at one moment of its call; `Value`, `Want` and `Seen`
are the refinement mapping.  External: the file system (a rename is atomic; no loss
of power is modelled) and the document parser and writer.  Of a document's format
`Rendered` and `Parsed` keep what the file's code looks at: the lines, each one
character, and the newlines between which `detect_input_newline` tells; the writer
hands its text on in pieces that may end anywhere but inside of a newline.

## 3. Runs

| Run | Instance | What it shows |
|---|---|---|
| `table` | 2 names (one empty), capacity 1, rows, columns and entries up to 2 | every order of all calls with all outcomes keeps the structure valid, `column_count` no less than any row, strict tables rectangular, map and header row consistent, names unique, columns aligned, each but for the tables its antecedent names (section 5) |
| `stream` | all texts of up to 7 bytes over letter, quote, delimiter, LF in all chunkings; limits out of reach | what is heard is what the text means, between all calls and after finish; held fields are buffered |
| `stream_dialect` | backslash escapes, comments, CR/CRLF/LF, lenient quotes; 2 columns, 2 bytes a field, 3 a record, 4 in all; 5 bytes; the caller reuses its memory | limits hold on what is reported; every feed returns |
| `csv_writer` | 6 kinds of bytes, 30 tables, 5 sets of options, fixed buffers of 1 and 5 bytes, growable ones from 2, up to 7 bytes | room for the NUL, fixed buffers keep a prefix, untorn output reads back as the records written |
| `json_writer` | 8 sets of options, fixed buffers of 1, 6 and 15 and a growable one from 3, a stack of 1 growing to 2 and 4, up to 23 tokens | output and stack agree between all calls, torn output is final |
| `json_writer_strict_text` | the same, a stack of up to 2, up to 13 tokens | **violated**: the second pair of an object has a comma before its value |
| `json_stream` | every text of at most 3 tokens over 8, and 41 longer ones, in all chunkings; depth 3, 4 elements, 24 bytes; refusals, failed allocations | unless the cuts are unclean (section 5): complete texts are read as what they say, held bytes are bytes that were fed, finish succeeds only on a complete value, events keep the protocol of `JsonEvents`, every loop advances |
| `json_parser` | every text of at most 3 tokens, and 56 longer ones; depth 3, 3 elements, strings of 2; every duplicate policy, in-situ, trailing commas, several values | the tree is what the text says, duplicates follow the policy, several values are all read, a failed call leaves nothing, every step advances |
| `json_dom` | 2 slots, 3 contexts, 5 documents, about 70 patches, 5 merge patches, trees of up to 5 nodes | contexts are freed once and never too early, values stay apart, keys of members differ, patches and merges do what the RFCs say |
| `yaml_reader` | 29 texts as UTF-8 and 10 with byte order marks, chunks of every size; depth 2, 2 aliases, 18 bytes; a ring from 2 slots | events are those of the text wherever chunks end safely, documents are balanced and limits hold whatever happens, the queue is a FIFO |
| `yaml_finish_returns` | the text `\|` | **violated**: finish never returns |
| `yaml_file` | 2 processes, 3 files, documents with LF and CRLF | implements `AtomicFile`; no temporary file is left by a call that returned, unless `fdopen` or `remove` failed on it |

**Bounds.**  Two columns are the least that have a "left" and a "right" of an
insertion.  Initial capacity 1 makes the array full at the first append, which in
the code (capacity 16) happens at the seventeenth.  `MaxRows`, `MaxCols` and
`MaxEntries` only guard growth.  Seven bytes of CSV hold two quoted fields, or a
doubled quote, a delimiter and a newline, with each chunk boundary in between; the
parser holds no more than one field and its look-ahead is one byte.  The limits of
`stream_dialect` are small enough for every one of them to be met, exceeded by a
bulk scan, and exceeded by single bytes.  For the CSV writer seven bytes are two
records with a quoted field, and more than the growable buffer holds after two
doublings; the fixed buffer of one byte holds the NUL alone.  Twenty-three tokens of
JSON output are an object with two pairs in an object in an array, so that every
kind of container is closed in every other; the stack may grow twice and then no
more, so growing, a full stack and failing to grow all happen.

Three JSON tokens are every pair of neighbours with something before it; the longer
texts are chosen to reach what three tokens cannot: nesting up to and over the
depth limit, escapes and numbers cut at each byte, both byte order mark cases,
comments, several values.  `json_dom` has three contexts because the interesting
tree holds a child of another context and a clone; `Small` bounds the nodes.
`yaml_reader` fills and wraps its ring of two slots and grows it twice; `Few` stops
after two events were taken while more come, and lets one cause of blame happen in a
behaviour.  `yaml_file` has three files so that one has the path while both
processes have a temporary one.

The runs use `VIEW`s where a variable only records the outcome of the last call, or
an output that is torn and no longer read; the action properties that mention it
mention its primed value only.  Symmetry is used for slots and processes, which the
code does not tell apart, in runs without liveness.

**Deadlock** is checked in `table`.  Everywhere else the caller may stop (finish was
called, or the input is used up), and it is switched off.

**Fairness.**  Only `WF_vars(Turn)` in CsvStream: a C function that has been called
runs until it returns.  No fairness is assumed of any caller.  That the JSON loops
end is checked as the action properties `LoopsAdvance` (also proved) and
`ParseAdvances`: each turn decreases a measure.  The loop of the YAML stream is one step, and the status
`LOOPS` stands for one that does not end.

## 4. Proofs

Thirty-four theorems are proved, for every value of the constants that satisfies the
named assumptions of the modules (TLC evaluates these in the runs).  Each rests on an
inductive invariant, named below.

### CSV table

In `CsvTable_proofs`, for every set of names and every bound:

* `TypeInvariant`: `Spec => []TypeOK`.
* `StructureInvariant`: `Spec => []StructureValid`, with the inductive invariant
  `Inv == TypeOK /\ StructureValid`: neither part alone is inductive (the
  lengths compared by StructureValid are lengths only of typed rows; the type of
  a reindexed entry needs the header row that StructureValid keeps).
* `CountCoversForever` and `StrictTableStaysRectangular`: the action properties
  `CountKeepsCovering` and `StrictStaysRectangular`, from the same invariant.  The
  first bounds the count from below only; the second claims nothing of a table whose
  header row lost all its columns (`HeaderReady`).
* `ColumnsAreAligned`: `ColumnsStayAligned`.  `ColumnOutcomes` reduces the column
  operations to three effects (cells appended, cells inserted, a column removed);
  each is shown to be the same for all rows of a rectangular table.
* `HeaderMapAndRowAgree` and `HeadersStayUnique`: `HeaderMapStaysConsistent` and
  `UniqueHeadersKept`.  Map and header row agree when every entry names the field at
  its index and every index has an entry (`Agrees`); a lemma each says that this
  survives an entry more, one less, and a shift of the indexes together with the
  row.  Uniqueness is then a fact about the row alone.  Normalization is in neither;
  uniqueness also needs a rectangular table and an entry for every column.

Each action has one lemma that, under `Inv` and the action, gives
`Preserves == Inv' /\ CoverStep /\ RectStep`; the theorems combine them over
`Next` and close with PTL.  The only assumptions are those the module names
(`EmptyAssumption`, `BoundsAssumption`); TLC evaluates them in the runs.

### CSV stream

In `CsvStream_proofs`, for every dialect, alphabet and limit, and every cutting of
the input into chunks:

* `StreamSound`: `Spec => []Inv`, the inductive invariant.  `ControlOK` says where the
  position, the chunk and what was fed lie; `Typed` what the record `s` is made of and
  that a pointer into the input points at fed bytes only; `Good` that what was told is
  a prefix of well-formed records that fits the counters (`Told`), within the limits
  (`InLimits`), and that the length of the field in progress is bounded by
  max_field_bytes; `Kept` what happens to it when a call returns.
* `EventsInOrder` (`EventsWellFormed`), `HeldFieldIsBuffered` (`HeldFieldBuffered`) and
  `LimitsAreKept` (`LimitsHold`) follow from `Inv`.

A handler changes a copy of the stream and ends in one of a few ways (goes on, is
refused, starves, fails, ends a field or a record).  There is one lemma per ending,
saying what the copy has to be, and one per handler, which shows that it is.  What a
field reads as (`Collapse`, a recursive function) is bounded by `NatSetInduction`
over a set of lengths.

In its second half, for every alphabet, text, cutting and sequence of calls (refused
events and lacking memory included) of a *plain dialect*:

* `RecordsOfText`: `Spec => [](InLimit(s) => RecordsMatchText)`.
* `FinishCompletesRecords`: `Spec => [](InLimit(s) => FinishCompletesText)`.  Behind a
  finish that no refusal or lack of memory cut short the records told are those of the
  text and the status says whether it ended in a quote, unless the text has one of the
  two odd shapes or was rejected by feed (`RecordsOfText` says when that is).

`PlainDialect` is the dialect that `CsvText` describes, which the constants of the run
`stream` are an instance of: doubled quotes, LF newlines and no CR in the text, no
quotes or newlines in unquoted fields, no byte order mark stripped, a comment prefix of
at most one byte that is not LF, and a caller who keeps its input (`KeepInput`: an
unquoted field of one byte is held by pointer, section 5).  `InLimit(s)` says that no
limit was found exceeded; behind one the text is not read any further.  For the other
dialects the two properties stay with TLC's run.

The inductive invariant is `Matches`, on top of `Inv`.  `ReadUpTo(input, n)` is what the
reference has made of the first n bytes; `Follow` relates it, at the position the parser
is at, to the events heard (`Reported`: the fields and records told are those read) and
to the parser's state, and `Held` to the field in progress: unquoting the bytes held
gives the bytes the reference has read of the field.  The properties alone say nothing
of the middle of a call, nor of the field in progress.  Each handler of the state
machine gets a lemma, one per way it ends.  The folds (`Meaning`, the reader of events,
the halving of quotes) are reduced to one step more by `FoldedOneMore` of DataLemmas,
which needs induction over the lengths only; `PlainRun` says what a run of ordinary
bytes does to a reading, for the bulk scan of unquoted fields.

### CSV writer

In `CsvWriter_proofs`, for all options, fields, tables and sinks, and whatever write
fails:

* `WhatIsWrittenReadsBack`: `Spec => []RoundTrip`.
* `TerminatorFits`: `Spec => []RoomForTerminator`, and `FixedBufferKeepsPrefix`:
  `Spec => []FixedKeepsPrefix`.

`RoundTrip` speaks of the state between two calls; a call is many writes.  The
inductive invariant is `Typed /\ ReadsBack`: as long as the call has stored nothing the
output reads as before it (`Now`), and the output with the writes still to come
(`todo`) reads as it will after the call (`After`).  A call computes its writes before
the first, so that one lemma per call says that they lead one reading to the other
(`Leads`): a field quoted and escaped reads as itself, with either escape, and so does
one left bare because nothing in it needs quotes; rows and tables are runs of such
fields.  A taken write then only moves bytes from `todo` to the sink; a refused one
that stored something makes the output torn, and the property claims no more.  The two
facts about the sink follow from `SinkInv`, as for the JSON writer.  The assumptions
are `SinkAssumption`, `ByteAssumption` and `WriterAssumption`.

### JSON writer

In `JsonWriter_proofs`, for sinks and stacks of every size, all
options and outputs of every length:

* `FixedWriteKeepsInv`, `SinkTakesKeepsInv`, `SinkRefusesKeepsInv`: every write
  preserves `SinkInv == SinkTypeOK /\ RoomForTerminator /\ FixedKeepsPrefix`.  The
  three need one another: a truncated buffer has no room left (`FixedCases`), so
  nothing can be appended behind the gap.
* `TypeInvariant`: `Spec => []TypeOK`, with it `Len(stack) <= capacity`.
* `TerminatorFits`: `Spec => []RoomForTerminator`, and `FixedBufferKeepsPrefix`:
  `Spec => []FixedKeepsPrefix`.
* `TornOutputStaysFinal`: `Spec => TornOutputIsFinal`.
* `TextAndStackAgree`: `Spec => []TextMatchesStack`.  The reading of a text is a fold
  over its tokens; `ReadsOneMore` says what a token adds to it.  `ReadsOn` is the
  invariant of a call in progress: if the writes to come succeed, the text will read
  as the stack will say behind the call (`AfterOf`).  Each call gives a lemma that its
  writes lead one reading to the next (`Leads`).

The inductive invariant of the others is `Inv == TypeOK /\ SinkInv /\ CallInv`.  `CallInv` says what
a call relies on between its steps: the capacity is not 0 (doubling makes room),
ending or keying a container means there is one, and a torn output comes with the
error flag and no call in progress.  One lemma per kind of action.  The assumptions
are `SinkAssumption`, `TokenAssumption` and `WriterAssumption`.

### JSON stream

In `JsonStream_proofs`, for every set of texts, every cutting, all options and limits:

* `EventsKeepProtocol`: `Spec => EventsFollowProtocol`, the refinement of `JsonEvents`.
  `Seats` relates the state to the stack (a key is expected only within an object, the
  initial state has no container); under it every turn of the loops is a step of the
  protocol or none.  The stack of the protocol says of each container whether a key
  waits; the code keeps that for the innermost one only, in its state.
* `EveryLoopAdvances`: `Spec => LoopsAdvance`, so that feed and finish end.  The
  invariant `Buffered` says what window of the buffer the loops work on; the lemma
  `Lexes` says of every token the lexer can return that it took input unless it ends
  a cut one (`Reads`).
* `HeldBytesAreKept`: `Spec => []HeldBytesAreFed`.  `Keeps` says of the lexer that the
  bytes it leaves in the token buffer are those it had and those it read; `Tracked`
  that the buffer and the token buffer are end pieces of what was fed (`IsTail`), and
  that a cut token is resumed at the buffer's start.
* `FinishedWasComplete`: `Spec => []FinishedIsComplete`.  `Counted` says that as many
  containers ended as began, but for those on the stack.  A state other than the
  initial one then settles it; what remains is a stream that has told nothing.
  `Started` says that it has read nothing either, or only what finish will find
  incomplete again when it lexes the same bytes from the start (`Stalled`); that finish
  then fails needs `Tracked`.

These two, like the properties, are about texts that no cut spoils
(`CutsAreClean`, section 5).  The string and number scanners are folds over the bytes;
their lemmas are by `NatSetInduction` over how much was read.

Two theorems are of the lexer alone, for two chunks of any bytes and any token buffer:

* `CutStringsAreWhole`: a string cut anywhere, inside an escape too, gives in the next
  chunk the token, the error or the unfinished string that both chunks at once give.
  A fold over two chunks is the fold over the second from where the first one ended
  (`FoldedBoth`), and the token buffer holds all of the fold's state.
* `CutNumbersAreWhole`: the same of a number that is read or goes on, where the token
  buffer does not hold all of the state.  It forgets that the byte before was an `e`
  and that something was taken, so the two searches part at a sign.  `SearchesAgree`
  shows that they part there only, hence the hypothesis that no sign follows the
  number; the other hypothesis leaves out a minus where -Infinity is allowed, whose
  bytes are stored twice (section 5).  Both are needed.

They are the steps for tokens that `CompleteTextRead` would need; words are not among
them (a cut word is not held but read again).

### YAML reader

In `YamlReader_proofs`, for every set of texts (any sequences of bytes), every limit,
every first capacity of the queue and any lack of memory:

* `ReaderIsFifo`: `Spec => QueueIsFifo`, the refinement of the abstract queue.
* `DocumentsAreBalanced`: `Spec => []DocumentsBalanced`.
* `LimitsAreKept`: `Spec => []LimitsHold`.

All three follow from one inductive invariant, `Inv`: what is heard of the events
taken and waiting agrees with the stream's flags and counters (`Agrees`), the ring is
one that pushes and pops have made (`RingOK`), and a finished reader's stream has no
document open.  The properties alone are not inductive: they speak of events only, and
the stream must know what it told.  `Agrees` is weaker where the code is: the depth
stays increased when a container is refused, so it bounds what is heard and does not
equal it; an end that was not told for want of memory is lost, so it is claimed as
long as no memory lacked.

The steps are proved over the record of a run: `Sound` says `Agrees` of it, that its
queue goes on as it began (`Extends`), and that finish does not succeed with a document
open.  `StopSound`, `HoldingSound` and `TellSound` are about the three ways in which a
run changes; a lemma for each token follows.  `TurnsExist` and `DrainSound` are the
induction over the turns.  Finish needs one fact about the scanner, `ScannerAnswers`:
a finished scanner never says wait; that is shown of the scanner as modelled, without
the moved buffer of section 5.  The ring's lemmas keep `%` out of the steps: `SlotOf`
says once that the slot is `head + i` or that less the capacity.  `HeardPath` is the
fold event after event, from the community modules' definition of FoldLeft.

### File output

In `YamlFile_proofs`, for any number of processes, files and documents:

* `TempsAlwaysAccountedFor`: `Spec => []TempsAccountedFor`: a file with a temporary name
  belongs to a call in progress, or `fdopen` or `remove` failed on it, or its process ended.
* `ReadableIsFinal`: a file that a reader has open, or that has the path, is never
  written to again: the reason why reads are atomic.
* `FileRefinesRegister`: `Spec => FileIsAtomic`, the refinement of `AtomicFile`.

The first two follow from the inductive invariant `Own`: a temporary file that is
being written belongs to one process, is not the file at the path, and no reader has
it.  The refinement needs `Whole` beside it: of a writer that met no error, what is in
the file, in the buffer and still to come is together its text (`Joined`), so that a
file is a whole text when it is renamed; the file at the path and the readers' files
are whole texts, and a reader's size is that of its file, which no step of another
call changes (`OthersSeeNothing`).  Each step is then one of the register
(`FileIsReplaced` commits, `FileIsOpened` sees, `FileIsRead` returns), the failure of
a call (`FailStep`, `ForgetStep`) or nothing to it (`SilentStep`).  `TextIsRead` proves
of the format that a text is read as the document it was made of, `DetectedAtTwo` of
`detect_input_newline` that it finds the newline the text was written with.  Assumed:
documents have a line at least and no newline in a line (`DocsAssumption`), and callers
ask for a newline that YAML knows (`OptionsAssumption`; the option is any string in the
C interface, and a text with another one in it is not read back).

### Only model-checked

* What is read: `CompleteTextRead` and `EventsMatchText`, as well as
  `RecordsMatchText` and `FinishCompletesText` outside the plain dialect.  They compare
  with a reading of the whole text, of which the code sees a piece at a time; an
  invariant would relate the reading of a prefix to the state at it, as `Matches` does.
* The JSON parser and the DOM: their modules use RECURSIVE operators (trees), with which
  the prover loses its SMT backend.
* `FeedReturns`: liveness and ENABLED are out of the prover's reach.

## 5. Divergences met

Beside those with a run above (`StrictText`, `FinishReturns`), the models take these
steps of the code; no run is spent on them.

### CSV and the JSON writer

| Source | Code | Documentation |
|---|---|---|
| csv_table.c:4772 | set_header_row has padded all rows when it fails | csv_table.h:840-842 |
| csv_table.c:4607 | normalization leaves map entries of the columns it dropped | CSV.md:821 |
| csv_stream_state.c:728 | `""` cut after its closing quote is read as one quote | CSV.md:48 |
| csv_stream_state.c:526 | a delimiter after a doubled quote ends the quoted field | CSV.md:75, 992 |
| csv_stream_state.c:261 | an unquoted field of which one byte was read is not buffered at the end of a chunk; later it is read through a pointer into the caller's old chunk (`HeldFieldBuffered` names the exception) | csv_stream.h:79 "Can be called multiple times with different chunks of data." |
| csv_stream.c:243 | ESCAPE_IN_QUOTED is missing from the list of states that keep the buffer: a chunk that ends on a backslash drops the field so far | CSV.md:48 "maintains state between calls" |
| csv_stream_state.c:864 | an escape is translated in a buffered field only | CSV.md:76 "Escape quotes with backslash" |
| csv_utils.c:38, 277 | a CRLF or a byte order mark cut between chunks is not seen | CSV.md:48; csv_core.h:137 |
| csv_stream_state.c:782 | a CR that is no newline, after a closing quote, is neither consumed nor rejected: the loop spins to max_record_bytes | csv_stream_state.c:813-818 "Anything else is an error" |
| csv_stream_state.c:475 | a newline after a one-byte field is counted twice in line and total | csv_core.h:65 "Line number (1-based)" |
| csv_stream_state.c:952 | max_total_bytes is compared before a bulk scan only | csv_core.h:147 "Maximum total input size" |
| csv_stream_state.c:464 | a field of exactly max_field_bytes is rejected or not, depending on the chunks | csv_core.h:144 "Maximum field size in bytes" |
| csv_stream.c:139 | max_rows is stored, never compared | csv_core.h:140, CSV.md:105 |
| csv_stream.c:328 | a text that ends after a delimiter loses its empty last field | CSV.md:992 round trip |
| csv_stream.c:283 | a text that ends with the closing quote of a field is "unterminated" | CSV.md:981 "EOF inside quotes" |
| csv_stream.c:36 | after the callback refused an event, finish or feed calls it again | csv_stream.h:53 "error code to stop parsing" |
| csv_stream_state.c:263 | a CR that is no newline may start an unquoted field, nothing else in it | CSV.md:85 |
| csv_table.c:926 | duplicates are chained last first, so iteration from header_index finds only the last | csv_table.h:130-133 |
| csv_table.c:3592 | padding a short header row on insertion gives several empty names unchecked | csv_table.h:663-666 |
| csv_table.c:1662 | row_set of the only longest row with fewer fields leaves column_count above all rows | CSV.md:536 "maximum field count across all rows" |
| csv_table.c:1646 | strict row_set on an irregular table keeps the old field count | csv_table.h:283 |
| csv_table.c:1166 | after all columns were removed any row is taken as a first row | CSV.md:506 |
| csv_table.c:4068 | column_insert on a table without rows counts the column twice | csv_table.h:496 |
| csv_table.c:3714 | column_append under a short header row maps the name to another column than it is stored in | CSV.md:750 |
| csv_writer.c:25 | data NULL is rejected even with length 0, unless the field is quoted | csv_writer.h:226 "may be NULL if len is 0" |
| csv_writer.c:260 | a first field that starts with the comment prefix or a byte order mark is not quoted | csv_writer.h:282 "guaranteed to re-parse to the same fields" |
| csv_writer.c:725 | finish closes an open record, and never writes a trailing newline of its own | csv_writer.h:252 "If trailing_newline is enabled in options, a final newline will be written" |
| csv_writer.c:669 | a field retried after its delimiter was stored writes the delimiter again | csv_writer.h:282 |
| csv_writer.c:595 | without quote_empty_fields a record of one empty field is a blank line, which is skipped on reading | csv_writer.h:282 |
| json_writer.c:1772 | finish accepts no value, or several values one behind the other, at the top level | json_writer.h:382 "validates that the structure is complete" |
| json_writer.c:1172 | a container without a key is refused, a scalar without a key also sets the error flag | json_writer.c:1416 "Must write key before value" |

### JSON

| Source | Code | Documentation |
|---|---|---|
| json_parser.c:1055 | an object that fails frees the context it shares with its parents, whose parents free it again (`[{"a",}]`); a failed growth of an array or object too | json_parser.c:642-645 |
| json_parser.c:127-439 | max_string_bytes is not compared for strings in arrays; max_total_bytes nowhere | json_core.h |
| json_parser.c (COLLECT) | a first value that is an array absorbs the later ones; the collected array may exceed max_container_elems | json_core.h:109 |
| json_stream.c:307 | a number or value that resumes in the state VALUE is taken where a comma is due: `[1 2`, `]` | JSON.md:51 |
| json_stream.c | `{}` is rejected; `[1,]` and `{"a":}` are accepted whatever allow_trailing_commas says | JSON.md |
| json_stream.c | bytes behind the value are ignored or an error, depending on the chunks | JSON.md:51 |
| json_stream.c:385 | a token that is wrong in the middle of a chunk returns OK with the state ERROR | json_stream.h |
| json_stream.c | cut tokens: `-I`, `nfinity` fails; the rest of a cut `//` comment is read as tokens; a chunk that ends in `/` or in a comment fails; a byte order mark cut in two is not found | JSON.md:51 |
| json_stream.c:283 | every feed makes a new lexer, which skips a byte order mark at the start of its buffer, inside a string too: `"a` then EF BB BF `b"` is a string of two characters; `1e` then EF BB BF and finish is OK, with no event told | json_stream.h:117 "correctly handles values (strings, numbers) that span multiple chunks" |
| json_lexer.c:504 | with allow_nonfinite_numbers a minus behind which something else than a digit follows is stored twice: `- ` and finish is OK with no event told; `-In`, `finity` fails | json_stream.h:117 |
| json_stream.c | the element count of a container is reset by a container inside of it | json_core.h |
| json_patch.c:1044 | move adds before it removes: where the addition shifts the source, or the removal would have shifted the target, another element is moved or another place taken; onto itself or above itself it fails or deletes.  `Promised` leaves out these moves and keeps the others | json_patch.h:47, JSON.md:224 |
| json_patch.c | the test for a move into a descendant compares text, and empty tokens hide the descendant | RFC 6902 4.4 |
| json_patch.c:1119-1312 | copying the result back may fail and leaves the root torn | JSON.md:235 |
| json_patch.c | the last token may be `01` or empty (as index 0) and keeps a wrong `~x`; the root cannot be replaced; replace moves a member to the end | RFC 6902, RFC 6901 |
| json_patch.c (merge) | a new member keeps the nulls inside of it; a failed put frees the clone's context twice | RFC 7386 |
| json_pointer.c:195; json_patch.c:966, 1007, 1067, 1094 | a pointer whose evaluation lacks memory is reported as one that leads nowhere: E_INVALID, not E_OOM | json_core.h:34 "Out of memory" |
| json_pointer.c | empty tokens are skipped; a token that looks like an index never names a member | RFC 6901 |
| json_dom.c | equality tells an emptied container from one never filled; merge is not atomic under ERROR; contexts of foreign children leak when the root is patched | json_dom.h |

### YAML

Chunks, against yaml_stream.h:106 "accepts arbitrary chunk boundaries; it may buffer
input internally if a token or block scalar spans multiple calls": a plain scalar is
cut behind a blank or a colon; a single-quoted one inside a doubled quote; an escape
cut behind its backslash takes the backslash for the closing quote (also at the end
of all input); the name of an anchor or a tag that is not complete loses its
indicator (`!!` returns INCOMPLETE); a block scalar that is not complete loses its
header and the lines read; a UTF-32LE mark cut in two is read as UTF-16LE.  These
are the `safe` sets of MCYamlReader's pieces, and `EventsMatchText` holds for all
other cuts.

| Source | Code |
|---|---|
| scanner.c:704 | the header of a block scalar at the end of all input is never left (the run `yaml_finish_returns`) |
| scanner.c | an empty first line of a block scalar is lost; `---` is a marker at any column; `#` ends a plain scalar without a blank before it; the flow depth stops at 32 |
| scanner.c:99, 782 | a block scalar's line ends at an offset taken before `scanner_consume` moves the buffer (behind 1024 bytes): more than the line is consumed, or the loop never ends; beyond the model |
| stream.c:353 | the depth stays increased after E_DEPTH; no state keeps an error |
| stream.c:418, 459 | without memory the name of an anchor or a tag is lost in silence |
| stream.c:473 | feed returns behind an alias and leaves the rest of the chunk to the next call |
| stream.c | an anchor before an alias stays for the next node; finish forgets the directives it reads; the resolver is created and never asked |
| yaml_pull_reader.c:281 | STREAM_END is lost when there is no memory for it; a retry gives E_STATE |
| yaml_pull_reader.c:298 | bytes fed after finish put events behind STREAM_END |
| yaml_file_io.c:119 | the temporary file stays when it was made and cannot be opened |
| yaml_file_io.c:322, 334 | the result of `remove` is ignored: when it fails the temporary file stays and the caller hears of the first failure only |
| yaml_file_io.c | nothing is synced before the rename |

`HeaderMapStaysConsistent`, `StrictStaysRectangular`, `UniqueHeadersKept`,
`RecordsMatchText`, `FinishCompletesText`, `HeldFieldBuffered`, `EventsWellFormed`,
`RoundTrip`, `CompleteTextRead`, `HeldBytesAreFed`, `FinishedIsComplete` (the last two
only by `CutsAreClean`: no byte order mark behind the first byte where such are allowed,
no minus without a digit behind it where -Infinity is), `ParseFollowsText`,
`PatchFollowsRfc` and `EventsMatchText` name in their antecedents or references the
shapes where these start.

## 6. Plan

Done: CSV table, stream and writer; JSON writer, lexer, both parsers, DOM, pointer,
patch and merge patch; YAML scanner, stream, pull reader and file output; the proofs
of section 4.  Next, in this order:

1. The CSV stream composed with the table's event callback; the header index cache
   and the arena of compact and clone (csv_table.c:2285, csv_table.c:2884).
2. YAML documents: the parser's anchors and merge keys, sequence and mapping
   mutation (growth moves the node), the streaming writer's state.
3. `gtext_json_write_value` composed with the streaming writer.
4. Proofs: `CompleteTextRead`, from `CutStringsAreWhole` and `CutNumbersAreWhole`, the
   same for words and comments, and the reading of a prefix related to the state at
   it; the JSON parser's contexts (`NothingLeaks`), whose
   RECURSIVE operators would first become recursive functions.

Modules to prove about use no RECURSIVE operator and no Bitwise: recursion is a
fold or a recursive function.

## 7. Not modelled

Number and string conversion, UTF-8 decoding, message texts, JSON schema and YAML's
processing of a scalar's bytes are functions of their input without state between
calls.  The YAML document parser, resolution, DOM and writer are left to the plan:
they work on a finished document, and the stream below them carries the state that
chunks and failures disturb.  `yaml/reader.c` and the stream's resolver are not
reached by any call.  `index_to_entry` and the arena are part of the plan.  The
components with status `not_modelled` in PROJECT.json name their reasons.
