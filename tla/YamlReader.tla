----------------------------- MODULE YamlReader -----------------------------
(***************************************************************************)
(* The YAML pull reader (src/yaml/yaml_pull_reader.c) over the YAML stream *)
(* (stream.c): bytes are fed in chunks, the stream turns the scanner's     *)
(* tokens into events, the reader's callback copies them into its queue,   *)
(* and the caller takes them from there.                                   *)
(*                                                                         *)
(* A call of the stream drains the scanner: Drain is its loop, over a      *)
(* record of the stream, the reader's queue and how much memory is left    *)
(* (the events that can still be copied, and whether names can).  No state *)
(* keeps an error: the caller may go on after a call that failed.  Left    *)
(* out: positions, the cut of names at 255 bytes, synchronous mode.        *)
(***************************************************************************)
EXTENDS YamlScanner, EventRing, YamlReading

CONSTANTS
    Texts,          \* texts [pieces, encoding]
    MaxTotal,       \* the limit on all bytes
    Enough,         \* a number of events that no call exceeds
    Shortages       \* how many events a call that lacks memory can still copy
ASSUME ReaderAssumption ==
    Shortages \subseteq Nat /\ {MaxTotal, MaxDepth, MaxAliases, Enough} \subseteq Nat

VARIABLES
    text,       \* the text that is read
    fed,        \* how much of it has been fed
    stream,     \* struct GTEXT_YAML_Stream
    queue,      \* yaml_event_queue
    finished,   \* the reader's flag; stream_end_queued follows it
    call,       \* the last call ...
    status,     \* ... and what it returned
    taken,      \* history: the events the caller took
    blame       \* history: what happened that may change what is read

vars == <<text, fed, stream, queue, finished, call, status, taken, blame>>

NewStream == [scanner |-> NewScanner, total |-> 0, depth |-> 0, aliases |-> 0, anchor |-> NoName,
              tag |-> NoName, alias |-> FALSE, started |-> FALSE, closed |-> FALSE]

-----------------------------------------------------------------------------
(* The stream: a run of its loop.                                          *)

Start(s, q, finishing, supply) ==
    [stream |-> s, queue |-> q, status |-> "RUNS", finishing |-> finishing,
     memory |-> supply.events, forgets |-> supply.forgets]
Runs(r)       == r.status = "RUNS"
Stop(r, why)  == IF Runs(r) THEN [r EXCEPT !.status = why] ELSE r
Holding(r, s) == IF Runs(r) THEN [r EXCEPT !.stream = s] ELSE r

\* The callback: the event is copied and queued, and only then does the stream
\* change; or there is no memory for it.
Tell(r, e, after) ==
    CASE ~Runs(r)                 -> r
      [] Runs(r) /\ r.memory = 0  -> Stop(r, "OOM")
      [] OTHER -> [r EXCEPT !.memory = @ - 1, !.queue = Push(@, e), !.stream = after]

Open(r)          == r.stream.started /\ ~r.stream.closed
StartDocument(r) == Tell(r, Bare("DOCUMENT_START"), [r.stream EXCEPT !.started = TRUE, !.closed = FALSE])
EndDocument(r)   == Tell(r, Bare("DOCUMENT_END"), [r.stream EXCEPT !.closed = TRUE])
Ensured(r)       == IF Open(r) THEN r ELSE StartDocument(r)
TellNode(r, type, value) ==
    Tell(r, Event(type, value, r.stream.anchor, r.stream.tag),
         [r.stream EXCEPT !.anchor = NoName, !.tag = NoName])

\* stream_apply_alias_limit, stream_emit_alias.
AliasLimit(s) == s.aliases + 1 > MaxAliases
TellAlias(r, n) ==
    LET s == [r.stream EXCEPT !.aliases = @ + 1]
    IN  CASE n.type # "SCALAR"                              -> Stop(r, "BAD_TOKEN")
          [] n.type = "SCALAR" /\ AliasLimit(r.stream)      -> Stop(r, "LIMIT")
          [] OTHER -> Tell(Holding(r, s), Event("ALIAS", n.value, NoName, NoName), [s EXCEPT !.tag = NoName])

Scan(r)      == ScannerNext(r.stream.scanner)
Behind(r, n) == Holding(r, [r.stream EXCEPT !.scanner = n.scanner])
\* strdup is not checked: without memory the name is lost.
Kept(r, name) == IF r.forgets THEN NoName ELSE name

\* Behind "&" and "!" feed returns OK and forgets the indicator when its name
\* is not complete (behind "!!" it says so); finish has no such case.
NameOf(r, n, onWait) ==
    CASE n.status = "INCOMPLETE" -> Stop(r, onWait)
      [] n.status \notin {"OK", "INCOMPLETE"} -> Stop(r, n.status)
      [] n.status = "OK" /\ n.type # "SCALAR" -> Stop(r, "BAD_TOKEN")
      [] OTHER -> r
WithAnchor(t, name) == Holding(t, [t.stream EXCEPT !.anchor = Kept(t, name)])
Anchor(r, n) == WithAnchor(NameOf(r, n, "OK"), n.value)
WithTag(t, name) == Holding(t, [t.stream EXCEPT !.tag = Kept(t, name)])
LongTag(r, n) == WithTag(NameOf(Behind(r, n), n, "INCOMPLETE"), <<"!", "!">> \o n.value)
Tag(r, n) ==
    IF n.status = "OK" /\ n.type = "INDICATOR" /\ n.value = <<"!">> THEN LongTag(r, Scan(r))
    ELSE WithTag(NameOf(r, n, "OK"), <<"!">> \o n.value)
\* Feed returns behind an alias, with the rest of the chunk unread.
Alias(r, n) ==
    CASE n.status = "INCOMPLETE" -> Stop(Holding(r, [r.stream EXCEPT !.alias = TRUE]), "OK")
      [] n.status \notin {"OK", "INCOMPLETE"} -> Stop(r, n.status)
      [] OTHER -> Stop(TellAlias(Ensured(r), n), IF r.finishing THEN "RUNS" ELSE "OK")
\* What an indicator names is the next token.
NameBehind(r, n, c) ==
    CASE c = <<"&">> -> Anchor(Behind(r, n), n)
      [] c = <<"!">> -> Tag(Behind(r, n), n)
      [] c = <<"*">> -> Alias(Behind(r, n), n)

\* Faulty: the depth is compared before it is increased.
TooDeepLate(depth) == depth - 1 > MaxDepth
TooDeep(depth) == depth > MaxDepth
Container(r, c) ==
    LET s == [r.stream EXCEPT !.depth = @ + 1]
    IN  IF TooDeep(s.depth) THEN Stop(Holding(r, s), "DEPTH") ELSE TellNode(Holding(r, s), Opening[c], <<>>)
ContainerEnd(r, c) ==
    LET s == [r.stream EXCEPT !.depth = IF @ = 0 THEN 0 ELSE @ - 1]
    IN  Tell(Holding(r, s), Bare(Closing[c]), s)
OnIndicator(r, c) ==
    CASE ~Runs(r) -> r
      [] Runs(r) /\ c \in DOMAIN Opening -> Container(r, c)
      [] Runs(r) /\ c \in DOMAIN Closing -> ContainerEnd(r, c)
      [] Runs(r) /\ c \in {<<"&">>, <<"!">>, <<"*">>} -> NameBehind(r, Scan(r), c)
      [] OTHER -> Tell(r, Event("INDICATOR", c, NoName, NoName), r.stream)

\* Faulty: a document that is open is not ended.
NextDocumentOnly(r) == StartDocument(r)
NextDocument(r) == StartDocument(IF Open(r) THEN EndDocument(r) ELSE r)

\* One turn of the loop; finish forgets a directive.
OnToken(r, n) ==
    CASE r.stream.alias ->
           IF n.type # "SCALAR" THEN Stop(r, "BAD_TOKEN")
           ELSE TellAlias(Ensured(Holding(r, [r.stream EXCEPT !.alias = FALSE])), n)
      [] ~r.stream.alias /\ n.type = "DOCUMENT_START" -> NextDocument(r)
      [] ~r.stream.alias /\ n.type = "DOCUMENT_END"   -> EndDocument(Ensured(r))
      [] ~r.stream.alias /\ n.type = "COMMENT"        ->
           IF RetainComments THEN Tell(r, Event("COMMENT", n.value, NoName, NoName), r.stream) ELSE r
      [] ~r.stream.alias /\ n.type = "DIRECTIVE"      ->
           IF r.finishing THEN r ELSE Tell(r, Event("DIRECTIVE", n.value, NoName, NoName), r.stream)
      [] ~r.stream.alias /\ n.type = "INDICATOR"      -> OnIndicator(Ensured(r), n.value)
      [] ~r.stream.alias /\ n.type = "SCALAR"         -> TellNode(Ensured(r), "SCALAR", n.value)

TurnBehind(r, n) ==
    CASE n.status = "INCOMPLETE"              -> Stop(r, "OK")
      [] n.status \notin {"OK", "INCOMPLETE"} -> Stop(r, n.status)
      [] n.status = "OK" /\ n.type = "EOF"    ->
           Stop(IF r.finishing /\ Open(r) THEN EndDocument(r) ELSE r, "OK")
      [] n.status = "OK" /\ n.type # "EOF"    -> OnToken(r, n)
TurnFrom(r, n) == TurnBehind(Behind(r, n), n)
Turn(r) == IF Runs(r) THEN TurnFrom(r, Scan(r)) ELSE r
\* A turn that does not end the loop takes a byte at least, of MaxTotal at most.
Drain(r) ==
    LET after[k \in 0..(MaxTotal + 1)] == IF k = 0 THEN r ELSE Turn(after[k - 1])
    IN  after[MaxTotal + 1]

\* gtext_yaml_stream_feed and gtext_yaml_stream_finish.
StreamFeed(s, q, bytes, supply) ==
    LET counted == [s EXCEPT !.total = @ + Len(bytes)]
        holding == [counted EXCEPT !.scanner = ScannerFeed(@, bytes)]
    IN  CASE counted.total > MaxTotal -> Stop(Start(s, q, FALSE, supply), "LIMIT")
          [] counted.total <= MaxTotal /\ FeedFails(s.scanner, bytes) ->
               Stop(Start(holding, q, FALSE, supply), "OOM")
          [] OTHER -> Drain(Start(holding, q, FALSE, supply))
StreamFinish(s, q, supply) ==
    Drain(Start([s EXCEPT !.scanner = ScannerFinish(@)], q, TRUE, supply))

-----------------------------------------------------------------------------
(* The reader.                                                             *)

Bytes == Written(Characters(text.pieces), text.encoding)
Hangs == status = "LOOPS"

Init ==
    /\ text \in Texts /\ fed = 0
    /\ stream = NewStream /\ finished = FALSE
    /\ queue = Push(EmptyQueue, Bare("STREAM_START")) /\ taken = <<>>
    /\ call = "new" /\ status = "OK" /\ blame = {}

\* What is to blame for this call and those before: memory that lacked, a chunk
\* that was cut or a text that ended too early, bytes behind the end, a call
\* after one that failed.
Blamed(failing, cut) == blame' = blame
    \union (IF failing THEN {"memory"} ELSE {}) \union (IF cut THEN {"cut"} ELSE {})
    \union (IF finished THEN {"late"} ELSE {}) \union (IF status # "OK" THEN {"error"} ELSE {})

\* gtext_yaml_reader_feed with bytes.
Feed(n, supply) ==
  \E r \in {StreamFeed(stream, queue, SubSeq(Bytes, fed + 1, fed + n), supply)} :
    LET refused == r.stream.total = stream.total /\ n > 0
    IN  /\ stream' = r.stream /\ queue' = r.queue
        /\ fed' = (IF refused THEN fed ELSE fed + n)
        /\ call' = "feed" /\ status' = r.status
        /\ Blamed(r.status = "OOM" \/ supply.forgets,
                  refused \/ ~SafeCut(text.pieces, text.encoding, fed'))
        /\ UNCHANGED <<text, finished, taken>>

\* gtext_yaml_reader_feed without: the reader is finished before the end of the
\* stream is queued.
FinishAgain ==
    /\ finished
    /\ call' = "finish" /\ status' = "STATE" /\ Blamed(FALSE, FALSE)
    /\ UNCHANGED <<text, fed, stream, queue, finished, taken>>
Finish(supply) ==
  \E r \in {StreamFinish(stream, queue, supply)} :
    LET room == r.memory > 0
    IN  /\ ~finished
        /\ stream' = r.stream
        /\ queue' = (IF r.status = "OK" /\ room THEN Push(r.queue, Bare("STREAM_END")) ELSE r.queue)
        /\ finished' = (r.status = "OK")
        /\ call' = "finish" /\ status' = (IF r.status = "OK" /\ ~room THEN "OOM" ELSE r.status)
        /\ Blamed(status' = "OOM" \/ supply.forgets, fed < Len(Bytes))
        /\ UNCHANGED <<text, fed, taken>>

\* gtext_yaml_reader_next.
Take ==
    /\ queue.count > 0
    /\ taken' = Append(taken, First(queue)) /\ queue' = Pop(queue)
    /\ UNCHANGED <<text, fed, stream, finished, call, status, blame>>

\* A bound: memory lacks in one call, for its events or for its names.
Plenty == [events |-> Enough, forgets |-> FALSE]
Supplies == {Plenty} \union IF "memory" \in blame THEN {}
    ELSE {[Plenty EXCEPT !.forgets = TRUE]} \union {[Plenty EXCEPT !.events = n] : n \in Shortages}
Next == ~Hangs /\
    \/ \E supply \in Supplies :
          Finish(supply) \/ \E n \in 0..(Len(Bytes) - fed) : Feed(n, supply)
    \/ FinishAgain \/ Take
Spec == Init /\ [][Next]_vars

-----------------------------------------------------------------------------
(* Properties.                                                             *)

\* What the caller has heard and will hear.
Delivered == taken \o Contents(queue)
\* Directives are left out: finish forgets those that feed has not read.
Without(events) == SelectSeq(events, LAMBDA e : e.type # "DIRECTIVE")

\* Wherever a text is cut, as long as the chunks end where they safely may, the
\* reader delivers the events of the text, each node with its own anchor and
\* tag, up to the first error; all of them once the reader is finished; and a
\* call fails exactly where the text is wrong or a limit is exceeded.
EventsMatchText ==
    LET m == Meaning(text.pieces)
        told == Without(Delivered)
    IN  blame = {} =>
          /\ IsPrefix(told, Without(m.events))
          /\ status # "OK" => told = Without(m.events) /\ status = m.status
          /\ finished => told = Without(m.events) /\ m.status = "OK"

\* What a caller that listens to the events delivered knows: whether a document
\* is open and all was well so far; how many containers are open, and were at
\* most; how many aliases there were.
Unheard == [open |-> FALSE, well |-> TRUE, now |-> 0, most |-> 0, aliases |-> 0]
Hear(h, e) ==
    LET node == [h EXCEPT !.well = @ /\ h.open]
    IN  CASE e.type = "DOCUMENT_START" -> [h EXCEPT !.open = TRUE, !.well = @ /\ ~h.open]
          [] e.type = "DOCUMENT_END"   -> [h EXCEPT !.open = FALSE, !.well = @ /\ h.open]
          [] e.type = "STREAM_END"     -> [h EXCEPT !.well = @ /\ ~h.open]
          [] e.type \in {"STREAM_START", "COMMENT", "DIRECTIVE"} -> h
          [] e.type \in {"SEQUENCE_START", "MAPPING_START"} ->
               [node EXCEPT !.now = @ + 1, !.most = IF h.now = @ THEN @ + 1 ELSE @]
          [] e.type \in {"SEQUENCE_END", "MAPPING_END"} -> [node EXCEPT !.now = IF @ = 0 THEN 0 ELSE @ - 1]
          [] e.type = "ALIAS" -> [node EXCEPT !.aliases = @ + 1]
          [] OTHER -> node
Heard(events) == FoldLeft(Hear, Unheard, events)

\* The documents of the events delivered begin and end in turn, every node is
\* inside of one and the stream ends outside, however the text is cut, whatever
\* allocation fails and whatever the caller does then.
DocumentsBalanced ==
    /\ Heard(Delivered).well
    /\ finished /\ "late" \notin blame => ~Heard(Delivered).open

\* No more containers are delivered inside each other than MaxDepth and no more
\* aliases than MaxAliases, also when the caller goes on after a call that
\* failed.  (An end that was not delivered for want of memory is counted.)
LimitsHold ==
    /\ "memory" \notin blame => Heard(Delivered).most <= MaxDepth
    /\ Heard(Delivered).aliases <= MaxAliases

\* The ring is a queue: see EventFifo.
Fifo == INSTANCE EventFifo WITH waiting <- Contents(queue)
QueueIsFifo == Fifo!Spec

\* yaml_stream.h says of finish: "Returns GTEXT_YAML_OK on success or an error
\* status", so it returns.
FinishReturns == blame = {} => ~Hangs
=============================================================================
