----------------------------- MODULE JsonWriter -----------------------------
(***************************************************************************)
(* The streaming JSON writer of src/json/json_writer.c: a stack of open    *)
(* containers decides where commas go and which calls are refused, every   *)
(* call becomes a sequence of sink writes, and the first write that fails  *)
(* puts the writer in an error state for good.                             *)
(*                                                                         *)
(* A call is begun by an action named after it, which sets todo to the     *)
(* sink writes it will make; each step of SinkWrite is one of them, and    *)
(* Return is what the function does after the last.                        *)
(*                                                                         *)
(* Output is a sequence of tokens (JsonText): a string is its two quotes   *)
(* and one write between them, white space is one token however long.      *)
(* Left out: null arguments (rejected at once), the text of scalars.       *)
(***************************************************************************)
EXTENDS Sink, JsonText

CONSTANTS
    Options,        \* write options a writer may be given
    StackCapacity,  \* JSON_WRITER_DEFAULT_STACK_CAPACITY (32)
    MaxCapacity     \* the stack's greatest capacity (2^20)

ASSUME TokenAssumption == Byte = Tokens
ASSUME WriterAssumption ==
    /\ Options \subseteq [pretty : BOOLEAN, spaces : BOOLEAN, trailingNewline : BOOLEAN,
                          nonfinite : BOOLEAN]
    /\ {StackCapacity, MaxCapacity} \subseteq Nat \ {0}

VARIABLES
    opts,      \* w->opts; spaces stands for space_after_comma and space_after_colon
    stack,     \* w->stack[0 .. stack_size - 1]
    capacity,  \* w->stack_capacity
    error,     \* w->error
    call,      \* the call in progress, "none" between calls
    todo,      \* the sink writes it has still to make
    mark,      \* history: bytes in the sink when the call began
    torn       \* history: some call failed after it had stored something

vars == <<sink, offered, opts, stack, capacity, error, call, todo, mark, torn>>

-----------------------------------------------------------------------------
(* The stack.                                                              *)

Entry(type) == [type |-> type, hasElements |-> FALSE, expectingKey |-> type = "object"]
Top         == Last(stack)
InObjectNow == stack # <<>> /\ Top.type = "object"
NeedsKey    == InObjectNow /\ Top.expectingKey

\* What every value does to its container when it is complete.
Elements(st) ==
    IF st = <<>> THEN st
    ELSE [st EXCEPT ![Len(st)].hasElements = TRUE,
                    ![Len(st)].expectingKey = (st[Len(st)].type = "object")]
\* Faulty: the object that was closed is not a value of the object around it.
PoppedOnly == Front(stack)
Popped == Elements(Front(stack))
KeyTaken == [stack EXCEPT ![Len(stack)].expectingKey = FALSE]

-----------------------------------------------------------------------------
(* The sink writes of a call.                                              *)

Write(tokens) == [bytes |-> tokens, fails |-> FALSE]
\* A value that is rejected after its comma was written.
Rejected      == [bytes |-> <<>>, fails |-> TRUE]
Space         == Write(<<"ws">>)
Optional(wanted, write) == IF wanted THEN <<write>> ELSE <<>>

\* Faulty: an object's comma is left to its value.
CommaWritesNotForKeys ==
    IF stack # <<>> /\ Top.hasElements
    THEN Optional(~NeedsKey, Write(<<",">>)) \o Optional(opts.pretty \/ opts.spaces, Space)
    ELSE Optional(stack # <<>> /\ opts.pretty, Space)
\* writer_write_comma_if_needed.
CommaWrites ==
    IF stack # <<>> /\ Top.hasElements
    THEN <<Write(<<",">>)>> \o Optional(opts.pretty \/ opts.spaces, Space)
    ELSE Optional(stack # <<>> /\ opts.pretty, Space)

StringWrites == <<Write(<<"quote">>), Write(<<"text">>), Write(<<"quote">>)>>
ColonWrites  == IF opts.pretty THEN <<Write(<<":", "ws">>)>>
                ELSE <<Write(<<":">>)>> \o Optional(opts.spaces, Space)
Opening(type) == Write(IF type = "array" THEN <<"[">> ELSE <<"{">>)
Closing(type) == Write(IF type = "array" THEN <<"]">> ELSE <<"}">>)

ValueWrites(kind) ==
    CASE kind = "string"                           -> StringWrites
      [] kind = "nonfinite" /\ ~opts.nonfinite     -> <<Rejected>>
      [] OTHER                                     -> <<Write(<<"scalar">>)>>

-----------------------------------------------------------------------------
(* Calls.                                                                  *)

Init ==
    /\ opts \in Options
    /\ sink \in NewSinks /\ offered = <<>>
    /\ stack = <<>> /\ capacity = StackCapacity
    /\ error = FALSE /\ call = "none" /\ todo = <<>> /\ mark = 0 /\ torn = FALSE

Begin(c, writes) ==
    /\ call = "none"
    /\ Len(offered) + Len(writes) < OutBound
    /\ call' = c /\ todo' = writes /\ mark' = Len(sink.out)
    /\ UNCHANGED <<sink, offered, opts, stack, capacity, error, torn>>

\* A call out of order is refused; some calls put the writer in its error state.
Refuse(fatal) ==
    /\ call = "none"
    /\ error' = (error \/ fatal)
    /\ UNCHANGED <<sink, offered, opts, stack, capacity, call, todo, mark, torn>>

\* gtext_json_writer_object_begin and _array_begin.
ContainerBegin(type) ==
    \/ (error \/ NeedsKey) /\ Refuse(FALSE)
    \/ /\ ~error /\ ~NeedsKey
       /\ Begin(type, CommaWrites \o <<Opening(type)>>)

MayEnd(type) ==
    /\ ~error /\ stack # <<>> /\ Top.type = type
    /\ type = "object" => Top.expectingKey
ContainerEnd(type) ==
    \/ ~MayEnd(type) /\ Refuse(FALSE)
    \/ MayEnd(type) /\ Begin("end", Optional(opts.pretty /\ Top.hasElements, Space)
                                      \o <<Closing(type)>>)

Key ==
    \/ (error \/ ~NeedsKey) /\ Refuse(FALSE)
    \/ /\ ~error /\ NeedsKey
       /\ Begin("key", CommaWrites \o StringWrites \o ColonWrites)

\* gtext_json_writer_null, _bool, _number_lexeme, _i64, _u64, _double, _string.
Value(kind) ==
    \/ (error \/ NeedsKey) /\ Refuse(NeedsKey)
    \/ /\ ~error /\ ~NeedsKey
       /\ Begin("value", CommaWrites \o ValueWrites(kind))

Finish ==
    \/ (error \/ stack # <<>>) /\ Refuse(FALSE)
    \/ /\ ~error /\ stack = <<>>
       /\ Begin("finish", Optional(opts.trailingNewline, Space))

-----------------------------------------------------------------------------
(* The course of a call.                                                   *)

Goes == /\ todo' = Tail(todo)
        /\ UNCHANGED <<opts, stack, capacity, error, call, mark, torn>>

\* Faulty: a value that is rejected leaves the writer usable.
FailsUnlessRejected ==
    /\ call' = "none" /\ todo' = <<>>
    /\ error' = ~Head(todo).fails
    /\ torn' = (torn \/ Len(sink'.out) > mark)
    /\ UNCHANGED <<opts, stack, capacity, mark>>
\* Whatever fails sets the error flag and ends the call.
Fails ==
    /\ call' = "none" /\ todo' = <<>>
    /\ error' = TRUE
    /\ torn' = (torn \/ Len(sink'.out) > mark)
    /\ UNCHANGED <<opts, stack, capacity, mark>>

SinkWrite ==
    /\ todo # <<>>
    /\ LET write == Head(todo)
       IN  \/ write.fails /\ UNCHANGED <<sink, offered>> /\ Fails
           \/ ~write.fails /\ SinkTakes(write.bytes) /\ Goes
           \/ ~write.fails /\ SinkRefuses(write.bytes) /\ Fails

Done == /\ call' = "none"
        /\ UNCHANGED <<sink, offered, opts, todo, mark>>

\* writer_push_stack: a full stack is doubled, if there is memory for it.
\* Faulty: the stack is grown one entry too late.
FullLate == Len(stack) > capacity
Full == Len(stack) >= capacity
Pushes(type) ==
    /\ Full => 2 * capacity <= MaxCapacity
    /\ stack' = Append(stack, Entry(type))
    /\ capacity' = IF Full THEN 2 * capacity ELSE capacity
    /\ UNCHANGED <<error, torn>> /\ Done
PushFails ==
    /\ Full /\ error' = TRUE /\ torn' = TRUE
    /\ UNCHANGED <<stack, capacity>> /\ Done

Return ==
    /\ todo = <<>>
    /\ \/ call \in {"object", "array"} /\ (Pushes(call) \/ PushFails)
       \/ /\ call \in {"end", "key", "value", "finish"}
          /\ stack' = CASE call = "end"    -> Popped
                        [] call = "key"    -> KeyTaken
                        [] call = "value"  -> Elements(stack)
                        [] call = "finish" -> stack
          /\ UNCHANGED <<capacity, error, torn>> /\ Done

Next ==
    \/ \E type \in {"object", "array"} : ContainerBegin(type) \/ ContainerEnd(type)
    \/ \E kind \in {"scalar", "string", "nonfinite"} : Value(kind)
    \/ Key \/ Finish \/ SinkWrite \/ Return

Spec == Init /\ [][Next]_vars

-----------------------------------------------------------------------------
(* Properties.                                                             *)

EntryType == [type : {"object", "array"}, hasElements : BOOLEAN, expectingKey : BOOLEAN]

\* Every variable keeps its type and the stack its capacity; only an object
\* expects a key.
TypeOK ==
    /\ SinkTypeOK
    /\ opts \in Options
    /\ stack \in Seq(EntryType) /\ capacity \in Nat
    /\ Len(stack) <= capacity
    /\ \A i \in DOMAIN stack : stack[i].expectingKey => stack[i].type = "object"
    /\ error \in BOOLEAN /\ torn \in BOOLEAN /\ mark \in Nat
    /\ call \in {"none", "object", "array", "end", "key", "value", "finish"}
    /\ todo \in Seq([bytes : Seq(Byte), fails : BOOLEAN])
    /\ call = "none" => todo = <<>>

\* What the stack says comes next.
Awaited ==
    IF stack = <<>> \/ (InObjectNow /\ ~Top.expectingKey) THEN "value"
    ELSE IF Top.hasElements THEN "after" ELSE "first"

\* JSON.md, the writer maintains an internal stack to ensure valid JSON: until
\* something fails the output reads as JSON, but for the doubled commas of
\* StrictText, and stack and text agree on the containers that are open, on
\* which have elements and on what may follow.
TextMatchesStack ==
    call = "none" /\ ~error =>
        LET r == Reads(sink.out)
        IN  /\ r.at = Awaited
            /\ r.open = [i \in DOMAIN stack |-> [type |-> stack[i].type,
                                                 hasElements |-> stack[i].hasElements]]

\* When a call failed after part of it was stored, nothing is ever added to the
\* torn output: no way a call can fail leaves the writer usable.
TornOutputIsFinal == [][torn => torn' /\ sink' = sink]_vars

-----------------------------------------------------------------------------
(* What the documentation promises and the code does not do.               *)

\* The same with commas where JSON has them.
StrictText == call = "none" /\ ~error => ~Reads(sink.out).doubled
=============================================================================
