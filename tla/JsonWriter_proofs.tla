-------------------------- MODULE JsonWriter_proofs -------------------------
(***************************************************************************)
(* Proofs about JsonWriter for sinks, stacks, options and outputs of every *)
(* size: the type invariant with the bounds of the stack, the safety of    *)
(* the sink, that a torn output is final, and that the output, read as     *)
(* JSON, agrees with the stack until something fails (TextAndStackAgree).  *)
(***************************************************************************)
EXTENDS JsonWriter, DataLemmas

\* What every write to a sink preserves.
SinkInv == SinkTypeOK /\ RoomForTerminator /\ FixedKeepsPrefix

WriteType == [bytes : Seq(Byte), fails : BOOLEAN]

\* What the calls rely on between their steps: the stack has a capacity, a call
\* that ends or keys a container has one, and a writer that left a torn output
\* is in its error state.
CallInv ==
    /\ capacity # 0
    /\ call \in {"end", "key"} => stack # <<>>
    /\ torn => error /\ call = "none"

Inv == TypeOK /\ SinkInv /\ CallInv

-----------------------------------------------------------------------------
(* Every write to a sink, taken or refused.                                *)

LEMMA NewSinkInv ==
  ASSUME sink \in NewSinks, offered = <<>>
  PROVE  SinkInv
<1>1. <<>> \in Seq(Byte) /\ Len(<<>>) = 0
  BY EmptySeq
<1>2. PICK k \in {"growable", "fixed"}, n \in Nat :
           /\ sink = [kind |-> k, out |-> <<>>, size |-> n, truncated |-> FALSE]
           /\ k = "growable" => n = 0
           /\ k = "fixed" => n > 0
  <2>1. CASE sink \in [kind : {"growable"}, out : {<<>>}, size : {0}, truncated : {FALSE}]
    <3>1. sink = [kind |-> "growable", out |-> <<>>, size |-> 0, truncated |-> FALSE]
      BY <2>1
    <3> QED BY <3>1
  <2>2. CASE sink \in [kind : {"fixed"}, out : {<<>>}, size : SinkSizes, truncated : {FALSE}]
    <3>1. sink = [kind |-> "fixed", out |-> <<>>, size |-> sink.size, truncated |-> FALSE]
      BY <2>2
    <3>2. sink.size \in SinkSizes
      BY <2>2
    <3>3. \A n \in SinkSizes : n \in Nat /\ n # 0
      BY SinkAssumption
    <3>4. sink.size \in Nat /\ sink.size # 0
      BY <3>2, <3>3
    <3> QED BY <3>1, <3>4
  <2> QED BY <2>1, <2>2 DEF NewSinks
<1>3. SinkTypeOK /\ RoomForTerminator
  BY <1>1, <1>2 DEF SinkTypeOK, RoomForTerminator
<1>4. sink.out = offered /\ sink.truncated = FALSE
  BY DEF NewSinks
<1>5. IsPrefix(sink.out, offered)
  BY <1>1, <1>4, PrefixOfItself
<1>6. FixedKeepsPrefix
  BY <1>1, <1>4, <1>5 DEF FixedKeepsPrefix
<1> QED BY <1>3, <1>6 DEF SinkInv

LEMMA RoomType ==
  ASSUME SinkInv, sink.kind = "fixed"
  PROVE  Room \in Nat /\ Len(sink.out) + Room = sink.size - 1
BY LenProperties DEF SinkInv, SinkTypeOK, RoomForTerminator, Room

\* A fixed buffer that is not truncated holds all that was offered, one that is
\* has no room left.
LEMMA FixedCases ==
  ASSUME SinkInv, sink.kind = "fixed"
  PROVE  /\ ~sink.truncated => sink.out = offered
         /\ sink.truncated => Room = 0
<1>1. sink.out \in Seq(Byte) /\ offered \in Seq(Byte)
  BY DEF SinkInv, SinkTypeOK
<1>2. Len(sink.out) \in Nat /\ Len(offered) \in Nat
  BY <1>1, LenProperties
<1>3. ~sink.truncated => sink.out = offered
  BY <1>1, <1>2, WholePrefix DEF SinkInv, FixedKeepsPrefix
<1>4. sink.truncated => Room = 0
  BY <1>2, RoomType DEF SinkInv, FixedKeepsPrefix
<1> QED BY <1>3, <1>4

\* Writing two or one of the fields of a record with a sink's type.
LEMMA SinkFields ==
  ASSUME SinkTypeOK, NEW o \in Seq(Byte), NEW n \in Nat, NEW t \in BOOLEAN,
         sink' = [sink EXCEPT !.out = o, !.size = n, !.truncated = t],
         offered' \in Seq(Byte)
  PROVE  /\ sink'.kind = sink.kind /\ sink'.out = o /\ sink'.size = n /\ sink'.truncated = t
         /\ SinkTypeOK'
BY DEF SinkTypeOK

\* A write to a fixed buffer, taken or refused.
LEMMA FixedWriteKeepsInv ==
  ASSUME SinkInv, sink.kind = "fixed", NEW bytes \in Seq(Byte),
         sink' = FixedTakes(bytes), offered' = offered \o bytes
  PROVE  SinkInv'
<1>1. /\ SinkTypeOK /\ sink.out \in Seq(Byte) /\ offered \in Seq(Byte)
      /\ sink.size \in Nat /\ sink.truncated \in BOOLEAN
      /\ sink \in [kind : {"growable", "fixed"}, out : Seq(Byte), size : Nat, truncated : BOOLEAN]
  BY DEF SinkInv, SinkTypeOK
<1>2. Len(sink.out) \in Nat /\ Len(offered) \in Nat /\ Len(bytes) \in Nat
  BY <1>1, LenProperties
<1>3. Room \in Nat /\ Len(sink.out) + Room = sink.size - 1
  BY RoomType
<1>4. offered' \in Seq(Byte) /\ Len(offered') = Len(offered) + Len(bytes)
  BY <1>1, ConcatProperties
<1>5. IsPrefix(sink.out, offered)
  BY DEF SinkInv, FixedKeepsPrefix
<1>6. CASE Len(bytes) > Room
  <2> DEFINE kept == sink.out \o SubSeq(bytes, 1, Room)
  <2>1. Room \in 0..Len(bytes)
    BY <1>2, <1>3, <1>6
  <2>2. /\ kept \in Seq(Byte) /\ Len(kept) = Len(sink.out) + Room
        /\ IsPrefix(kept, sink.out \o bytes)
    BY <1>1, <2>1, PrefixOfPart
  <2>3. sink' = [sink EXCEPT !.out = kept, !.truncated = TRUE]
    BY <1>6 DEF FixedTakes
  <2>4. ASSUME sink.truncated
        PROVE  IsPrefix(kept, offered') /\ Len(offered') > Len(kept)
    <3>1. Room = 0
      BY <2>4, FixedCases
    <3>2. kept = sink.out
      BY <1>1, <3>1, ConcatEmptySeq, SubSeqEmpty
    <3>3. IsPrefix(kept, offered')
      BY <1>1, <1>5, <3>2, PrefixOfLonger
    <3>4. Len(offered) > Len(sink.out)
      BY <2>4 DEF SinkInv, FixedKeepsPrefix
    <3> HIDE DEF kept
    <3>5. Len(offered') > Len(kept)
      BY <1>2, <1>4, <3>2, <3>4
    <3> QED BY <3>3, <3>5
  <2> HIDE DEF kept
  <2>5. ASSUME ~sink.truncated
        PROVE  IsPrefix(kept, offered') /\ Len(offered') > Len(kept)
    <3>1. sink.out = offered
      BY <2>5, FixedCases
    <3>2. sink.out \o bytes = offered'
      BY <3>1
    <3> QED BY <1>2, <1>3, <1>4, <1>6, <2>2, <3>1, <3>2
  <2>6. IsPrefix(kept, offered') /\ Len(offered') > Len(kept)
    BY <1>1, <2>4, <2>5
  <2>7. sink' = [sink EXCEPT !.out = kept, !.size = sink.size, !.truncated = TRUE]
    BY <1>1, <2>3
  <2>8. /\ sink'.kind = "fixed" /\ sink'.out = kept /\ sink'.size = sink.size
        /\ sink'.truncated = TRUE /\ SinkTypeOK'
    BY <1>1, <1>4, <2>2, <2>7, SinkFields
  <2>9. Len(kept) = sink.size - 1 /\ Len(kept) < sink.size
    BY <1>1, <1>2, <1>3, <2>2
  <2>10. RoomForTerminator'
    BY <2>8, <2>9 DEF RoomForTerminator
  <2>11. FixedKeepsPrefix'
    BY <2>6, <2>8, <2>9 DEF FixedKeepsPrefix
  <2> QED BY <2>8, <2>10, <2>11 DEF SinkInv
<1>7. CASE ~(Len(bytes) > Room)
  <2> DEFINE kept == sink.out \o bytes
  <2>1. kept \in Seq(Byte) /\ Len(kept) = Len(sink.out) + Len(bytes)
    BY <1>1, ConcatProperties
  <2>2. sink' = [sink EXCEPT !.out = kept]
    BY <1>7 DEF FixedTakes
  <2>3. ASSUME sink.truncated
        PROVE  IsPrefix(kept, offered') /\ Len(offered') > Len(kept) /\ Len(kept) = sink.size - 1
    <3>1. Len(bytes) = 0
      BY <1>2, <1>7, <2>3, FixedCases
    <3>2. bytes = <<>>
      BY <3>1, EmptySeq
    <3>3. kept = sink.out /\ offered' = offered
      BY <1>1, <3>2, ConcatEmptySeq
    <3> QED BY <1>5, <2>3, <3>3 DEF SinkInv, FixedKeepsPrefix
  <2>4. ASSUME ~sink.truncated
        PROVE  IsPrefix(kept, offered') /\ ~(Len(offered') > Len(kept))
    <3>1. kept = offered'
      BY <2>4, FixedCases
    <3>2. IsPrefix(kept, offered')
      BY <1>4, <3>1, PrefixOfItself
    <3>3. ~(Len(offered') > Len(kept))
      BY <1>4, <1>2, <3>1
    <3> QED BY <3>2, <3>3
  <2> HIDE DEF kept
  <2>5. sink' = [sink EXCEPT !.out = kept, !.size = sink.size, !.truncated = sink.truncated]
    BY <1>1, <2>2
  <2>6. /\ sink'.kind = "fixed" /\ sink'.out = kept /\ sink'.size = sink.size
        /\ sink'.truncated = sink.truncated /\ SinkTypeOK'
    BY <1>1, <1>4, <2>1, <2>5, SinkFields
  <2>7. RoomForTerminator'
    BY <1>1, <1>2, <1>3, <1>7, <2>1, <2>6 DEF RoomForTerminator
  <2>8. CASE sink.truncated
    BY <1>1, <2>3, <2>6, <2>7, <2>8 DEF FixedKeepsPrefix, SinkInv
  <2>9. CASE ~sink.truncated
    BY <1>1, <2>4, <2>6, <2>7, <2>9 DEF FixedKeepsPrefix, SinkInv
  <2> QED BY <2>8, <2>9
<1> QED BY <1>6, <1>7

\* A write the sink takes.
LEMMA SinkTakesKeepsInv ==
  ASSUME SinkInv, NEW bytes \in Seq(Byte), SinkTakes(bytes)
  PROVE  SinkInv'
<1>1. CASE sink.kind = "fixed" /\ sink' = FixedTakes(bytes)
  BY <1>1, FixedWriteKeepsInv DEF SinkTakes
<1>2. CASE sink.kind = "growable"
  <2>1. /\ sink.out \in Seq(Byte) /\ offered \in Seq(Byte)
        /\ sink.size \in Nat /\ sink.truncated \in BOOLEAN
        /\ sink \in [kind : {"growable", "fixed"}, out : Seq(Byte), size : Nat, truncated : BOOLEAN]
    BY DEF SinkInv, SinkTypeOK
  <2>2. PICK size \in (IF Enough(sink.size, bytes) THEN {sink.size} ELSE GrownSizes(bytes)) :
             sink' = [sink EXCEPT !.out = @ \o bytes, !.size = size]
    BY <1>2 DEF SinkTakes
  <2>3. size \in Nat /\ Enough(size, bytes)
    BY <2>1, SinkAssumption DEF GrownSizes, Doublings
  <2>4. /\ sink.out \o bytes \in Seq(Byte) /\ Len(sink.out \o bytes) = Len(sink.out) + Len(bytes)
        /\ offered \o bytes \in Seq(Byte)
    BY <2>1, ConcatProperties
  <2>5. sink' = [sink EXCEPT !.out = sink.out \o bytes, !.size = size, !.truncated = sink.truncated]
    BY <2>1, <2>2
  <2>6. /\ sink'.kind = "growable" /\ sink'.out = sink.out \o bytes /\ sink'.size = size
        /\ SinkTypeOK'
    BY <1>2, <2>1, <2>3, <2>4, <2>5, SinkFields DEF SinkInv, SinkTakes
  <2>7. Len(sink.out) \in Nat /\ Len(bytes) \in Nat
    BY <2>1, LenProperties
  <2>8. RoomForTerminator'
    BY <2>3, <2>4, <2>6, <2>7 DEF RoomForTerminator, Enough, Needed
  <2>9. FixedKeepsPrefix'
    BY <2>6 DEF FixedKeepsPrefix
  <2> QED BY <2>6, <2>8, <2>9 DEF SinkInv
<1> QED BY <1>1, <1>2 DEF SinkTakes

\* A write the sink refuses.
LEMMA SinkRefusesKeepsInv ==
  ASSUME SinkInv, NEW bytes \in Seq(Byte), SinkRefuses(bytes)
  PROVE  SinkInv'
<1>1. CASE sink.kind = "fixed" /\ sink' = FixedTakes(bytes)
  BY <1>1, FixedWriteKeepsInv DEF SinkRefuses
<1>2. CASE sink.kind = "growable" /\ sink' = sink
  <2>1. offered' \in Seq(Byte)
    BY ConcatProperties DEF SinkInv, SinkTypeOK, SinkRefuses
  <2> QED BY <1>2, <2>1 DEF SinkInv, SinkTypeOK, RoomForTerminator, FixedKeepsPrefix
<1> QED BY <1>1, <1>2 DEF SinkRefuses

\* Steps that leave the sink alone.
LEMMA SinkUnchanged ==
  ASSUME SinkInv, UNCHANGED <<sink, offered>>
  PROVE  SinkInv'
BY DEF SinkInv, SinkTypeOK, RoomForTerminator, FixedKeepsPrefix

-----------------------------------------------------------------------------
(* The sink writes of a call.                                              *)

LEMMA WriteTypes ==
  /\ \A t \in Tokens : Write(<<t>>) \in WriteType /\ <<Write(<<t>>)>> \in Seq(WriteType)
  /\ <<Write(<<":", "ws">>)>> \in Seq(WriteType)
  /\ <<Rejected>> \in Seq(WriteType)
  /\ <<>> \in Seq(WriteType)
<1>1. \A t \in Tokens : <<t>> \in Seq(Byte)
  BY TokenAssumption
<1>2. <<":", "ws">> \in Seq(Byte)
  <2>1. ":" \in Byte /\ "ws" \in Byte
    BY TokenAssumption DEF Tokens
  <2> QED BY <2>1
<1>3. <<>> \in Seq(Byte) /\ <<>> \in Seq(WriteType)
  BY EmptySeq
<1>4. \A b \in Seq(Byte) : Write(b) \in WriteType
  BY DEF Write, WriteType
<1>5. Rejected \in WriteType
  BY <1>3 DEF Rejected, WriteType
<1>6. \A write \in WriteType : <<write>> \in Seq(WriteType)
  OBVIOUS
<1> QED BY <1>1, <1>2, <1>3, <1>4, <1>5, <1>6

LEMMA OptionalType ==
  ASSUME NEW wanted \in BOOLEAN, NEW t \in Tokens
  PROVE  Optional(wanted, Write(<<t>>)) \in Seq(WriteType)
BY WriteTypes DEF Optional

LEMMA CallWritesType ==
  ASSUME TypeOK
  PROVE  /\ CommaWrites \in Seq(WriteType)
         /\ StringWrites \in Seq(WriteType)
         /\ ColonWrites \in Seq(WriteType)
         /\ \A kind : ValueWrites(kind) \in Seq(WriteType)
         /\ \A type : Opening(type) \in WriteType /\ Closing(type) \in WriteType
         /\ \A wanted \in BOOLEAN : Optional(wanted, Space) \in Seq(WriteType)
<1>1. {"quote", "text", "scalar", "ws", ",", ":", "[", "]", "{", "}"} \subseteq Tokens
  BY DEF Tokens
<1>2. \A s, t \in Seq(WriteType) : s \o t \in Seq(WriteType)
  BY ConcatProperties
<1>3. \A wanted : Optional(wanted, Space) \in Seq(WriteType)
  BY <1>1, WriteTypes DEF Optional, Space
<1>4. CommaWrites \in Seq(WriteType)
  BY <1>1, <1>2, <1>3, WriteTypes DEF CommaWrites
<1>5. StringWrites \in Seq(WriteType)
  <2>1. Write(<<"quote">>) \in WriteType /\ Write(<<"text">>) \in WriteType
    BY <1>1, WriteTypes
  <2> QED BY <2>1 DEF StringWrites
<1>6. ColonWrites \in Seq(WriteType)
  BY <1>1, <1>2, <1>3, WriteTypes DEF ColonWrites
<1>7. \A kind : ValueWrites(kind) \in Seq(WriteType)
  BY <1>1, <1>5, WriteTypes DEF ValueWrites
<1>8. \A type : Opening(type) \in WriteType /\ Closing(type) \in WriteType
  BY <1>1, WriteTypes DEF Opening, Closing
<1> QED BY <1>3, <1>4, <1>5, <1>6, <1>7, <1>8

-----------------------------------------------------------------------------
(* The stack.                                                              *)

\* Entries in which only an object expects a key.
GoodEntry == {e \in EntryType : e.expectingKey => e.type = "object"}

LEMMA StackType ==
  ASSUME NEW st
  PROVE  st \in Seq(GoodEntry) <=> /\ st \in Seq(EntryType)
                                  /\ \A i \in DOMAIN st : st[i].expectingKey => st[i].type = "object"
<1>1. ASSUME st \in Seq(GoodEntry)
      PROVE  st \in Seq(EntryType) /\ \A i \in DOMAIN st : st[i].expectingKey => st[i].type = "object"
  <2>1. \A i \in DOMAIN st : st[i] \in GoodEntry
    BY <1>1, ElementOfSeq, LenProperties
  <2>2. GoodEntry \subseteq EntryType
    BY DEF GoodEntry
  <2>3. st \in Seq(EntryType)
    BY <1>1, <2>2, SeqMonotonic
  <2> QED BY <2>1, <2>3 DEF GoodEntry
<1>2. ASSUME st \in Seq(EntryType),
             \A i \in DOMAIN st : st[i].expectingKey => st[i].type = "object"
      PROVE  st \in Seq(GoodEntry)
  <2>1. \A i \in 1..Len(st) : st[i] \in GoodEntry
    BY <1>2, ElementOfSeq, LenProperties DEF GoodEntry
  <2>2. Len(st) \in Nat /\ st = [i \in 1..Len(st) |-> st[i]]
    BY <1>2, LenProperties
  <2> QED BY <2>1, <2>2, IsASeq
<1> QED BY <1>1, <1>2

LEMMA EntryGood ==
  ASSUME NEW type \in {"object", "array"}
  PROVE  Entry(type) \in GoodEntry
BY DEF Entry, GoodEntry, EntryType

LEMMA EntryUpdate ==
  ASSUME NEW r \in GoodEntry, NEW b \in BOOLEAN, b => r.type = "object"
  PROVE  [r EXCEPT !.hasElements = TRUE, !.expectingKey = b] \in GoodEntry
BY DEF GoodEntry, EntryType

\* The stack stays as deep when its innermost container gets an element.
LEMMA ElementsType ==
  ASSUME NEW st \in Seq(GoodEntry)
  PROVE  Elements(st) \in Seq(GoodEntry) /\ Len(Elements(st)) = Len(st)
<1>1. CASE st = <<>>
  BY <1>1 DEF Elements
<1>2. CASE st # <<>>
  <2>1. Len(st) \in 1..Len(st)
    BY <1>2, EmptySeq, LenProperties
  <2>2. st[Len(st)] \in GoodEntry
    BY <2>1, ElementOfSeq
  <2> DEFINE e == [st[Len(st)] EXCEPT !.hasElements = TRUE,
                                      !.expectingKey = (st[Len(st)].type = "object")]
  <2>3. PICK b \in BOOLEAN : b = (st[Len(st)].type = "object")
    OBVIOUS
  <2>4. [st[Len(st)] EXCEPT !.hasElements = TRUE, !.expectingKey = b] \in GoodEntry
    BY <2>2, <2>3, EntryUpdate
  <2>5. e \in GoodEntry
    BY <2>3, <2>4
  <2>6. Elements(st) = [st EXCEPT ![Len(st)] = e]
    BY <1>2, <2>1, LenProperties DEF Elements
  <2> HIDE DEF e
  <2> QED BY <2>1, <2>5, <2>6, ExceptSeq
<1> QED BY <1>1, <1>2

LEMMA PoppedType ==
  ASSUME stack \in Seq(GoodEntry), stack # <<>>
  PROVE  Popped \in Seq(GoodEntry) /\ Len(Popped) = Len(stack) - 1
<1>1. Len(stack) \in Nat /\ Len(stack) > 0
  BY EmptySeq, LenProperties
<1>2. Front(stack) \in Seq(GoodEntry) /\ Len(Front(stack)) = Len(stack) - 1
  <2>1. \A n \in 0..Len(stack) : SubSeq(stack, 1, n) \in Seq(GoodEntry) /\ Len(SubSeq(stack, 1, n)) = n
    BY <1>1, ElementOfSeq, SubSeqProperties
  <2>2. Len(stack) - 1 \in 0..Len(stack)
    BY <1>1
  <2> QED BY <2>1, <2>2 DEF Front
<1> QED BY <1>2, ElementsType DEF Popped

LEMMA KeyTakenType ==
  ASSUME stack \in Seq(GoodEntry), stack # <<>>
  PROVE  KeyTaken \in Seq(GoodEntry) /\ Len(KeyTaken) = Len(stack)
<1>1. Len(stack) \in 1..Len(stack)
  BY EmptySeq, LenProperties
<1>2. stack[Len(stack)] \in GoodEntry
  BY <1>1, ElementOfSeq
<1> DEFINE e == [stack[Len(stack)] EXCEPT !.expectingKey = FALSE]
<1>3. e \in GoodEntry
  BY <1>2 DEF GoodEntry, EntryType
<1>4. KeyTaken = [stack EXCEPT ![Len(stack)] = e]
  BY <1>1 DEF KeyTaken
<1> HIDE DEF e
<1> QED BY <1>1, <1>3, <1>4, ExceptSeq

-----------------------------------------------------------------------------
(* The invariant.                                                          *)

Calls == {"none", "object", "array", "end", "key", "value", "finish"}

\* A writer with a given stack and call is in the invariant.
LEMMA InvFrom ==
  ASSUME SinkInv', opts' \in Options, stack' \in Seq(GoodEntry), capacity' \in Nat,
         Len(stack') <= capacity', capacity' # 0, error' \in BOOLEAN, torn' \in BOOLEAN,
         mark' \in Nat, call' \in Calls, todo' \in Seq(WriteType),
         call' = "none" => todo' = <<>>,
         call' \in {"end", "key"} => stack' # <<>>,
         torn' => error' /\ call' = "none"
  PROVE  Inv'
<1>1. /\ stack' \in Seq(EntryType)
      /\ \A i \in DOMAIN stack' : stack'[i].expectingKey => stack'[i].type = "object"
  BY StackType
<1>2. TypeOK'
  BY <1>1 DEF TypeOK, SinkInv, WriteType, Calls
<1>3. CallInv'
  BY DEF CallInv
<1> QED BY <1>2, <1>3 DEF Inv

\* The same facts of the state before a step.
LEMMA InvGives ==
  ASSUME Inv
  PROVE  /\ TypeOK /\ SinkInv /\ opts \in Options /\ stack \in Seq(GoodEntry)
         /\ capacity \in Nat /\ Len(stack) <= capacity /\ Len(stack) \in Nat /\ capacity # 0
         /\ error \in BOOLEAN /\ torn \in BOOLEAN /\ mark \in Nat
         /\ call \in Calls /\ todo \in Seq(WriteType)
         /\ (call = "none" => todo = <<>>)
         /\ (call \in {"end", "key"} => stack # <<>>)
         /\ (torn => error /\ call = "none")
         /\ Len(sink.out) \in Nat
<1>1. TypeOK /\ CallInv /\ SinkInv
  BY DEF Inv
<1>2. stack \in Seq(GoodEntry)
  BY <1>1, StackType DEF TypeOK
<1>3. Len(stack) \in Nat
  BY <1>2, LenProperties
<1>4. sink.out \in Seq(Byte)
  BY <1>1 DEF SinkInv, SinkTypeOK
<1>5. Len(sink.out) \in Nat
  BY <1>4, LenProperties
<1>6. /\ opts \in Options /\ capacity \in Nat /\ Len(stack) <= capacity
      /\ error \in BOOLEAN /\ torn \in BOOLEAN /\ mark \in Nat
      /\ call \in Calls /\ todo \in Seq(WriteType)
      /\ (call = "none" => todo = <<>>)
  BY <1>1 DEF TypeOK, WriteType, Calls
<1>7. /\ capacity # 0
      /\ (call \in {"end", "key"} => stack # <<>>)
      /\ (torn => error /\ call = "none")
  BY <1>1 DEF CallInv
<1> QED BY <1>1, <1>2, <1>3, <1>5, <1>6, <1>7

\* A call that begins: it is accepted only by a writer without an error.
LEMMA BeginKeepsInv ==
  ASSUME Inv, NEW c \in Calls \ {"none"}, NEW writes \in Seq(WriteType), ~error,
         c \in {"end", "key"} => stack # <<>>, Begin(c, writes)
  PROVE  Inv'
<1>1. SinkInv'
  BY InvGives, SinkUnchanged DEF Begin
<1>2. /\ call' = c /\ todo' = writes /\ mark' = Len(sink.out) /\ ~torn
      /\ opts' = opts /\ stack' = stack /\ capacity' = capacity /\ error' = error /\ torn' = torn
  BY InvGives DEF Begin
<1> QED BY <1>1, <1>2, InvGives, InvFrom

LEMMA RefuseKeepsInv ==
  ASSUME Inv, NEW fatal \in BOOLEAN, Refuse(fatal)
  PROVE  Inv'
<1>1. SinkInv'
  BY InvGives, SinkUnchanged DEF Refuse
<1>2. /\ call' = call /\ todo' = todo /\ mark' = mark /\ opts' = opts /\ stack' = stack
      /\ capacity' = capacity /\ torn' = torn
  BY DEF Refuse
<1>3. error' \in BOOLEAN /\ (error => error')
  BY InvGives DEF Refuse
<1> QED BY <1>1, <1>2, <1>3, InvGives, InvFrom

LEMMA SinkWriteKeepsInv ==
  ASSUME Inv, SinkWrite
  PROVE  Inv'
<1> DEFINE write == Head(todo)
<1>1. todo # <<>> /\ call # "none" /\ ~torn
  BY InvGives DEF SinkWrite
<1>2. write \in WriteType /\ Tail(todo) \in Seq(WriteType)
  BY <1>1, InvGives, HeadTailProperties
<1>3. write.bytes \in Seq(Byte)
  BY <1>2 DEF WriteType
<1>4. SinkInv'
  BY <1>3, InvGives, SinkTakesKeepsInv, SinkRefusesKeepsInv, SinkUnchanged DEF SinkWrite
<1>5. CASE Goes
  <2>1. /\ todo' = Tail(todo) /\ opts' = opts /\ stack' = stack /\ capacity' = capacity
        /\ error' = error /\ call' = call /\ mark' = mark /\ torn' = torn
    BY <1>5 DEF Goes
  <2> QED BY <1>1, <1>2, <1>4, <2>1, InvGives, InvFrom
<1>6. CASE Fails
  <2>1. /\ todo' = <<>> /\ opts' = opts /\ stack' = stack /\ capacity' = capacity
        /\ error' = TRUE /\ call' = "none" /\ mark' = mark
        /\ torn' = (torn \/ Len(sink'.out) > mark)
    BY <1>6 DEF Fails
  <2>2. torn' \in BOOLEAN
    BY <2>1
  <2>3. <<>> \in Seq(WriteType) /\ "none" \in Calls
    BY EmptySeq DEF Calls
  <2> QED BY <1>4, <2>1, <2>2, <2>3, InvGives, InvFrom
<1> QED BY <1>5, <1>6 DEF SinkWrite

LEMMA ReturnKeepsInv ==
  ASSUME Inv, Return
  PROVE  Inv'
<1>1. /\ todo = <<>> /\ call' = "none" /\ opts' = opts /\ todo' = todo /\ mark' = mark
      /\ "none" \in Calls
  BY DEF Return, Pushes, PushFails, Done, Calls
<1>2. SinkInv'
  BY InvGives, SinkUnchanged DEF Return, Pushes, PushFails, Done
<1>3. CASE call \in {"object", "array"} /\ Pushes(call)
  <2>1. Entry(call) \in GoodEntry
    BY <1>3, EntryGood
  <2>2. stack' \in Seq(GoodEntry) /\ Len(stack') = Len(stack) + 1
    BY <1>3, <2>1, InvGives, AppendProperties DEF Pushes
  <2>3. capacity' \in Nat /\ capacity' # 0 /\ Len(stack') <= capacity'
    BY <1>3, <2>2, InvGives DEF Pushes, Full
  <2>4. error' = error /\ torn' = torn
    BY <1>3 DEF Pushes
  <2>5. ~torn
    BY <1>3, InvGives
  <2> QED BY <1>1, <1>2, <2>2, <2>3, <2>4, <2>5, InvGives, InvFrom
<1>4. CASE call \in {"object", "array"} /\ PushFails
  <2>1. stack' = stack /\ capacity' = capacity /\ error' = TRUE /\ torn' = TRUE
    BY <1>4 DEF PushFails
  <2> QED BY <1>1, <1>2, <2>1, InvGives, InvFrom
<1>5. CASE call \in {"end", "key", "value", "finish"}
  <2>1. capacity' = capacity /\ error' = error /\ torn' = torn /\ ~torn
    BY <1>5, InvGives DEF Return
  <2>2. CASE call = "end"
    <3>1. stack' = Popped
      BY <2>2 DEF Return
    <3> QED BY <1>1, <1>2, <2>1, <2>2, <3>1, InvGives, PoppedType, InvFrom
  <2>3. CASE call = "key"
    <3>1. stack' = KeyTaken
      BY <2>3 DEF Return
    <3> QED BY <1>1, <1>2, <2>1, <2>3, <3>1, InvGives, KeyTakenType, InvFrom
  <2>4. CASE call = "value"
    <3>1. stack' = Elements(stack)
      BY <2>4 DEF Return
    <3> QED BY <1>1, <1>2, <2>1, <2>4, <3>1, InvGives, ElementsType, InvFrom
  <2>5. CASE call = "finish"
    <3>1. stack' = stack
      BY <2>5 DEF Return
    <3> QED BY <1>1, <1>2, <2>1, <2>5, <3>1, InvGives, InvFrom
  <2> QED BY <1>5, <2>2, <2>3, <2>4, <2>5
<1> QED BY <1>3, <1>4, <1>5 DEF Return

\* What a call that is accepted is about to write has the type of todo.
LEMMA BegunWrites ==
  ASSUME Inv
  PROVE  /\ \A type : CommaWrites \o <<Opening(type)>> \in Seq(WriteType)
         /\ \A type : Optional(opts.pretty /\ Top.hasElements, Space) \o <<Closing(type)>>
                        \in Seq(WriteType)
         /\ CommaWrites \o StringWrites \o ColonWrites \in Seq(WriteType)
         /\ \A kind : CommaWrites \o ValueWrites(kind) \in Seq(WriteType)
         /\ Optional(opts.trailingNewline, Space) \in Seq(WriteType)
<1>1. TypeOK
  BY InvGives
<1>2. \A s, t \in Seq(WriteType) : s \o t \in Seq(WriteType)
  BY ConcatProperties
<1>3. \A write \in WriteType : <<write>> \in Seq(WriteType)
  OBVIOUS
<1>4. \A wanted : Optional(wanted, Space) \in Seq(WriteType)
  <2>1. "ws" \in Tokens
    BY DEF Tokens
  <2> QED BY <2>1, WriteTypes DEF Optional, Space
<1> QED BY <1>1, <1>2, <1>3, <1>4, CallWritesType

THEOREM InvInvariant == Spec => []Inv
<1>1. Init => Inv
  <2> SUFFICES ASSUME Init PROVE Inv
    OBVIOUS
  <2>1. SinkInv
    BY NewSinkInv DEF Init
  <2>2. <<>> \in Seq(EntryType) /\ <<>> \in Seq(WriteType) /\ Len(<<>>) = 0
    BY EmptySeq
  <2>3. StackCapacity \in Nat /\ StackCapacity # 0
    BY WriterAssumption
  <2>4. TypeOK
    <3>1. SinkTypeOK
      BY <2>1 DEF SinkInv
    <3>2. stack \in Seq(EntryType) /\ todo \in Seq([bytes : Seq(Byte), fails : BOOLEAN])
      BY <2>2 DEF Init, WriteType
    <3>3. Len(stack) <= capacity /\ capacity \in Nat /\ mark \in Nat
      BY <2>2, <2>3 DEF Init
    <3>4. \A i \in DOMAIN stack : stack[i].expectingKey => stack[i].type = "object"
      BY <2>2, <3>2, LenProperties DEF Init
    <3> QED BY <3>1, <3>2, <3>3, <3>4 DEF Init, TypeOK
  <2>5. CallInv
    BY <2>3 DEF Init, CallInv
  <2> QED BY <2>1, <2>4, <2>5 DEF Inv
<1>2. Inv /\ [Next]_vars => Inv'
  <2> SUFFICES ASSUME Inv, [Next]_vars PROVE Inv'
    OBVIOUS
  <2>1. ASSUME NEW type \in {"object", "array"}, ContainerBegin(type)
        PROVE  Inv'
    <3>1. type \in Calls \ {"none"}
      BY DEF Calls
    <3> QED BY <2>1, <3>1, BegunWrites, BeginKeepsInv, RefuseKeepsInv DEF ContainerBegin
  <2>2. ASSUME NEW type \in {"object", "array"}, ContainerEnd(type)
        PROVE  Inv'
    <3>1. "end" \in Calls \ {"none"}
      BY DEF Calls
    <3> QED BY <2>2, <3>1, BegunWrites, BeginKeepsInv, RefuseKeepsInv DEF ContainerEnd, MayEnd
  <2>3. ASSUME NEW kind \in {"scalar", "string", "nonfinite"}, Value(kind)
        PROVE  Inv'
    <3>1. "value" \in Calls \ {"none"}
      BY DEF Calls
    <3>2. NeedsKey \in BOOLEAN
      BY InvGives DEF NeedsKey, InObjectNow
    <3> QED BY <2>3, <3>1, <3>2, BegunWrites, BeginKeepsInv, RefuseKeepsInv DEF Value
  <2>4. CASE Key
    <3>1. "key" \in Calls \ {"none"}
      BY DEF Calls
    <3> QED BY <2>4, <3>1, BegunWrites, BeginKeepsInv, RefuseKeepsInv DEF Key, NeedsKey, InObjectNow
  <2>5. CASE Finish
    <3>1. "finish" \in Calls \ {"none"}
      BY DEF Calls
    <3> QED BY <2>5, <3>1, BegunWrites, BeginKeepsInv, RefuseKeepsInv DEF Finish
  <2>6. CASE SinkWrite
    BY <2>6, SinkWriteKeepsInv
  <2>7. CASE Return
    BY <2>7, ReturnKeepsInv
  <2>8. CASE UNCHANGED vars
    <3>1. SinkInv'
      BY <2>8, InvGives, SinkUnchanged DEF vars
    <3> QED BY <2>8, <3>1, InvGives, InvFrom DEF vars
  <2> QED BY <2>1, <2>2, <2>3, <2>4, <2>5, <2>6, <2>7, <2>8 DEF Next
<1> QED BY <1>1, <1>2, PTL DEF Spec

-----------------------------------------------------------------------------
(* How the output reads.                                                   *)

Opened   == [type : {"object", "array"}, hasElements : BOOLEAN]
Places   == {"value", "first", "after", "key", "colon", "text", "unquote", "bad"}
Readings == [open : Seq(Opened), at : Places, key : BOOLEAN, doubled : BOOLEAN]

LEMMA UnreadIs == Unread \in Readings
BY EmptySeq DEF Unread, Readings, Places

LEMMA ElementReads ==
  ASSUME NEW r \in Readings
  PROVE  Element(r) \in Readings
<1>1. r.open \in Seq(Opened)
  BY DEF Readings
<1>2. CASE r.open = <<>>
  BY <1>2 DEF Element, Readings, Places
<1>3. CASE r.open # <<>>
  <2>1. PICK n \in Nat : n = Len(r.open) /\ n \in 1..Len(r.open)
    BY <1>1, <1>3, EmptySeq, LenProperties
  <2>2. PICK e \in Opened : e = [r.open[n] EXCEPT !.hasElements = TRUE]
    <3>1. r.open[n] \in Opened
      BY <1>1, <2>1, ElementOfSeq
    <3> QED BY <3>1 DEF Opened
  <2>3. PICK o \in Seq(Opened) : o = [r.open EXCEPT ![n] = e]
    BY <1>1, <2>1, ExceptSeq
  <2>4. Element(r) = [r EXCEPT !.at = "after", !.open = o]
    BY <1>3, <2>1, <2>2, <2>3 DEF Element, Readings
  <2> QED BY <2>4 DEF Readings, Places
<1> QED BY <1>2, <1>3

LEMMA PlaceReads ==
  ASSUME NEW r \in Readings, NEW p \in Places
  PROVE  [r EXCEPT !.at = p] \in Readings
BY DEF Readings

LEMMA OpenReads ==
  ASSUME NEW r \in Readings, NEW type \in {"object", "array"}
  PROVE  Open(r, type) \in Readings
<1>1. PICK e \in Opened : e = [type |-> type, hasElements |-> FALSE]
  BY DEF Opened
<1>2. PICK o \in Seq(Opened) : o = Append(r.open, e)
  BY AppendProperties DEF Readings
<1>3. Open(r, type) = [r EXCEPT !.open = o, !.at = "first"]
  BY <1>1, <1>2 DEF Open, Readings
<1> QED BY <1>3 DEF Readings, Places

LEMMA CloseReads ==
  ASSUME NEW r \in Readings, NEW type
  PROVE  Close(r, type) \in Readings
<1>1. Bad(r) \in Readings
  BY PlaceReads DEF Bad, Places
<1>2. ASSUME r.open # <<>>
      PROVE  Element([r EXCEPT !.open = Front(@)]) \in Readings
  <2>1. PICK o \in Seq(Opened) : o = Front(r.open)
    BY <1>2, FrontProperties DEF Readings
  <2>2. [r EXCEPT !.open = o] \in Readings
    BY <2>1 DEF Readings
  <2>3. [r EXCEPT !.open = o] = [r EXCEPT !.open = Front(@)]
    BY <2>1
  <2> QED BY <2>2, <2>3, ElementReads
<1> QED BY <1>1, <1>2 DEF Close

LEMMA TokenReads ==
  ASSUME NEW r \in Readings, NEW t
  PROVE  ReadToken(r, t) \in Readings
<1>1. \A p \in Places : [r EXCEPT !.at = p] \in Readings
  BY PlaceReads
<1>2. Bad(r) \in Readings
  BY <1>1 DEF Bad, Places
<1>3. [r EXCEPT !.doubled = TRUE] \in Readings
  <2>1. \A v \in BOOLEAN : [r EXCEPT !.doubled = v] \in Readings
    BY DEF Readings
  <2> QED BY <2>1
<1>4. [r EXCEPT !.at = "text", !.key = MayBeKey(r)] \in Readings
  <2>1. PICK v \in BOOLEAN : v = MayBeKey(r)
    BY DEF MayBeKey
  <2>2. [r EXCEPT !.at = "text", !.key = v] \in Readings
    BY DEF Readings, Places
  <2> QED BY <2>1, <2>2
<1>5. [r EXCEPT !.at = IF InObject(r) THEN "key" ELSE "value"] \in Readings
  BY <1>1 DEF Places
<1>6. /\ Element(r) \in Readings /\ Open(r, "array") \in Readings /\ Open(r, "object") \in Readings
      /\ Close(r, "array") \in Readings /\ Close(r, "object") \in Readings
  BY ElementReads, OpenReads, CloseReads
<1>7. /\ [r EXCEPT !.at = "unquote"] \in Readings /\ [r EXCEPT !.at = "colon"] \in Readings
      /\ [r EXCEPT !.at = "value"] \in Readings
  BY <1>1 DEF Places
<1> HIDE DEF Readings
<1> QED BY <1>2, <1>3, <1>4, <1>5, <1>6, <1>7 DEF ReadToken

\* Reading token after token: the readings of the beginnings of a text.
LEMMA ReadsPath ==
  ASSUME NEW s \in Seq(Tokens)
  PROVE  \E v \in [0..Len(s) -> Readings] :
            /\ v[0] = Unread
            /\ \A k \in 1..Len(s) : v[k] = ReadToken(v[k - 1], s[k])
            /\ Reads(s) = v[Len(s)]
<1> DEFINE f == [x \in Readings \X Tokens |-> ReadToken(x[1], x[2])]
           N == Len(s)
           e(g, T) == IF T = {} THEN Unread ELSE ReadToken(g[T \ {Max(T)}], s[Max(T)])
           Iter(g) == g = [T \in SUBSET (1..N) |-> e(g, T)]
<1>1. N \in Nat /\ (\A k \in 1..N : s[k] \in Tokens) /\ DOMAIN s = 1..N
  BY LenProperties, ElementOfSeq
<1>2. f \in [Readings \X Tokens -> Readings] /\ \A r \in Readings, t \in Tokens : f[<<r, t>>] = ReadToken(r, t)
  BY TokenReads
<1> HIDE DEF f
<1>3. \E g : Iter(g) /\ \A T \in SUBSET (1..N) : g[T] \in Readings
  <2>1. PICK g : FoldIs(g, f, Unread, s) /\ \A T \in SUBSET (1..N) : g[T] \in Readings
    BY <1>2, FoldExists, UnreadIs
  <2>2. ASSUME NEW T \in SUBSET (1..N)
        PROVE  (IF T = {} THEN Unread ELSE f[<<g[T \ {Max(T)}], s[Max(T)]>>]) = e(g, T)
    <3>1. CASE T # {}
      <4>1. Max(T) \in 1..N
        BY <1>1, <3>1, MaxIsIn
      <4>2. g[T \ {Max(T)}] \in Readings /\ s[Max(T)] \in Tokens
        BY <1>1, <2>1, <4>1
      <4> QED BY <1>2, <3>1, <4>2
    <3> QED BY <3>1
  <2>3. g = [T \in SUBSET (1..N) |-> IF T = {} THEN Unread ELSE f[<<g[T \ {Max(T)}], s[Max(T)]>>]]
    BY <2>1 DEF FoldIs
  <2> DEFINE d(T) == IF T = {} THEN Unread ELSE f[<<g[T \ {Max(T)}], s[Max(T)]>>]
  <2>4. \A T \in SUBSET (1..N) : d(T) = e(g, T)
    BY <2>2
  <2>5. g = [T \in SUBSET (1..N) |-> d(T)]
    BY <2>3
  <2> HIDE DEF d, e
  <2>6. g = [T \in SUBSET (1..N) |-> e(g, T)]
    BY <2>4, <2>5
  <2> QED BY <2>1, <2>6
<1> DEFINE g == CHOOSE g : Iter(g)
<1>4. Iter(g)
  BY <1>3
<1>5. Reads(s) = g[1..N]
  BY <1>1 DEF Reads, FoldLeft, MapThenFoldSet
<1> HIDE DEF g
<1>6. g[1..0] = Unread
  <2>1. 1..0 = {} /\ {} \in SUBSET (1..N)
    OBVIOUS
  <2> QED BY <1>4, <2>1
<1>7. ASSUME NEW m \in 1..N PROVE g[1..m] = ReadToken(g[1..(m - 1)], s[m])
  <2>1. m \in Nat /\ 1..m \in SUBSET (1..N) /\ m \in 1..m /\ 1..m # {}
    BY <1>1, <1>7
  <2>2. Max(1..m) = m
    BY <2>1, MaxIsTop
  <2>3. (1..m) \ {m} = 1..(m - 1)
    <3>1. \A x : x \in 1..m /\ x # m <=> x \in 1..(m - 1)
      BY <2>1
    <3> QED BY <3>1
  <2>4. g[1..m] = ReadToken(g[(1..m) \ {Max(1..m)}], s[Max(1..m)])
    BY <1>4, <2>1
  <2> QED BY <2>2, <2>3, <2>4
<1> DEFINE v == [k \in 0..N |-> g[1..k]]
           Typed == {k \in Nat : k <= N => g[1..k] \in Readings}
<1>8. N \in Nat /\ \A k \in 0..N : g[1..k] \in Readings
  <2>1. 0 \in Typed
    BY <1>6, UnreadIs
  <2>2. ASSUME NEW k \in Nat, k \in Typed PROVE k + 1 \in Typed
    <3>1. CASE k + 1 <= N
      <4>1. PICK m \in 1..N : m = k + 1 /\ m - 1 = k
        BY <1>1, <3>1
      <4>2. g[1..k] \in Readings
        BY <1>1, <2>2, <3>1
      <4>3. g[1..m] = ReadToken(g[1..k], s[m])
        BY <1>7, <4>1
      <4> QED BY <4>1, <4>2, <4>3, TokenReads
    <3>2. CASE ~(k + 1 <= N)
      BY <3>2
    <3> QED BY <3>1, <3>2
  <2> HIDE DEF Typed
  <2>3. Nat \subseteq Typed
    BY <2>1, <2>2, NatSetInduction
  <2> QED BY <1>1, <2>3 DEF Typed
<1>9. v \in [0..N -> Readings]
  BY <1>8
<1>10. v[0] = Unread /\ v[N] = g[1..N]
  BY <1>6, <1>8
<1>11. \A k \in 1..N : v[k] = ReadToken(v[k - 1], s[k])
  <2> SUFFICES ASSUME NEW k \in 1..N PROVE v[k] = ReadToken(v[k - 1], s[k])
    OBVIOUS
  <2>1. k \in 0..N /\ k - 1 \in 0..N
    BY <1>8
  <2>2. v[k] = g[1..k] /\ v[k - 1] = g[1..(k - 1)]
    BY <2>1
  <2> HIDE DEF v
  <2> QED BY <2>2, <1>7
<1> HIDE DEF v
<1> QED BY <1>5, <1>9, <1>10, <1>11

\* A text with one token more.
LEMMA ReadsOneMore ==
  ASSUME NEW s \in Seq(Tokens), NEW t \in Tokens
  PROVE  Reads(s) \in Readings /\ Reads(s \o <<t>>) = ReadToken(Reads(s), t)
<1> DEFINE n == Len(s)
           more == s \o <<t>>
<1>1. n \in Nat
  BY LenProperties
<1>2. /\ more \in Seq(Tokens) /\ Len(more) = n + 1
      /\ \A k \in 1..n : more[k] = s[k]
      /\ more[n + 1] = t
  <2>1. <<t>> \in Seq(Tokens) /\ Len(<<t>>) = 1 /\ <<t>>[1] = t
    OBVIOUS
  <2>2. /\ more \in Seq(Tokens) /\ Len(more) = n + 1
        /\ \A k \in 1..(n + 1) : more[k] = IF k <= n THEN s[k] ELSE <<t>>[k - n]
    BY <2>1, ConcatProperties
  <2>3. (n + 1) - n = 1 /\ ~(n + 1 <= n) /\ n + 1 \in 1..(n + 1)
    BY <1>1
  <2>4. more[n + 1] = t
    BY <2>1, <2>2, <2>3
  <2>5. \A k \in 1..n : more[k] = s[k]
    BY <1>1, <2>2
  <2> QED BY <2>2, <2>4, <2>5
<1> HIDE DEF n, more
<1>3. PICK v \in [0..n -> Readings] :
         /\ v[0] = Unread /\ \A k \in 1..n : v[k] = ReadToken(v[k - 1], s[k])
         /\ Reads(s) = v[n]
  BY ReadsPath DEF n
<1>4. PICK w \in [0..(n + 1) -> Readings] :
         /\ w[0] = Unread /\ \A k \in 1..(n + 1) : w[k] = ReadToken(w[k - 1], more[k])
         /\ Reads(more) = w[n + 1]
  BY <1>2, ReadsPath
<1> DEFINE Same == {k \in Nat : k <= n => v[k] = w[k]}
<1>5. 0 \in Same
  BY <1>3, <1>4
<1>6. ASSUME NEW k \in Nat, k \in Same PROVE k + 1 \in Same
  <2>1. CASE k + 1 <= n
    <3>1. PICK m : m = k + 1 /\ m \in 1..n /\ m \in 1..(n + 1) /\ m - 1 = k
      BY <1>1, <2>1
    <3>2. v[k] = w[k]
      BY <1>1, <1>6, <2>1
    <3>3. v[m] = w[m]
      BY <1>2, <1>3, <1>4, <3>1, <3>2
    <3> QED BY <3>1, <3>3
  <2> QED BY <2>1
<1>7. v[n] = w[n]
  <2> HIDE DEF Same
  <2>1. n \in Same
    BY <1>1, <1>5, <1>6, NatSetInduction
  <2> QED BY <1>1, <2>1 DEF Same
<1>8. w[n + 1] = ReadToken(w[n], t) /\ v[n] \in Readings
  <2>1. n + 1 \in 1..(n + 1) /\ (n + 1) - 1 = n /\ n \in 0..n
    BY <1>1
  <2> QED BY <1>2, <1>3, <1>4, <2>1
<1> QED BY <1>3, <1>4, <1>7, <1>8 DEF more

LEMMA NothingReads == Reads(<<>>) = Unread
<1>1. <<>> \in Seq(Tokens) /\ Len(<<>>) = 0
  BY EmptySeq
<1> QED BY <1>1, ReadsPath

-----------------------------------------------------------------------------
(* What the output will read as when a call has made its writes.           *)

\* A write that succeeds takes one reading to the next.
Adds(r, write, q) ==
    /\ ~write.fails
    /\ \E t \in Tokens : \/ write.bytes = <<t>> /\ q = ReadToken(r, t)
                         \/ \E u \in Tokens : /\ write.bytes = <<t>> \o <<u>>
                                              /\ q = ReadToken(ReadToken(r, t), u)
Path(p, r, writes, q) ==
    /\ p \in [0..Len(writes) -> Readings]
    /\ p[0] = r /\ p[Len(writes)] = q
    /\ \A k \in 1..Len(writes) : Adds(p[k - 1], writes[k], p[k])
Leads(r, writes, q) == \E p : Path(p, r, writes, q)

LEMMA NothingLeads ==
  ASSUME NEW r \in Readings
  PROVE  Leads(r, <<>>, r)
<1>1. Len(<<>>) = 0 /\ 0..0 = {0} /\ 1..0 = {}
  OBVIOUS
<1>2. PICK p : p = [k \in 0..0 |-> r]
  OBVIOUS
<1>3. Path(p, r, <<>>, r)
  BY <1>1, <1>2 DEF Path
<1> QED BY <1>3 DEF Leads

LEMMA NothingLeadsBack ==
  ASSUME NEW r, NEW q, Leads(r, <<>>, q)
  PROVE  r = q
<1>1. Len(<<>>) = 0
  OBVIOUS
<1> QED BY <1>1 DEF Leads, Path

LEMMA OneLeads ==
  ASSUME NEW r \in Readings, NEW write, NEW q \in Readings, Adds(r, write, q)
  PROVE  Leads(r, <<write>>, q)
<1>1. Len(<<write>>) = 1 /\ <<write>>[1] = write /\ 1..1 = {1} /\ 0..1 = {0, 1}
  OBVIOUS
<1>2. PICK p : p = [k \in 0..1 |-> IF k = 0 THEN r ELSE q]
  OBVIOUS
<1>3. p \in [0..1 -> Readings] /\ p[0] = r /\ p[1] = q
  BY <1>1, <1>2
<1>4. 1 - 1 = 0
  OBVIOUS
<1>5. \A k \in 1..1 : Adds(p[k - 1], <<write>>[k], p[k])
  BY <1>1, <1>3, <1>4
<1>6. Path(p, r, <<write>>, q)
  BY <1>1, <1>3, <1>5 DEF Path
<1> QED BY <1>6 DEF Leads

\* Writes that lead from one reading to the next and on.
LEMMA BothLead ==
  ASSUME NEW s \in Seq(WriteType), NEW t \in Seq(WriteType), NEW r, NEW m, NEW q,
         Leads(r, s, m), Leads(m, t, q)
  PROVE  Leads(r, s \o t, q)
<1>1. PICK p : Path(p, r, s, m)
  BY DEF Leads
<1>2. PICK o : Path(o, m, t, q)
  BY DEF Leads
<1>3. PICK a \in Nat, b \in Nat : a = Len(s) /\ b = Len(t)
  BY LenProperties
<1>4. PICK w : w = s \o t
  OBVIOUS
<1>5. /\ w \in Seq(WriteType) /\ Len(w) = a + b
      /\ \A k \in 1..(a + b) : w[k] = IF k <= a THEN s[k] ELSE t[k - a]
  BY <1>3, <1>4, ConcatProperties
<1>6. PICK x : x = [k \in 0..(a + b) |-> IF k <= a THEN p[k] ELSE o[k - a]]
  OBVIOUS
<1>7. p \in [0..a -> Readings] /\ o \in [0..b -> Readings] /\ p[0] = r /\ p[a] = m /\ o[0] = m /\ o[b] = q
  BY <1>1, <1>2, <1>3 DEF Path
<1>8. \A k \in 0..a : x[k] = p[k]
  BY <1>6
<1>9. \A k \in 0..b : x[a + k] = o[k]
  <2> SUFFICES ASSUME NEW k \in 0..b PROVE x[a + k] = o[k]
    OBVIOUS
  <2>1. CASE k = 0
    BY <2>1, <1>7, <1>8
  <2>2. CASE k # 0
    <3>1. a + k \in 0..(a + b) /\ ~(a + k <= a) /\ (a + k) - a = k
      BY <2>2
    <3> QED BY <3>1, <1>6
  <2> QED BY <2>1, <2>2
<1>10. x \in [0..(a + b) -> Readings]
  <2>1. \A k \in 0..(a + b) : (IF k <= a THEN p[k] ELSE o[k - a]) \in Readings
    <3> SUFFICES ASSUME NEW k \in 0..(a + b) PROVE (IF k <= a THEN p[k] ELSE o[k - a]) \in Readings
      OBVIOUS
    <3>1. CASE k <= a
      <4>1. k \in 0..a
        BY <3>1
      <4> QED BY <3>1, <4>1, <1>7
    <3>2. CASE ~(k <= a)
      <4>1. k - a \in 0..b
        BY <3>2
      <4> QED BY <3>2, <4>1, <1>7
    <3> QED BY <3>1, <3>2
  <2> QED BY <2>1, <1>6
<1>11. ASSUME NEW k \in 1..(a + b) PROVE Adds(x[k - 1], w[k], x[k])
  <2>1. CASE k <= a
    <3>1. k \in 1..a /\ k \in 0..a /\ k - 1 \in 0..a
      BY <2>1
    <3>2. Adds(p[k - 1], s[k], p[k])
      BY <1>1, <1>3, <3>1 DEF Path
    <3>3. w[k] = s[k]
      BY <1>5, <2>1
    <3> QED BY <1>8, <3>1, <3>2, <3>3
  <2>2. CASE ~(k <= a)
    <3>1. PICK j \in 1..b : k = a + j /\ j \in 0..b /\ j - 1 \in 0..b /\ k - a = j /\ k - 1 = a + (j - 1)
      <4>1. k - a \in 1..b /\ k = a + (k - a) /\ (k - a) \in 0..b /\ (k - a) - 1 \in 0..b
            /\ k - 1 = a + ((k - a) - 1)
        BY <2>2
      <4> QED BY <4>1
    <3>2. Adds(o[j - 1], t[j], o[j])
      BY <1>2, <1>3, <3>1 DEF Path
    <3>3. w[k] = t[j]
      BY <1>5, <2>2, <3>1
    <3>4. x[k] = o[j] /\ x[k - 1] = o[j - 1]
      BY <1>9, <3>1
    <3> QED BY <3>2, <3>3, <3>4
  <2> QED BY <2>1, <2>2
<1>12. x[0] = r /\ x[a + b] = q
  <2>1. 0 \in 0..a /\ b \in 0..b
    OBVIOUS
  <2> QED BY <2>1, <1>7, <1>8, <1>9
<1>13. Path(x, r, w, q)
  BY <1>5, <1>10, <1>11, <1>12 DEF Path
<1> QED BY <1>4, <1>13 DEF Leads

\* The first write made, the others lead on from there.
LEMMA TailLeads ==
  ASSUME NEW w \in Seq(WriteType), w # <<>>, NEW r, NEW q, Leads(r, w, q)
  PROVE  \E m \in Readings : Adds(r, Head(w), m) /\ Leads(m, Tail(w), q)
<1>1. PICK p : Path(p, r, w, q)
  BY DEF Leads
<1>2. PICK n \in Nat : Len(w) = n + 1
  <2>1. Len(w) \in Nat /\ Len(w) # 0
    BY EmptySeq, LenProperties
  <2>2. Len(w) - 1 \in Nat /\ Len(w) = (Len(w) - 1) + 1
    BY <2>1
  <2> QED BY <2>2
<1>3. PICK t \in Seq(WriteType) : t = Tail(w) /\ Len(t) = n /\ Head(w) = w[1]
                                 /\ \A k \in 1..n : t[k] = w[k + 1]
  <2>1. Tail(w) \in Seq(WriteType) /\ Len(Tail(w)) = n
    BY <1>2, HeadTailProperties
  <2>2. \A k \in 1..n : Tail(w)[k] = w[k + 1]
    BY <1>2, <2>1, HeadTailProperties
  <2>3. Head(w) = w[1]
    OBVIOUS
  <2> QED BY <2>1, <2>2, <2>3
<1>4. PICK o : o = [k \in 0..n |-> p[k + 1]]
  OBVIOUS
<1>5. p \in [0..(n + 1) -> Readings] /\ p[0] = r /\ p[n + 1] = q
  BY <1>1, <1>2 DEF Path
<1>6. o \in [0..n -> Readings]
  <2>1. \A k \in 0..n : k + 1 \in 0..(n + 1)
    OBVIOUS
  <2> QED BY <2>1, <1>4, <1>5
<1>7. o[0] = p[1] /\ o[n] = q
  <2>1. 0 \in 0..n /\ n \in 0..n /\ 0 + 1 = 1
    OBVIOUS
  <2> QED BY <2>1, <1>4, <1>5
<1>8. ASSUME NEW k \in 1..n PROVE Adds(o[k - 1], t[k], o[k])
  <2>1. k + 1 \in 1..(n + 1) /\ (k + 1) - 1 = k /\ k \in 0..n /\ k - 1 \in 0..n /\ (k - 1) + 1 = k
    OBVIOUS
  <2>2. Adds(p[(k + 1) - 1], w[k + 1], p[k + 1])
    BY <1>1, <1>2, <2>1 DEF Path
  <2>3. o[k] = p[k + 1] /\ o[k - 1] = p[k] /\ t[k] = w[k + 1]
    BY <1>3, <1>4, <2>1
  <2> QED BY <2>1, <2>2, <2>3
<1>9. Path(o, p[1], t, q)
  BY <1>3, <1>6, <1>7, <1>8 DEF Path
<1>10. Adds(p[0], w[1], p[1]) /\ p[1] \in Readings
  <2>1. 1 \in 1..(n + 1) /\ 1 - 1 = 0 /\ 1 \in 0..(n + 1)
    OBVIOUS
  <2>2. Adds(p[1 - 1], w[1], p[1])
    BY <1>1, <1>2, <2>1 DEF Path
  <2> QED BY <2>1, <2>2, <1>5
<1> QED BY <1>3, <1>5, <1>9, <1>10 DEF Leads

\* No write that leads somewhere fails.
LEMMA NoneFails ==
  ASSUME NEW w, NEW r, NEW q, Leads(r, w, q)
  PROVE  \A k \in 1..Len(w) : ~w[k].fails
BY DEF Leads, Path, Adds

\* What a successful write adds to the sink is read behind what was there.
LEMMA WriteReads ==
  ASSUME NEW s \in Seq(Tokens), NEW write, NEW q, Adds(Reads(s), write, q)
  PROVE  Reads(s \o write.bytes) = q
<1>1. PICK t \in Tokens : \/ write.bytes = <<t>> /\ q = ReadToken(Reads(s), t)
                          \/ \E u \in Tokens : /\ write.bytes = <<t>> \o <<u>>
                                               /\ q = ReadToken(ReadToken(Reads(s), t), u)
  BY DEF Adds
<1>2. PICK st : st = s \o <<t>>
  OBVIOUS
<1>3. st \in Seq(Tokens) /\ Reads(st) = ReadToken(Reads(s), t)
  <2>1. <<t>> \in Seq(Tokens)
    OBVIOUS
  <2> QED BY <1>2, <2>1, ReadsOneMore, ConcatProperties
<1>4. CASE write.bytes = <<t>> /\ q = ReadToken(Reads(s), t)
  BY <1>2, <1>3, <1>4
<1>5. ASSUME NEW u \in Tokens, write.bytes = <<t>> \o <<u>>, q = ReadToken(ReadToken(Reads(s), t), u)
      PROVE  Reads(s \o write.bytes) = q
  <2>1. <<t>> \in Seq(Tokens) /\ <<u>> \in Seq(Tokens)
    OBVIOUS
  <2>2. s \o (<<t>> \o <<u>>) = (s \o <<t>>) \o <<u>>
    BY <2>1, ConcatAssociative
  <2>3. Reads(st \o <<u>>) = ReadToken(Reads(st), u)
    BY <1>3, ReadsOneMore
  <2> QED BY <1>2, <1>3, <1>5, <2>2, <2>3
<1> QED BY <1>1, <1>4, <1>5

-----------------------------------------------------------------------------
(* Readings and stacks.                                                    *)

OpenOf(st) == [k \in 1..Len(st) |-> [type |-> st[k].type, hasElements |-> st[k].hasElements]]
KeyDue(st) == st # <<>> /\ Last(st).type = "object" /\ Last(st).expectingKey
PlaceOf(st) ==
    IF st = <<>> \/ (Last(st).type = "object" /\ ~Last(st).expectingKey) THEN "value"
    ELSE IF Last(st).hasElements THEN "after" ELSE "first"
\* A text is read as far as the stack says.
Agrees(r, st) == r \in Readings /\ r.open = OpenOf(st) /\ r.at = PlaceOf(st)

LEMMA StackShape ==
  ASSUME NEW st \in Seq(GoodEntry)
  PROVE  \E n \in Nat :
            /\ n = Len(st) /\ DOMAIN st = 1..n
            /\ OpenOf(st) \in Seq(Opened) /\ Len(OpenOf(st)) = n
            /\ \A k \in 1..n : /\ st[k] \in GoodEntry
                               /\ OpenOf(st)[k] = [type |-> st[k].type, hasElements |-> st[k].hasElements]
            /\ st = <<>> <=> n = 0
            /\ st # <<>> => n \in 1..n /\ Last(st) = st[n]
<1>1. PICK n \in Nat : n = Len(st)
  BY LenProperties
<1>2. \A k \in 1..n : st[k] \in GoodEntry
  BY <1>1, ElementOfSeq
<1>3. PICK o : o = [k \in 1..n |-> [type |-> st[k].type, hasElements |-> st[k].hasElements]]
  OBVIOUS
<1>4. o \in [1..n -> Opened]
  BY <1>2, <1>3 DEF GoodEntry, EntryType, Opened
<1>5. o \in Seq(Opened) /\ Len(o) = n
  BY <1>4, TupleIsSeq
<1>6. OpenOf(st) = o
  BY <1>1, <1>3 DEF OpenOf
<1>7. st = <<>> <=> n = 0
  BY <1>1, EmptySeq
<1>8. st # <<>> => n \in 1..n /\ Last(st) = st[n]
  BY <1>1, <1>7 DEF Last
<1> QED BY <1>1, <1>2, <1>3, <1>5, <1>6, <1>7, <1>8, LenProperties

\* The innermost container, seen by the reader.
LEMMA InnerIs ==
  ASSUME NEW st \in Seq(GoodEntry), NEW r, r.open = OpenOf(st)
  PROVE  /\ r.open = <<>> <=> st = <<>>
         /\ st # <<>> => Inner(r) = [type |-> Last(st).type, hasElements |-> Last(st).hasElements]
         /\ InObject(r) <=> st # <<>> /\ Last(st).type = "object"
<1>1. PICK n \in Nat :
         /\ OpenOf(st) \in Seq(Opened) /\ Len(OpenOf(st)) = n
         /\ \A k \in 1..n : OpenOf(st)[k] = [type |-> st[k].type, hasElements |-> st[k].hasElements]
         /\ st = <<>> <=> n = 0
         /\ st # <<>> => n \in 1..n /\ Last(st) = st[n]
  BY StackShape
<1>2. r.open = <<>> <=> st = <<>>
  BY <1>1, EmptySeq
<1>3. st # <<>> => Inner(r) = [type |-> Last(st).type, hasElements |-> Last(st).hasElements]
  BY <1>1 DEF Inner, Last
<1> QED BY <1>2, <1>3 DEF InObject

LEMMA EmptyAgrees == Agrees(Unread, <<>>)
<1>1. OpenOf(<<>>) = <<>>
  <2>1. <<>> \in Seq(GoodEntry)
    BY EmptySeq
  <2> QED BY <2>1, StackShape, EmptySeq
<1> QED BY <1>1, UnreadIs DEF Agrees, PlaceOf, Unread

\* A value that is complete, in the text and on the stack.
LEMMA ElementAgrees ==
  ASSUME NEW st \in Seq(GoodEntry), NEW r \in Readings, r.open = OpenOf(st)
  PROVE  Agrees(Element(r), Elements(st))
<1>0. Element(r) \in Readings /\ Elements(st) \in Seq(GoodEntry)
  BY ElementReads, ElementsType
<1>1. PICK n \in Nat :
         /\ n = Len(st) /\ OpenOf(st) \in Seq(Opened) /\ Len(OpenOf(st)) = n
         /\ \A k \in 1..n : /\ st[k] \in GoodEntry
                            /\ OpenOf(st)[k] = [type |-> st[k].type, hasElements |-> st[k].hasElements]
         /\ st = <<>> <=> n = 0
         /\ st # <<>> => n \in 1..n /\ Last(st) = st[n]
  BY StackShape
<1>2. CASE st = <<>>
  <2>1. r.open = <<>> /\ Elements(st) = st
    BY <1>2, InnerIs DEF Elements
  <2>2. Element(r) = [r EXCEPT !.at = "value"]
    BY <2>1 DEF Element
  <2>3. Element(r).open = r.open /\ Element(r).at = "value"
    BY <2>2 DEF Readings
  <2> QED BY <1>0, <1>2, <2>1, <2>3 DEF Agrees, PlaceOf
<1>3. CASE st # <<>>
  <2>1. r.open # <<>> /\ n \in 1..n /\ r.open \in Seq(Opened) /\ Len(r.open) = n
    BY <1>1, <1>3, InnerIs
  <2>2. PICK b \in BOOLEAN : b = (st[n].type = "object")
    OBVIOUS
  <2>3. PICK e \in GoodEntry : /\ e = [st[n] EXCEPT !.hasElements = TRUE, !.expectingKey = b]
                               /\ e.type = st[n].type /\ e.hasElements = TRUE /\ e.expectingKey = b
    <3>1. st[n] \in GoodEntry /\ (b => st[n].type = "object")
      BY <1>1, <2>1, <2>2
    <3>2. [st[n] EXCEPT !.hasElements = TRUE, !.expectingKey = b] \in GoodEntry
      BY <3>1, EntryUpdate
    <3> QED BY <3>1, <3>2 DEF GoodEntry, EntryType
  <2>4. PICK st2 \in Seq(GoodEntry) : /\ st2 = Elements(st) /\ Len(st2) = n
                                      /\ \A k \in 1..n : st2[k] = IF k = n THEN e ELSE st[k]
    <3>1. Elements(st) = [st EXCEPT ![n] = e]
      BY <1>1, <1>3, <2>1, <2>2, <2>3, LenProperties DEF Elements
    <3>2. /\ [st EXCEPT ![n] = e] \in Seq(GoodEntry) /\ Len([st EXCEPT ![n] = e]) = n
          /\ \A k \in 1..n : [st EXCEPT ![n] = e][k] = IF k = n THEN e ELSE st[k]
      BY <1>1, <2>1, <2>3, ExceptSeq
    <3> QED BY <3>1, <3>2
  <2>5. PICK o \in Opened : o = [r.open[n] EXCEPT !.hasElements = TRUE]
                            /\ o = [type |-> e.type, hasElements |-> e.hasElements]
    <3>1. r.open[n] = [type |-> st[n].type, hasElements |-> st[n].hasElements]
      BY <1>1, <2>1
    <3>2. [type |-> e.type, hasElements |-> e.hasElements] \in Opened
      BY DEF GoodEntry, EntryType, Opened
    <3> QED BY <2>3, <3>1, <3>2
  <2>6. PICK op \in Seq(Opened) : /\ op = [r.open EXCEPT ![n] = o] /\ Len(op) = n
                                  /\ \A k \in 1..n : op[k] = IF k = n THEN o ELSE r.open[k]
    <3>1. PICK ro \in Seq(Opened) : ro = r.open /\ Len(ro) = n
      BY <2>1
    <3>2. /\ [ro EXCEPT ![n] = o] \in Seq(Opened) /\ Len([ro EXCEPT ![n] = o]) = n
          /\ \A k \in 1..n : [ro EXCEPT ![n] = o][k] = IF k = n THEN o ELSE ro[k]
      BY <2>1, <3>1, ExceptSeq
    <3>3. PICK x : x = [ro EXCEPT ![n] = o]
      OBVIOUS
    <3>4. x \in Seq(Opened) /\ Len(x) = n /\ \A k \in 1..n : x[k] = IF k = n THEN o ELSE ro[k]
      BY <3>2, <3>3
    <3>5. x = [r.open EXCEPT ![n] = o]
      BY <3>1, <3>3
    <3> QED BY <3>1, <3>4, <3>5, ZenonT(30)
  <2>7. Element(r) = [r EXCEPT !.at = "after", !.open = op]
    BY <2>1, <2>5, <2>6 DEF Element, Readings
  <2>8. Element(r).open = op /\ Element(r).at = "after"
    BY <2>7 DEF Readings
  <2>9. op = OpenOf(st2)
    <3>1. /\ OpenOf(st2) \in Seq(Opened) /\ Len(OpenOf(st2)) = n
          /\ \A k \in 1..n : OpenOf(st2)[k] = [type |-> st2[k].type, hasElements |-> st2[k].hasElements]
      <4>1. PICK m \in Nat :
              /\ m = Len(st2) /\ OpenOf(st2) \in Seq(Opened) /\ Len(OpenOf(st2)) = m
              /\ \A k \in 1..m : OpenOf(st2)[k] = [type |-> st2[k].type, hasElements |-> st2[k].hasElements]
        BY StackShape
      <4> QED BY <2>4, <4>1
    <3>2. ASSUME NEW k \in 1..n PROVE op[k] = OpenOf(st2)[k]
      <4>1. OpenOf(st2)[k] = [type |-> st2[k].type, hasElements |-> st2[k].hasElements]
        BY <3>1
      <4>2. CASE k = n
        BY <2>4, <2>5, <2>6, <4>1, <4>2
      <4>3. CASE k # n
        <5>1. op[k] = r.open[k] /\ st2[k] = st[k]
          BY <2>4, <2>6, <4>3
        <5>2. r.open[k] = [type |-> st[k].type, hasElements |-> st[k].hasElements]
          BY <1>1
        <5> QED BY <4>1, <5>1, <5>2
      <4> QED BY <4>2, <4>3
    <3> QED BY <2>6, <3>1, <3>2, SeqEqual
  <2>10. PlaceOf(st2) = "after"
    <3>1. st2 # <<>> /\ Last(st2) = e
      BY <1>1, <1>3, <2>1, <2>4, EmptySeq DEF Last
    <3> QED BY <3>1, <2>2, <2>3 DEF PlaceOf
  <2> QED BY <1>0, <2>4, <2>8, <2>9, <2>10 DEF Agrees
<1> QED BY <1>2, <1>3

\* A container that begins.
LEMMA OpenAgrees ==
  ASSUME NEW st \in Seq(GoodEntry), NEW r \in Readings, r.open = OpenOf(st),
         NEW type \in {"object", "array"}
  PROVE  Agrees(Open(r, type), Append(st, Entry(type)))
<1>1. PICK n \in Nat :
         /\ n = Len(st) /\ OpenOf(st) \in Seq(Opened) /\ Len(OpenOf(st)) = n
         /\ \A k \in 1..n : OpenOf(st)[k] = [type |-> st[k].type, hasElements |-> st[k].hasElements]
  BY StackShape
<1>2. PICK e \in GoodEntry : e = Entry(type) /\ e.type = type /\ e.hasElements = FALSE
                             /\ e.expectingKey = (type = "object")
  BY EntryGood DEF Entry
<1>3. PICK st2 \in Seq(GoodEntry) : /\ st2 = Append(st, Entry(type)) /\ Len(st2) = n + 1
                                    /\ \A k \in 1..n : st2[k] = st[k]
                                    /\ st2[n + 1] = e
  <2>1. /\ Append(st, e) \in Seq(GoodEntry) /\ Len(Append(st, e)) = Len(st) + 1
        /\ \A k \in 1..Len(st) : Append(st, e)[k] = st[k]
        /\ Append(st, e)[Len(st) + 1] = e
    BY AppendProperties
  <2> QED BY <2>1, <1>1, <1>2
<1>4. PICK o \in Opened : o = [type |-> type, hasElements |-> FALSE]
  BY DEF Opened
<1>5. PICK op \in Seq(Opened) : /\ op = Append(r.open, o) /\ Len(op) = n + 1
                                /\ \A k \in 1..n : op[k] = OpenOf(st)[k]
                                /\ op[n + 1] = o
  <2>1. PICK ro \in Seq(Opened) : ro = OpenOf(st) /\ Len(ro) = n /\ r.open = ro
    BY <1>1
  <2>2. /\ Append(ro, o) \in Seq(Opened) /\ Len(Append(ro, o)) = Len(ro) + 1
        /\ \A k \in 1..Len(ro) : Append(ro, o)[k] = ro[k]
        /\ Append(ro, o)[Len(ro) + 1] = o
    BY AppendProperties
  <2> QED BY <2>1, <2>2
<1>6. Open(r, type) = [r EXCEPT !.open = op, !.at = "first"]
  BY <1>4, <1>5 DEF Open, Readings
<1>7. Open(r, type).open = op /\ Open(r, type).at = "first"
  BY <1>6 DEF Readings
<1>8. op = OpenOf(st2)
  <2>1. /\ OpenOf(st2) \in Seq(Opened) /\ Len(OpenOf(st2)) = n + 1
        /\ \A k \in 1..(n + 1) : OpenOf(st2)[k] = [type |-> st2[k].type, hasElements |-> st2[k].hasElements]
    <3>1. PICK m \in Nat :
            /\ m = Len(st2) /\ OpenOf(st2) \in Seq(Opened) /\ Len(OpenOf(st2)) = m
            /\ \A k \in 1..m : OpenOf(st2)[k] = [type |-> st2[k].type, hasElements |-> st2[k].hasElements]
      BY StackShape
    <3> QED BY <1>3, <3>1
  <2>2. \A k \in 1..(n + 1) : op[k] = OpenOf(st2)[k]
    <3> SUFFICES ASSUME NEW k \in 1..(n + 1) PROVE op[k] = OpenOf(st2)[k]
      OBVIOUS
    <3>1. CASE k = n + 1
      <4>1. OpenOf(st2)[k] = [type |-> st2[k].type, hasElements |-> st2[k].hasElements]
        BY <2>1
      <4>2. st2[k] = e /\ op[k] = o
        BY <3>1, <1>3, <1>5
      <4> QED BY <4>1, <4>2, <1>2, <1>4
    <3>2. CASE k # n + 1
      <4>1. k \in 1..n
        BY <3>2
      <4> QED BY <4>1, <1>1, <1>3, <1>5, <2>1
    <3> QED BY <3>1, <3>2
  <2> QED BY <1>5, <2>1, <2>2, SeqEqual
<1>9. PlaceOf(st2) = "first"
  <2>1. st2 # <<>> /\ Last(st2) = e
    BY <1>3, EmptySeq DEF Last
  <2> QED BY <2>1, <1>2 DEF PlaceOf
<1>10. Open(r, type) \in Readings
  BY OpenReads
<1> QED BY <1>3, <1>7, <1>8, <1>9, <1>10 DEF Agrees

\* A container that ends is an element of the one around it.
LEMMA CloseAgrees ==
  ASSUME NEW st \in Seq(GoodEntry), st # <<>>, NEW r, Agrees(r, st),
         Last(st).type = "object" => Last(st).expectingKey
  PROVE  Agrees(Close(r, Last(st).type), Elements(Front(st)))
<1>1. PICK n \in Nat :
         /\ n = Len(st) /\ OpenOf(st) \in Seq(Opened) /\ Len(OpenOf(st)) = n
         /\ \A k \in 1..n : OpenOf(st)[k] = [type |-> st[k].type, hasElements |-> st[k].hasElements]
  BY StackShape
<1>2. r \in Readings /\ r.open = OpenOf(st) /\ r.at \in {"first", "after"}
  BY DEF Agrees, PlaceOf
<1>3. r.open # <<>> /\ Inner(r).type = Last(st).type
  BY <1>2, InnerIs
<1>4. PICK f \in Seq(GoodEntry) : /\ f = Front(st) /\ Len(f) = n - 1
                                  /\ \A k \in 1..(n - 1) : f[k] = st[k]
  BY <1>1, FrontProperties
<1>5. PICK o \in Seq(Opened) : /\ o = Front(r.open) /\ Len(o) = n - 1
                               /\ \A k \in 1..(n - 1) : o[k] = OpenOf(st)[k]
  BY <1>1, <1>2, <1>3, FrontProperties
<1>6. o = OpenOf(f)
  <2>1. /\ OpenOf(f) \in Seq(Opened) /\ Len(OpenOf(f)) = n - 1
        /\ \A k \in 1..(n - 1) : OpenOf(f)[k] = [type |-> f[k].type, hasElements |-> f[k].hasElements]
    <3>1. PICK m \in Nat :
            /\ m = Len(f) /\ OpenOf(f) \in Seq(Opened) /\ Len(OpenOf(f)) = m
            /\ \A k \in 1..m : OpenOf(f)[k] = [type |-> f[k].type, hasElements |-> f[k].hasElements]
      BY StackShape
    <3> QED BY <1>4, <3>1
  <2>2. ASSUME NEW k \in 1..(n - 1) PROVE o[k] = OpenOf(f)[k]
    <3>1. k \in 1..n
      OBVIOUS
    <3>2. f[k] = st[k] /\ o[k] = OpenOf(st)[k]
      BY <1>4, <1>5
    <3>3. OpenOf(st)[k] = [type |-> st[k].type, hasElements |-> st[k].hasElements]
      BY <1>1, <3>1
    <3>4. OpenOf(f)[k] = [type |-> f[k].type, hasElements |-> f[k].hasElements]
      BY <2>1
    <3> QED BY <3>2, <3>3, <3>4
  <2> QED BY <1>5, <2>1, <2>2, SeqEqual
<1>7. PICK m \in Readings : m = [r EXCEPT !.open = Front(@)] /\ m.open = OpenOf(f)
  <2>1. [r EXCEPT !.open = o] \in Readings /\ [r EXCEPT !.open = o].open = o
    BY <1>2 DEF Readings
  <2>2. [r EXCEPT !.open = o] = [r EXCEPT !.open = Front(@)]
    BY <1>5
  <2> QED BY <1>6, <2>1, <2>2
<1>8. Close(r, Last(st).type) = Element(m)
  BY <1>2, <1>3, <1>7 DEF Close
<1> QED BY <1>4, <1>7, <1>8, ElementAgrees

\* A key that is complete.
LEMMA KeyAgrees ==
  ASSUME NEW st \in Seq(GoodEntry), st # <<>>, Last(st).type = "object",
         NEW r \in Readings, r.open = OpenOf(st), r.at = "value"
  PROVE  Agrees(r, [st EXCEPT ![Len(st)].expectingKey = FALSE])
<1>1. PICK n \in Nat :
         /\ n = Len(st) /\ OpenOf(st) \in Seq(Opened) /\ Len(OpenOf(st)) = n
         /\ \A k \in 1..n : /\ st[k] \in GoodEntry
                            /\ OpenOf(st)[k] = [type |-> st[k].type, hasElements |-> st[k].hasElements]
         /\ n \in 1..n /\ Last(st) = st[n]
  BY StackShape
<1>2. PICK e \in GoodEntry : /\ e = [st[n] EXCEPT !.expectingKey = FALSE]
                             /\ e.type = st[n].type /\ e.hasElements = st[n].hasElements
                             /\ e.expectingKey = FALSE
  <2>1. PICK x \in GoodEntry : x = st[n]
    BY <1>1
  <2>2. PICK b \in BOOLEAN : b = FALSE
    OBVIOUS
  <2>3. PICK e \in EntryType : e = [x EXCEPT !.expectingKey = b] /\ e.type = x.type
                              /\ e.hasElements = x.hasElements /\ e.expectingKey = b
    <3>1. x \in EntryType
      BY DEF GoodEntry
    <3>2. PICK e : e = [x EXCEPT !.expectingKey = b]
      OBVIOUS
    <3>3. /\ e \in EntryType /\ e.type = x.type
          /\ e.hasElements = x.hasElements /\ e.expectingKey = b
      BY <3>1, <3>2 DEF EntryType
    <3> QED BY <3>2, <3>3
  <2>4. e \in GoodEntry
    BY <2>2, <2>3 DEF GoodEntry
  <2> QED BY <2>1, <2>2, <2>3, <2>4
<1>3. PICK st2 \in Seq(GoodEntry) : /\ st2 = [st EXCEPT ![Len(st)].expectingKey = FALSE]
                                    /\ Len(st2) = n
                                    /\ \A k \in 1..n : st2[k] = IF k = n THEN e ELSE st[k]
  <2>1. [st EXCEPT ![Len(st)].expectingKey = FALSE] = [st EXCEPT ![n] = e]
    BY <1>1, <1>2
  <2>2. /\ [st EXCEPT ![n] = e] \in Seq(GoodEntry) /\ Len([st EXCEPT ![n] = e]) = n
        /\ \A k \in 1..n : [st EXCEPT ![n] = e][k] = IF k = n THEN e ELSE st[k]
    BY <1>1, <1>2, ExceptSeq
  <2> QED BY <2>1, <2>2
<1>4. OpenOf(st) = OpenOf(st2)
  <2>1. /\ OpenOf(st2) \in Seq(Opened) /\ Len(OpenOf(st2)) = n
        /\ \A k \in 1..n : OpenOf(st2)[k] = [type |-> st2[k].type, hasElements |-> st2[k].hasElements]
    BY <1>3, StackShape
  <2>2. \A k \in 1..n : OpenOf(st)[k] = OpenOf(st2)[k]
    <3> SUFFICES ASSUME NEW k \in 1..n PROVE OpenOf(st)[k] = OpenOf(st2)[k]
      OBVIOUS
    <3>1. st2[k].type = st[k].type /\ st2[k].hasElements = st[k].hasElements
      BY <1>1, <1>2, <1>3
    <3>2. OpenOf(st)[k] = [type |-> st[k].type, hasElements |-> st[k].hasElements]
      BY <1>1
    <3>3. OpenOf(st2)[k] = [type |-> st2[k].type, hasElements |-> st2[k].hasElements]
      BY <2>1
    <3> QED BY <3>1, <3>2, <3>3
  <2> QED BY <1>1, <2>1, <2>2, SeqEqual
<1>5. PlaceOf(st2) = "value"
  <2>1. st2 # <<>> /\ Last(st2) = e
    BY <1>1, <1>3, EmptySeq DEF Last
  <2> QED BY <2>1, <1>1, <1>2 DEF PlaceOf
<1> QED BY <1>3, <1>4, <1>5 DEF Agrees

-----------------------------------------------------------------------------
(* The writes of each call.                                                *)

\* A write of one token.
LEMMA TokenLeads ==
  ASSUME NEW r \in Readings, NEW t \in Tokens, NEW q, q = ReadToken(r, t)
  PROVE  Leads(r, <<Write(<<t>>)>>, q) /\ q \in Readings
<1>1. q \in Readings
  BY TokenReads
<1>2. Write(<<t>>).fails = FALSE /\ Write(<<t>>).bytes = <<t>>
  BY DEF Write
<1>3. Adds(r, Write(<<t>>), q)
  BY <1>2 DEF Adds
<1> QED BY <1>1, <1>3, OneLeads

LEMMA SpaceLeads ==
  ASSUME NEW r \in Readings, NEW wanted
  PROVE  Leads(r, Optional(wanted, Space), r) /\ Optional(wanted, Space) \in Seq(WriteType)
<1>1. "ws" \in Tokens
  BY DEF Tokens
<1>2. r = ReadToken(r, "ws")
  BY DEF ReadToken
<1>3. Leads(r, <<Space>>, r)
  BY <1>1, <1>2, TokenLeads DEF Space
<1>4. <<Space>> \in Seq(WriteType) /\ <<>> \in Seq(WriteType)
  BY <1>1, WriteTypes DEF Space
<1> QED BY <1>3, <1>4, NothingLeads DEF Optional

\* A comma where one is due, and white space.
LEMMA CommaLeads ==
  ASSUME TypeOK, stack \in Seq(GoodEntry), NEW r, Agrees(r, stack)
  PROVE  \E q \in Readings : /\ Leads(r, CommaWrites, q) /\ q.open = OpenOf(stack)
                             /\ NeedsKey => MayBeKey(q)
                             /\ ~NeedsKey => MayBeValue(q)
<1>1. r \in Readings /\ r.open = OpenOf(stack) /\ r.at = PlaceOf(stack)
  BY DEF Agrees
<1>2. /\ r.open = <<>> <=> stack = <<>>
      /\ stack # <<>> => Inner(r) = [type |-> Top.type, hasElements |-> Top.hasElements]
      /\ InObject(r) <=> stack # <<>> /\ Top.type = "object"
  BY <1>1, InnerIs DEF Top
<1>3. NeedsKey <=> stack # <<>> /\ Top.type = "object" /\ Top.expectingKey
  BY DEF NeedsKey, InObjectNow
<1>4. PlaceOf(stack) = IF stack = <<>> \/ (Top.type = "object" /\ ~Top.expectingKey) THEN "value"
                       ELSE IF Top.hasElements THEN "after" ELSE "first"
  BY DEF PlaceOf, Top
<1>5. CASE stack # <<>> /\ Top.hasElements
  <2>1. PICK q : q = ReadToken(r, ",")
    OBVIOUS
  <2>2. "," \in Tokens
    BY DEF Tokens
  <2>3. q \in Readings /\ Leads(r, <<Write(<<",">>)>>, q)
    BY <1>1, <2>1, <2>2, TokenLeads
  <2>4. <<Write(<<",">>)>> \in Seq(WriteType)
    BY <2>2, WriteTypes
  <2>5. Leads(r, CommaWrites, q)
    <3>1. PICK w : w = (opts.pretty \/ opts.spaces)
      OBVIOUS
    <3>2. Leads(q, Optional(w, Space), q) /\ Optional(w, Space) \in Seq(WriteType)
      BY <2>3, SpaceLeads
    <3>3. CommaWrites = <<Write(<<",">>)>> \o Optional(w, Space)
      BY <1>5, <3>1 DEF CommaWrites
    <3> QED BY <2>3, <2>4, <3>2, <3>3, BothLead
  <2>6. CASE Top.type = "object" /\ ~Top.expectingKey
    <3>1. r.at = "value" /\ InObject(r) /\ Inner(r).hasElements
      BY <1>1, <1>2, <1>4, <1>5, <2>6
    <3>2. q = [r EXCEPT !.doubled = TRUE]
      BY <2>1, <3>1 DEF ReadToken, MayBeKey, MayBeValue
    <3>3. q.open = r.open /\ q.at = "value"
      BY <1>1, <3>1, <3>2 DEF Readings
    <3> QED BY <1>1, <1>3, <2>3, <2>5, <2>6, <3>3 DEF MayBeValue
  <2>7. CASE Top.type = "object" /\ Top.expectingKey
    <3>1. r.at = "after" /\ InObject(r)
      BY <1>1, <1>2, <1>4, <1>5, <2>7
    <3>2. q = [r EXCEPT !.at = "key"]
      BY <2>1, <3>1 DEF ReadToken, MayBeKey, MayBeValue
    <3>3. q.open = r.open /\ q.at = "key"
      BY <1>1, <3>2 DEF Readings
    <3> QED BY <1>1, <1>3, <1>5, <2>3, <2>5, <2>7, <3>3 DEF MayBeKey
  <2>8. CASE Top.type # "object"
    <3>1. r.at = "after" /\ ~InObject(r)
      BY <1>1, <1>2, <1>4, <1>5, <2>8
    <3>2. q = [r EXCEPT !.at = "value"]
      BY <2>1, <3>1 DEF ReadToken, MayBeKey, MayBeValue
    <3>3. q.open = r.open /\ q.at = "value"
      BY <1>1, <3>2 DEF Readings
    <3> QED BY <1>1, <1>3, <2>3, <2>5, <2>8, <3>3 DEF MayBeValue
  <2> QED BY <2>6, <2>7, <2>8
<1>6. CASE ~(stack # <<>> /\ Top.hasElements)
  <2>1. Leads(r, CommaWrites, r)
    <3>1. PICK w : w = (stack # <<>> /\ opts.pretty)
      OBVIOUS
    <3>2. CommaWrites = Optional(w, Space)
      BY <1>6, <3>1 DEF CommaWrites
    <3> QED BY <1>1, <3>2, SpaceLeads
  <2>2. NeedsKey => r.at = "first" /\ InObject(r)
    BY <1>1, <1>2, <1>3, <1>4, <1>6
  <2>3. ~NeedsKey => r.at = "value" \/ (r.at = "first" /\ ~InObject(r))
    BY <1>1, <1>2, <1>3, <1>4, <1>6
  <2> QED BY <1>1, <2>1, <2>2, <2>3 DEF MayBeKey, MayBeValue
<1> QED BY <1>5, <1>6

\* A string: a key or a value, as the place has it.
LEMMA StringLeads ==
  ASSUME NEW r \in Readings, MayBeKey(r) \/ MayBeValue(r)
  PROVE  \E m \in Readings : /\ m.open = r.open
                             /\ MayBeKey(r) => Leads(r, StringWrites, [m EXCEPT !.at = "colon"])
                             /\ ~MayBeKey(r) => Leads(r, StringWrites, Element(m))
<1>1. "quote" \in Tokens /\ "text" \in Tokens
  BY DEF Tokens
<1>2. PICK key \in BOOLEAN : key = MayBeKey(r)
  BY DEF MayBeKey
<1>3. PICK a \in Readings : a = [r EXCEPT !.at = "text", !.key = key] /\ a = ReadToken(r, "quote")
  <2>1. r.at \notin {"bad", "text", "unquote"}
    BY DEF MayBeKey, MayBeValue
  <2>2. ReadToken(r, "quote") = [r EXCEPT !.at = "text", !.key = key]
    BY <1>2, <2>1 DEF ReadToken
  <2> QED BY <2>2, TokenReads
<1>4. a.at = "text" /\ a.key = key /\ a.open = r.open
  BY <1>3 DEF Readings
<1>5. PICK m \in Readings : m = [a EXCEPT !.at = "unquote"] /\ m = ReadToken(a, "text")
  <2>1. ReadToken(a, "text") = [a EXCEPT !.at = "unquote"]
    BY <1>4 DEF ReadToken
  <2> QED BY <2>1, TokenReads
<1>6. m.at = "unquote" /\ m.key = key /\ m.open = r.open
  BY <1>4, <1>5 DEF Readings
<1>7. PICK z \in Readings : /\ z = ReadToken(m, "quote")
                            /\ key => z = [m EXCEPT !.at = "colon"]
                            /\ ~key => z = Element(m)
  <2>1. ReadToken(m, "quote") = IF key THEN [m EXCEPT !.at = "colon"] ELSE Element(m)
    BY <1>6 DEF ReadToken, MayBeKey, MayBeValue
  <2> QED BY <2>1, TokenReads
<1>8. Leads(r, StringWrites, z)
  <2>1. PICK one \in Seq(WriteType), two \in Seq(WriteType) :
           one = <<Write(<<"quote">>)>> /\ two = <<Write(<<"text">>)>>
    BY <1>1, WriteTypes
  <2>2. Leads(r, one, a) /\ Leads(a, two, m) /\ Leads(m, one, z)
    BY <1>1, <1>3, <1>5, <1>7, <2>1, TokenLeads
  <2>3. one \o two \in Seq(WriteType)
    BY ConcatProperties
  <2>4. Leads(r, one \o two, m)
    BY <2>2, BothLead
  <2>5. Leads(r, (one \o two) \o one, z)
    BY <2>2, <2>3, <2>4, BothLead
  <2>6. StringWrites = (one \o two) \o one
    BY <2>1 DEF StringWrites
  <2> QED BY <2>5, <2>6
<1> QED BY <1>2, <1>6, <1>7, <1>8

\* Where a value may stand, no key may.
LEMMA ValueIsNoKey ==
  ASSUME NEW r, MayBeValue(r)
  PROVE  ~MayBeKey(r)
BY DEF MayBeValue, MayBeKey

\* A value that is written.
LEMMA ValueLeads ==
  ASSUME stack \in Seq(GoodEntry), NEW q \in Readings, q.open = OpenOf(stack), MayBeValue(q), NEW kind,
         ValueWrites(kind) # <<Rejected>>
  PROVE  \E z : Leads(q, ValueWrites(kind), z) /\ Agrees(z, Elements(stack))
<1>1. CASE ValueWrites(kind) = StringWrites
  <2>1. PICK m \in Readings : m.open = q.open /\ Leads(q, StringWrites, Element(m))
    BY StringLeads, ValueIsNoKey
  <2> QED BY <1>1, <2>1, ElementAgrees
<1>2. CASE ValueWrites(kind) = <<Write(<<"scalar">>)>>
  <2>1. "scalar" \in Tokens
    BY DEF Tokens
  <2>2. ReadToken(q, "scalar") = Element(q)
    BY DEF ReadToken, MayBeValue
  <2>3. Leads(q, <<Write(<<"scalar">>)>>, Element(q))
    BY <2>1, <2>2, TokenLeads
  <2> QED BY <1>2, <2>3, ElementAgrees
<1> QED BY <1>1, <1>2 DEF ValueWrites

LEMMA ColonLeads ==
  ASSUME TypeOK, NEW r \in Readings, r.at = "colon"
  PROVE  \E z \in Readings : Leads(r, ColonWrites, z) /\ z.open = r.open /\ z.at = "value"
<1>1. ":" \in Tokens /\ "ws" \in Tokens
  BY DEF Tokens
<1>2. PICK z \in Readings : z = ReadToken(r, ":") /\ z = [r EXCEPT !.at = "value"]
  <2>1. ReadToken(r, ":") = [r EXCEPT !.at = "value"]
    BY DEF ReadToken, MayBeKey, MayBeValue
  <2> QED BY <2>1, TokenReads
<1>3. z.open = r.open /\ z.at = "value"
  BY <1>2 DEF Readings
<1>4. CASE opts.pretty
  <2>1. PICK w : w = Write(<<":", "ws">>)
    OBVIOUS
  <2>2. w.fails = FALSE /\ w.bytes = <<":">> \o <<"ws">>
    BY <2>1 DEF Write
  <2>3. z = ReadToken(z, "ws")
    BY DEF ReadToken
  <2>4. Adds(r, w, z)
    BY <1>1, <1>2, <2>2, <2>3 DEF Adds
  <2>5. ColonWrites = <<w>>
    BY <1>4, <2>1 DEF ColonWrites
  <2> QED BY <1>3, <2>4, <2>5, OneLeads
<1>5. CASE ~opts.pretty
  <2>1. Leads(r, <<Write(<<":">>)>>, z) /\ <<Write(<<":">>)>> \in Seq(WriteType)
    BY <1>1, <1>2, TokenLeads, WriteTypes
  <2>2. PICK w : w = opts.spaces
    OBVIOUS
  <2>3. Leads(z, Optional(w, Space), z) /\ Optional(w, Space) \in Seq(WriteType)
    BY SpaceLeads
  <2>4. ColonWrites = <<Write(<<":">>)>> \o Optional(w, Space)
    BY <1>5, <2>2 DEF ColonWrites
  <2> QED BY <1>3, <2>1, <2>3, <2>4, BothLead
<1> QED BY <1>4, <1>5

-----------------------------------------------------------------------------
(* The text and the stack, through every call.                             *)

\* The stack once a call has returned.
AfterOf(c, st) ==
    CASE c \in {"none", "finish"}  -> st
      [] c \in {"object", "array"} -> Append(st, Entry(c))
      [] c = "end"                 -> Elements(Front(st))
      [] c = "key"                 -> [st EXCEPT ![Len(st)].expectingKey = FALSE]
      [] c = "value"               -> Elements(st)

\* If the writes to come all succeed, the text will read as the stack will say.
ReadsOn ==
    ~error /\ (\A k \in 1..Len(todo) : ~todo[k].fails) =>
        \E q : Leads(Reads(sink.out), todo, q) /\ Agrees(q, AfterOf(call, stack))

LEMMA OutIsText ==
  ASSUME Inv
  PROVE  sink.out \in Seq(Tokens) /\ Reads(sink.out) \in Readings
<1>1. sink.out \in Seq(Byte)
  BY InvGives DEF SinkInv, SinkTypeOK
<1>2. PICK s \in Seq(Tokens) : s = sink.out
  BY <1>1, TokenAssumption
<1>3. "ws" \in Tokens
  BY DEF Tokens
<1> QED BY <1>2, <1>3, ReadsOneMore

\* Between calls the text reads as the stack says.
LEMMA IdleAgrees ==
  ASSUME Inv, ReadsOn, ~error, call = "none"
  PROVE  Agrees(Reads(sink.out), stack)
<1>1. todo = <<>> /\ Len(<<>>) = 0 /\ 1..0 = {}
  BY InvGives
<1>2. \A k \in 1..Len(todo) : ~todo[k].fails
  BY <1>1
<1>3. PICK q : Leads(Reads(sink.out), <<>>, q) /\ Agrees(q, AfterOf("none", stack))
  BY <1>1, <1>2 DEF ReadsOn
<1>4. q = Reads(sink.out)
  BY <1>3, NothingLeadsBack
<1> QED BY <1>3, <1>4 DEF AfterOf

\* A call begins that makes writes which lead to what its return will leave.
LEMMA BeginReadsOn ==
  ASSUME NEW c, NEW writes, Begin(c, writes),
         (\A k \in 1..Len(writes) : ~writes[k].fails) =>
            \E q : Leads(Reads(sink.out), writes, q) /\ Agrees(q, AfterOf(c, stack))
  PROVE  ReadsOn'
BY DEF Begin, ReadsOn

LEMMA RefuseReadsOn ==
  ASSUME NEW fatal \in BOOLEAN, Inv, ReadsOn, Refuse(fatal)
  PROVE  ReadsOn'
<1>1. /\ sink' = sink /\ todo' = todo /\ call' = call /\ stack' = stack
      /\ ~error' => ~error
  BY InvGives DEF Refuse
<1> QED BY <1>1 DEF ReadsOn

LEMMA ContainerBeginReadsOn ==
  ASSUME Inv, ReadsOn, NEW type \in {"object", "array"}, ContainerBegin(type)
  PROVE  ReadsOn'
<1> DEFINE writes == CommaWrites \o <<Opening(type)>>
<1>1. CASE Refuse(FALSE)
  BY <1>1, RefuseReadsOn
<1>2. CASE ~error /\ ~NeedsKey /\ Begin(type, writes)
  <2>1. Agrees(Reads(sink.out), stack) /\ stack \in Seq(GoodEntry) /\ TypeOK
    BY <1>2, IdleAgrees, InvGives DEF Begin
  <2>2. PICK q \in Readings : Leads(Reads(sink.out), CommaWrites, q) /\ q.open = OpenOf(stack) /\ MayBeValue(q)
    BY <1>2, <2>1, CommaLeads
  <2>3. PICK t \in {"[", "{"} : t = IF type = "array" THEN "[" ELSE "{"
    OBVIOUS
  <2>4. t \in Tokens
    BY DEF Tokens
  <2>5. ReadToken(q, t) = Open(q, type)
    <3>1. CASE type = "array"
      BY <2>2, <2>3, <3>1 DEF ReadToken, MayBeValue
    <3>2. CASE type = "object"
      BY <2>2, <2>3, <3>2 DEF ReadToken, MayBeValue
    <3> QED BY <3>1, <3>2
  <2>6. Opening(type) = Write(<<t>>)
    BY <2>3 DEF Opening
  <2>7. Leads(q, <<Opening(type)>>, Open(q, type)) /\ <<Opening(type)>> \in Seq(WriteType)
    BY <2>4, <2>5, <2>6, TokenLeads, WriteTypes
  <2>8. CommaWrites \in Seq(WriteType)
    BY <2>1, CallWritesType
  <2>9. Leads(Reads(sink.out), writes, Open(q, type))
    BY <2>2, <2>7, <2>8, BothLead
  <2>10. Agrees(Open(q, type), Append(stack, Entry(type)))
    BY <2>1, <2>2, OpenAgrees
  <2>11. AfterOf(type, stack) = Append(stack, Entry(type))
    BY DEF AfterOf
  <2> QED BY <1>2, <2>9, <2>10, <2>11, BeginReadsOn
<1> QED BY <1>1, <1>2 DEF ContainerBegin

LEMMA ContainerEndReadsOn ==
  ASSUME Inv, ReadsOn, NEW type \in {"object", "array"}, ContainerEnd(type)
  PROVE  ReadsOn'
<1> DEFINE space  == Optional(opts.pretty /\ Top.hasElements, Space)
           writes == space \o <<Closing(type)>>
<1>1. CASE Refuse(FALSE)
  BY <1>1, RefuseReadsOn
<1>2. CASE MayEnd(type) /\ Begin("end", writes)
  <2>1. /\ ~error /\ stack # <<>> /\ Last(stack).type = type
        /\ Last(stack).type = "object" => Last(stack).expectingKey
    BY <1>2 DEF MayEnd, Top
  <2>2. PICK r \in Readings : r = Reads(sink.out) /\ Agrees(r, stack)
    BY <1>2, <2>1, IdleAgrees, OutIsText DEF Begin
  <2>3. stack \in Seq(GoodEntry)
    BY InvGives
  <2>4. PICK t \in {"]", "}"} : t = IF type = "array" THEN "]" ELSE "}"
    OBVIOUS
  <2>5. t \in Tokens
    BY DEF Tokens
  <2>6. r.at \in {"first", "after"}
    BY <2>1, <2>2 DEF Agrees, PlaceOf
  <2>7. ReadToken(r, t) = Close(r, type)
    <3>1. CASE type = "array"
      BY <2>4, <2>6, <3>1 DEF ReadToken
    <3>2. CASE type = "object"
      BY <2>4, <2>6, <3>2 DEF ReadToken
    <3> QED BY <3>1, <3>2
  <2>8. Closing(type) = Write(<<t>>)
    BY <2>4 DEF Closing
  <2>9. Leads(r, <<Closing(type)>>, Close(r, type))
    BY <2>5, <2>7, <2>8, TokenLeads
  <2>10. <<Closing(type)>> \in Seq(WriteType)
    BY <2>5, <2>8, WriteTypes
  <2>11. Leads(r, space, r) /\ space \in Seq(WriteType)
    BY SpaceLeads
  <2>12. Leads(r, writes, Close(r, type))
    <3> HIDE DEF space
    <3> QED BY <2>9, <2>10, <2>11, BothLead
  <2>13. Agrees(Close(r, type), Elements(Front(stack)))
    BY <2>1, <2>2, <2>3, CloseAgrees
  <2>14. AfterOf("end", stack) = Elements(Front(stack))
    BY DEF AfterOf
  <2> QED BY <1>2, <2>2, <2>12, <2>13, <2>14, BeginReadsOn
<1> QED BY <1>1, <1>2 DEF ContainerEnd

LEMMA ValueReadsOn ==
  ASSUME Inv, ReadsOn, NEW kind \in {"scalar", "string", "nonfinite"}, Value(kind)
  PROVE  ReadsOn'
<1> DEFINE writes == CommaWrites \o ValueWrites(kind)
<1>1. CASE Refuse(NeedsKey)
  <2>1. NeedsKey \in BOOLEAN
    BY InvGives DEF NeedsKey, InObjectNow
  <2> QED BY <1>1, <2>1, RefuseReadsOn
<1>2. CASE ~error /\ ~NeedsKey /\ Begin("value", writes)
  <2>1. Agrees(Reads(sink.out), stack) /\ stack \in Seq(GoodEntry) /\ TypeOK
    BY <1>2, IdleAgrees, InvGives DEF Begin
  <2>2. PICK q \in Readings : Leads(Reads(sink.out), CommaWrites, q) /\ q.open = OpenOf(stack) /\ MayBeValue(q)
    BY <1>2, <2>1, CommaLeads
  <2>3. CommaWrites \in Seq(WriteType) /\ ValueWrites(kind) \in Seq(WriteType)
    BY <2>1, CallWritesType
  <2>4. ASSUME \A k \in 1..Len(writes) : ~writes[k].fails
        PROVE  ValueWrites(kind) # <<Rejected>>
    <3> SUFFICES ASSUME ValueWrites(kind) = <<Rejected>> PROVE FALSE
      OBVIOUS
    <3>1. PICK one \in Seq(WriteType) : one = <<Rejected>> /\ Len(one) = 1 /\ one[1] = Rejected
      BY WriteTypes
    <3>2. PICK n \in Nat : n = Len(CommaWrites)
      BY <2>3, LenProperties
    <3>3. Len(writes) = n + 1 /\ writes[n + 1] = Rejected
      <4>1. /\ Len(CommaWrites \o one) = n + 1
            /\ \A k \in 1..(n + 1) : (CommaWrites \o one)[k] = IF k <= n THEN CommaWrites[k] ELSE one[k - n]
        BY <2>3, <3>1, <3>2, ConcatProperties
      <4>2. n + 1 \in 1..(n + 1) /\ ~(n + 1 <= n) /\ (n + 1) - n = 1
        OBVIOUS
      <4> QED BY <3>1, <4>1, <4>2
    <3>4. n + 1 \in 1..Len(writes)
      BY <3>3
    <3>5. Rejected.fails = TRUE
      BY DEF Rejected
    <3> HIDE DEF writes
    <3> QED BY <2>4, <3>3, <3>4, <3>5
  <2>5. ASSUME \A k \in 1..Len(writes) : ~writes[k].fails
        PROVE  \E z : Leads(Reads(sink.out), writes, z) /\ Agrees(z, Elements(stack))
    <3>1. PICK z : Leads(q, ValueWrites(kind), z) /\ Agrees(z, Elements(stack))
      BY <2>1, <2>2, <2>4, <2>5, ValueLeads
    <3>2. Leads(Reads(sink.out), writes, z)
      BY <2>2, <2>3, <3>1, BothLead
    <3> QED BY <3>1, <3>2
  <2>6. AfterOf("value", stack) = Elements(stack)
    BY DEF AfterOf
  <2> QED BY <1>2, <2>5, <2>6, BeginReadsOn
<1> QED BY <1>1, <1>2 DEF Value

LEMMA KeyReadsOn ==
  ASSUME Inv, ReadsOn, Key
  PROVE  ReadsOn'
<1> DEFINE writes == CommaWrites \o StringWrites \o ColonWrites
<1>1. CASE Refuse(FALSE)
  BY <1>1, RefuseReadsOn
<1>2. CASE ~error /\ NeedsKey /\ Begin("key", writes)
  <2>1. Agrees(Reads(sink.out), stack) /\ stack \in Seq(GoodEntry) /\ TypeOK
    BY <1>2, IdleAgrees, InvGives DEF Begin
  <2>2. PICK q \in Readings : Leads(Reads(sink.out), CommaWrites, q) /\ q.open = OpenOf(stack) /\ MayBeKey(q)
    BY <1>2, <2>1, CommaLeads
  <2>3. PICK m \in Readings : /\ m.open = q.open /\ m.at = "colon" /\ Leads(q, StringWrites, m)
    <3>1. PICK o \in Readings : o.open = q.open /\ Leads(q, StringWrites, [o EXCEPT !.at = "colon"])
      BY <2>2, StringLeads
    <3>2. PICK x : x = [o EXCEPT !.at = "colon"]
      OBVIOUS
    <3>3. x \in Readings /\ x.open = o.open /\ x.at = "colon"
      BY <3>2 DEF Readings, Places
    <3> QED BY <3>1, <3>2, <3>3
  <2>4. PICK z \in Readings : Leads(m, ColonWrites, z) /\ z.open = m.open /\ z.at = "value"
    BY <2>1, <2>3, ColonLeads
  <2>5. /\ CommaWrites \in Seq(WriteType) /\ StringWrites \in Seq(WriteType)
        /\ ColonWrites \in Seq(WriteType) /\ CommaWrites \o StringWrites \in Seq(WriteType)
    BY <2>1, CallWritesType, ConcatProperties
  <2>6. Leads(Reads(sink.out), CommaWrites \o StringWrites, m)
    BY <2>2, <2>3, <2>5, BothLead
  <2>7. Leads(Reads(sink.out), writes, z)
    BY <2>4, <2>5, <2>6, BothLead
  <2>8. stack # <<>> /\ Last(stack).type = "object" /\ z.open = OpenOf(stack)
    BY <1>2, <2>2, <2>3, <2>4 DEF NeedsKey, InObjectNow, Top
  <2>9. Agrees(z, [stack EXCEPT ![Len(stack)].expectingKey = FALSE])
    BY <2>1, <2>4, <2>8, KeyAgrees
  <2>10. AfterOf("key", stack) = [stack EXCEPT ![Len(stack)].expectingKey = FALSE]
    BY DEF AfterOf
  <2> QED BY <1>2, <2>7, <2>9, <2>10, BeginReadsOn
<1> QED BY <1>1, <1>2 DEF Key

LEMMA FinishReadsOn ==
  ASSUME Inv, ReadsOn, Finish
  PROVE  ReadsOn'
<1> DEFINE writes == Optional(opts.trailingNewline, Space)
<1>1. CASE Refuse(FALSE)
  BY <1>1, RefuseReadsOn
<1>2. CASE ~error /\ Begin("finish", writes)
  <2>1. Agrees(Reads(sink.out), stack)
    BY <1>2, IdleAgrees DEF Begin
  <2>2. Leads(Reads(sink.out), writes, Reads(sink.out))
    BY OutIsText, SpaceLeads
  <2>3. AfterOf("finish", stack) = stack
    BY DEF AfterOf
  <2> QED BY <1>2, <2>1, <2>2, <2>3, BeginReadsOn
<1> QED BY <1>1, <1>2 DEF Finish

\* A write that succeeds is read; one that fails puts the writer in error.
LEMMA SinkWriteReadsOn ==
  ASSUME Inv, ReadsOn, SinkWrite
  PROVE  ReadsOn'
<1>1. CASE Fails
  BY <1>1 DEF Fails, ReadsOn
<1>2. CASE ~Head(todo).fails /\ SinkTakes(Head(todo).bytes) /\ Goes
  <2>1. /\ todo # <<>> /\ todo \in Seq(WriteType) /\ todo' = Tail(todo)
        /\ error' = error /\ call' = call /\ stack' = stack
    BY <1>2, InvGives DEF SinkWrite, Goes
  <2>2. PICK bytes : bytes = Head(todo).bytes
    OBVIOUS
  <2>3. sink'.out = sink.out \o bytes
    <3>1. SinkTakes(bytes)
      BY <1>2, <2>2
    <3>2. sink.out \in Seq(Byte) /\ sink \in [kind : {"growable", "fixed"}, out : Seq(Byte), size : Nat, truncated : BOOLEAN]
      BY InvGives DEF SinkInv, SinkTypeOK
    <3>3. CASE sink.kind = "fixed" /\ Len(bytes) <= Room /\ sink' = FixedTakes(bytes)
      <4>1. ~(Len(bytes) > Room)
        <5>1. Head(todo) \in WriteType
          BY <2>1, HeadTailProperties
        <5>2. Len(bytes) \in Nat
          BY <2>2, <5>1, LenProperties DEF WriteType
        <5>3. Room \in Int
          BY <3>2, LenProperties DEF Room
        <5> QED BY <3>3, <5>2, <5>3
      <4>2. sink' = [sink EXCEPT !.out = @ \o bytes]
        BY <3>3, <4>1 DEF FixedTakes
      <4> QED BY <3>2, <4>2
    <3>4. ASSUME NEW size, sink' = [sink EXCEPT !.out = @ \o bytes, !.size = size]
          PROVE  sink'.out = sink.out \o bytes
      BY <3>2, <3>4
    <3> QED BY <3>1, <3>3, <3>4 DEF SinkTakes
  <2>4. SUFFICES ASSUME ~error, \A k \in 1..Len(Tail(todo)) : ~Tail(todo)[k].fails
                 PROVE  \E q : Leads(Reads(sink'.out), Tail(todo), q) /\ Agrees(q, AfterOf(call, stack))
    BY <2>1 DEF ReadsOn
  <2>5. \A k \in 1..Len(todo) : ~todo[k].fails
    <3> SUFFICES ASSUME NEW k \in 1..Len(todo) PROVE ~todo[k].fails
      OBVIOUS
    <3>1. CASE k = 1
      <4>1. todo[1] = Head(todo)
        BY <2>1
      <4> QED BY <1>2, <3>1, <4>1
    <3>2. CASE k # 1
      <4>1. /\ Len(Tail(todo)) = Len(todo) - 1 /\ Len(todo) \in Nat
            /\ \A i \in 1..Len(Tail(todo)) : Tail(todo)[i] = todo[i + 1]
        BY <2>1, HeadTailProperties, LenProperties
      <4>2. k - 1 \in 1..Len(Tail(todo)) /\ (k - 1) + 1 = k
        BY <3>2, <4>1
      <4>3. Tail(todo)[k - 1] = todo[k]
        BY <4>1, <4>2
      <4> QED BY <2>4, <4>2, <4>3
    <3> QED BY <3>1, <3>2
  <2>6. PICK q : Leads(Reads(sink.out), todo, q) /\ Agrees(q, AfterOf(call, stack))
    BY <2>4, <2>5 DEF ReadsOn
  <2>7. PICK m \in Readings : Adds(Reads(sink.out), Head(todo), m) /\ Leads(m, Tail(todo), q)
    BY <2>1, <2>6, TailLeads
  <2>8. Reads(sink.out \o bytes) = m
    BY <2>2, <2>7, OutIsText, WriteReads
  <2> QED BY <2>3, <2>6, <2>7, <2>8
<1> QED BY <1>1, <1>2 DEF SinkWrite

LEMMA ReturnReadsOn ==
  ASSUME Inv, ReadsOn, Return
  PROVE  ReadsOn'
<1>1. todo = <<>> /\ todo' = todo /\ call' = "none" /\ sink' = sink
  BY DEF Return, Pushes, PushFails, Done
<1>2. CASE PushFails
  BY <1>2 DEF PushFails, ReadsOn
<1>3. CASE stack' = AfterOf(call, stack) /\ error' = error
  <2>1. AfterOf("none", stack') = stack'
    BY DEF AfterOf
  <2>2. AfterOf(call', stack') = AfterOf(call, stack)
    BY <1>1, <1>3, <2>1
  <2> QED BY <1>1, <1>3, <2>2 DEF ReadsOn
<1>4. CASE call \in {"object", "array"} /\ Pushes(call)
  <2>1. stack' = AfterOf(call, stack) /\ error' = error
    BY <1>4 DEF Pushes, AfterOf
  <2> QED BY <2>1, <1>3
<1>5. CASE call \in {"end", "key", "value", "finish"} /\ error' = error
           /\ stack' = CASE call = "end"    -> Popped
                         [] call = "key"    -> KeyTaken
                         [] call = "value"  -> Elements(stack)
                         [] call = "finish" -> stack
  <2>1. stack' = AfterOf(call, stack)
    BY <1>5 DEF AfterOf, Popped, KeyTaken
  <2> QED BY <1>5, <2>1, <1>3
<1> QED BY <1>2, <1>4, <1>5 DEF Return

-----------------------------------------------------------------------------
(* The results.                                                            *)

\* Type correctness, with the stack never deeper than its capacity.
THEOREM TypeInvariant == Spec => []TypeOK
<1>1. Inv => TypeOK
  BY DEF Inv
<1> QED BY <1>1, InvInvariant, PTL

\* Both sinks always have room for the terminating NUL, whatever calls are made
\* on the writer.
THEOREM TerminatorFits == Spec => []RoomForTerminator
<1>1. Inv => RoomForTerminator
  BY DEF Inv, SinkInv
<1> QED BY <1>1, InvInvariant, PTL

\* A fixed buffer keeps a gapless prefix of what it was offered and reports the
\* truncation exactly when there was more, whatever calls are made on the writer.
THEOREM FixedBufferKeepsPrefix == Spec => []FixedKeepsPrefix
<1>1. Inv => FixedKeepsPrefix
  BY DEF Inv, SinkInv
<1> QED BY <1>1, InvInvariant, PTL

\* A call that failed after it had stored something is the last that stores.
THEOREM TornOutputStaysFinal == Spec => TornOutputIsFinal
<1>1. Inv /\ [Next]_vars => [torn => torn' /\ sink' = sink]_vars
  <2> SUFFICES ASSUME Inv, Next, torn PROVE torn' /\ sink' = sink
    OBVIOUS
  <2>1. error /\ call = "none" /\ todo = <<>>
    BY InvGives
  <2>2. \A fatal : Refuse(fatal) => torn' /\ sink' = sink
    BY DEF Refuse
  <2> QED BY <2>1, <2>2 DEF Next, ContainerBegin, ContainerEnd, MayEnd, Value, Key, Finish, SinkWrite, Return
<1> QED BY <1>1, InvInvariant, PTL DEF Spec, TornOutputIsFinal

\* Until something fails the output reads as JSON, but for commas that were
\* doubled, and between calls it agrees with the stack on the containers that are
\* open, on which have elements and on what may follow: whatever calls are made in
\* whatever order, and however little of them the sink takes.
THEOREM TextAndStackAgree == Spec => []TextMatchesStack
<1>1. Init => ReadsOn
  <2> SUFFICES ASSUME Init PROVE ReadsOn
    OBVIOUS
  <2>1. sink.out = <<>> /\ stack = <<>> /\ call = "none" /\ todo = <<>>
    BY DEF Init, NewSinks
  <2>2. Leads(Unread, <<>>, Unread) /\ Agrees(Unread, <<>>)
    BY UnreadIs, NothingLeads, EmptyAgrees
  <2>3. AfterOf("none", <<>>) = <<>>
    BY DEF AfterOf
  <2> QED BY <2>1, <2>2, <2>3, NothingReads DEF ReadsOn
<1>2. Inv /\ ReadsOn /\ [Next]_vars => ReadsOn'
  <2> SUFFICES ASSUME Inv, ReadsOn, [Next]_vars PROVE ReadsOn'
    OBVIOUS
  <2>1. CASE UNCHANGED vars
    BY <2>1 DEF vars, ReadsOn
  <2> QED BY <2>1, ContainerBeginReadsOn, ContainerEndReadsOn, ValueReadsOn, KeyReadsOn,
             FinishReadsOn, SinkWriteReadsOn, ReturnReadsOn DEF Next
<1>3. Inv /\ ReadsOn => TextMatchesStack
  <2> SUFFICES ASSUME Inv, ReadsOn, call = "none", ~error
               PROVE  LET r == Reads(sink.out)
                      IN  /\ r.at = Awaited
                          /\ r.open = [i \in DOMAIN stack |-> [type |-> stack[i].type,
                                                               hasElements |-> stack[i].hasElements]]
    BY DEF TextMatchesStack
  <2>1. Agrees(Reads(sink.out), stack)
    BY IdleAgrees
  <2>2. DOMAIN stack = 1..Len(stack)
    BY InvGives, LenProperties
  <2>3. PlaceOf(stack) = Awaited
    BY DEF PlaceOf, Awaited, InObjectNow, Top
  <2> QED BY <2>1, <2>2, <2>3 DEF Agrees, OpenOf
<1> QED BY <1>1, <1>2, <1>3, InvInvariant, PTL DEF Spec
=============================================================================
