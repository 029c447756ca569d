------------------------- MODULE YamlReader_proofs -------------------------
(***************************************************************************)
(* Proofs about YamlReader for texts, cuttings, limits and shortages of    *)
(* every kind: its queue is a queue (QueueIsFifo), the documents it        *)
(* delivers are balanced (DocumentsBalanced), and the limits on depth and  *)
(* aliases hold (LimitsHold).                                              *)
(***************************************************************************)
EXTENDS YamlReader, DataLemmas

-----------------------------------------------------------------------------
(* The scanner: it keeps its shape, a token has one of the types that the  *)
(* stream handles, and a finished scanner never waits.                     *)

IsScanner(s) ==
    /\ DOMAIN s = {"input", "raw", "encoding", "pending", "error", "finished",
                   "lineStart", "indent", "flow", "last"}
    /\ s.error \in {"OK", "INVALID"}
\* A scanner that is another at another place of the input.
SameScanner(s, t) == IsScanner(t) /\ t.finished = s.finished

TokenTypes == {"DOCUMENT_START", "DOCUMENT_END", "COMMENT", "DIRECTIVE", "INDICATOR", "SCALAR", "EOF"}
\* A result of the scanner s.
Scanned(s, n) ==
    /\ SameScanner(s, n.scanner)
    /\ n.status = "INCOMPLETE" => ~s.finished
    /\ n.status = "OK" => n.type \in TokenTypes

LEMMA ConsumeSame ==
  ASSUME NEW s, IsScanner(s), NEW n
  PROVE  SameScanner(s, Consume(s, n))
BY DEF Consume, SameScanner, IsScanner

LEMMA DecodeSame ==
  ASSUME NEW s, IsScanner(s), NEW bytes, NEW final
  PROVE  SameScanner(s, Decode(s, bytes, final))
<1>1. CASE s.encoding = "UTF8"
  BY <1>1 DEF Decode, SameScanner, IsScanner
<1>2. CASE s.encoding # "UTF8"
  <2>1. PICK u : u = Units(s.encoding, s.pending \o bytes)
    OBVIOUS
  <2> QED BY <1>2, <2>1 DEF Decode, SameScanner, IsScanner
<1> QED BY <1>1, <1>2

LEMMA DeterminedSame ==
  ASSUME NEW s, IsScanner(s), NEW final
  PROVE  SameScanner(s, Determined(s, final))
<1>1. PICK e : e = Encoding(s.raw, final)
  OBVIOUS
<1>2. PICK t : t = [s EXCEPT !.encoding = e[1], !.raw = <<>>]
  OBVIOUS
<1>3. SameScanner(s, t) /\ SameScanner(s, s)
  BY <1>2 DEF SameScanner, IsScanner
<1>4. PICK b : b = SubSeq(s.raw, e[2] + 1, Len(s.raw))
  OBVIOUS
<1>5. Determined(s, final) = IF e[1] = "none" THEN s ELSE Decode(t, b, final)
  BY <1>1, <1>2, <1>4 DEF Determined
<1>6. SameScanner(t, Decode(t, b, final))
  BY <1>3, DecodeSame DEF SameScanner
<1> QED BY <1>3, <1>5, <1>6 DEF SameScanner

LEMMA FeedSame ==
  ASSUME NEW s, IsScanner(s), NEW bytes
  PROVE  SameScanner(s, ScannerFeed(s, bytes))
<1>1. PICK t : t = [s EXCEPT !.raw = @ \o bytes]
  OBVIOUS
<1>2. SameScanner(s, t)
  BY <1>1 DEF SameScanner, IsScanner
<1>3. SameScanner(t, Determined(t, s.finished))
  BY <1>2, DeterminedSame DEF SameScanner
<1>4. SameScanner(s, Decode(s, bytes, s.finished))
  BY DecodeSame
<1> QED BY <1>1, <1>2, <1>3, <1>4 DEF ScannerFeed, SameScanner

LEMMA FinishSame ==
  ASSUME NEW s, IsScanner(s)
  PROVE  IsScanner(ScannerFinish(s)) /\ ScannerFinish(s).finished = TRUE
<1>1. PICK t : t = [s EXCEPT !.finished = TRUE]
  OBVIOUS
<1>2. IsScanner(t) /\ t.finished = TRUE
  BY <1>1 DEF IsScanner
<1>3. SameScanner(t, Determined(t, TRUE))
  BY <1>2, DeterminedSame
<1>4. PICK w : w = [t EXCEPT !.error = "INVALID"]
  OBVIOUS
<1>5. IsScanner(w) /\ w.finished = TRUE
  BY <1>2, <1>4 DEF IsScanner
<1>6. ScannerFinish(s) = Determined(t, TRUE) \/ ScannerFinish(s) = w \/ ScannerFinish(s) = t
  BY <1>1, <1>4 DEF ScannerFinish
<1> QED BY <1>2, <1>3, <1>5, <1>6 DEF SameScanner

\* The ways in which the scanner answers.
LEMMA Answers ==
  ASSUME NEW s, NEW t, SameScanner(s, t), NEW type \in TokenTypes, NEW value
  PROVE  /\ Scanned(s, Token(t, type, value))
         /\ Scanned(s, Result(t, "OK", type, value))
         /\ Scanned(s, Invalid(t))
         /\ ~s.finished => Scanned(s, Wait(t))
         /\ Scanned(s, Result(t, "LOOPS", "NONE", value))
         /\ Scanned(s, Result(t, t.error, "NONE", value)) \/ t.error = "OK"
<1>1. PICK w : w = [t EXCEPT !.last = "none"]
  OBVIOUS
<1>2. SameScanner(s, w)
  BY <1>1 DEF SameScanner, IsScanner
<1>3. Scanned(s, Token(t, type, value))
  BY <1>1, <1>2 DEF Token, Result, Scanned
<1> QED BY <1>3 DEF Result, Invalid, Wait, Scanned, SameScanner, IsScanner

LEMMA LineTokenAnswers ==
  ASSUME NEW s, IsScanner(s), NEW type \in TokenTypes
  PROVE  Scanned(s, LineToken(s, type))
<1>1. PICK end : end = FirstIn(s, 0, Newlines)
  OBVIOUS
<1>2. PICK n : n = IF type = "COMMENT" THEN end ELSE end + Break(s, end)
  OBVIOUS
<1>3. SameScanner(s, Consume(s, n)) /\ SameScanner(s, s)
  BY ConsumeSame DEF SameScanner
<1>4. LineToken(s, type) = IF Undecided(s, end) THEN Wait(s) ELSE Token(Consume(s, n), type, Piece(s, end))
  BY <1>1, <1>2 DEF LineToken
<1>5. Undecided(s, end) => ~s.finished
  BY DEF Undecided
<1> QED BY <1>3, <1>4, <1>5, Answers

LEMMA BlockLinesAnswer ==
  ASSUME NEW s, IsScanner(s), NEW indent
  PROVE  Scanned(s, BlockLines(s, indent))
<1> DEFINE indented(k)    == FirstNotIn(s, k, {" "})
           withTab(k)  == Within(s, indented(k)) /\ Byte(s, indented(k)) = "\t"
           goesOn(k) == Within(s, k) /\ IF indent > 0 THEN indented(k) - k >= indent ELSE Byte(s, k) \in Spaces
           cut(k)    == Undecided(s, FirstIn(s, k, Newlines))
           stop       == Min({k \in LineStarts(s) : ~goesOn(k) \/ withTab(k) \/ cut(k)})
           t          == Consume(s, stop)
<1>1. SameScanner(s, t) /\ SameScanner(s, s)
  BY ConsumeSame DEF SameScanner
<1>2. cut(stop) => ~s.finished
  BY DEF Undecided
<1>3. "SCALAR" \in TokenTypes
  BY DEF TokenTypes
<1>4. \/ BlockLines(s, indent) = Wait(s) /\ ~s.finished
      \/ BlockLines(s, indent) = Invalid(t)
      \/ BlockLines(s, indent) = Wait(t) /\ ~s.finished
      \/ BlockLines(s, indent) = Result(t, "OK", "SCALAR", Piece(s, stop))
  <2> HIDE DEF indented, stop, t
  <2>1. BlockLines(s, indent) =
          CASE s.input = <<>> /\ ~s.finished                 -> Wait(s)
            [] withTab(stop)                                  -> Invalid(t)
            [] goesOn(stop) /\ ~withTab(stop) /\ cut(stop) -> Wait(t)
            [] OTHER                                         -> Result(t, "OK", "SCALAR", Piece(s, stop))
    BY DEF BlockLines, indented, stop, t
  <2> HIDE DEF withTab, goesOn, cut
  <2> QED BY <1>2, <2>1
<1> HIDE DEF indented, withTab, goesOn, cut, stop, t
<1> QED BY <1>1, <1>3, <1>4, Answers

LEMMA BlockScalarAnswers ==
  ASSUME NEW s, IsScanner(s)
  PROVE  Scanned(s, BlockScalar(s))
<1>1. PICK end : end = FirstIn(s, 0, Newlines)
  OBVIOUS
<1>2. PICK t : t = Consume(s, end + 1)
  OBVIOUS
<1>3. PICK u : u = IF Within(t, 0) /\ Byte(t, 0) = "\n" THEN Consume(t, 1) ELSE t
  OBVIOUS
<1>4. PICK i : i = HeaderIndent(s)
  OBVIOUS
<1>5. SameScanner(s, t) /\ SameScanner(s, Consume(s, end)) /\ SameScanner(s, s)
  BY <1>2, ConsumeSame DEF SameScanner
<1>6. SameScanner(s, u)
  <2>1. SameScanner(t, Consume(t, 1))
    BY <1>5, ConsumeSame DEF SameScanner
  <2> QED BY <1>3, <1>5, <2>1 DEF SameScanner
<1>7. Scanned(s, BlockLines(u, i))
  <2>1. Scanned(u, BlockLines(u, i))
    BY <1>6, BlockLinesAnswer DEF SameScanner
  <2> QED BY <1>6, <2>1 DEF Scanned, SameScanner
<1>8. \/ Undecided(s, end) /\ BlockScalar(s) = Wait(Consume(s, end))
      \/ BlockScalar(s) = Result(s, "LOOPS", "NONE", <<>>)
      \/ BlockScalar(s) = BlockLines(u, i)
  BY <1>1, <1>2, <1>3, <1>4 DEF BlockScalar
<1>9. Undecided(s, end) => ~s.finished
  BY DEF Undecided
<1>10. "SCALAR" \in TokenTypes
  BY DEF TokenTypes
<1> QED BY <1>5, <1>7, <1>8, <1>9, <1>10, Answers

LEMMA IndicatorAnswers ==
  ASSUME NEW s, IsScanner(s)
  PROVE  Scanned(s, Indicator(s))
<1>1. PICK t : t = Consume(s, 1)
  OBVIOUS
<1>2. SameScanner(s, t)
  BY <1>1, ConsumeSame
<1>3. PICK c : c = Byte(s, 0)
  OBVIOUS
<1>4. \E deeper, last : Indicator(s) = Result([t EXCEPT !.flow = deeper, !.last = last], "OK", "INDICATOR", <<c>>)
  BY <1>1, <1>3 DEF Indicator
<1>5. PICK deeper, last : Indicator(s) = Result([t EXCEPT !.flow = deeper, !.last = last], "OK", "INDICATOR", <<c>>)
  BY <1>4
<1>6. SameScanner(s, [t EXCEPT !.flow = deeper, !.last = last])
  BY <1>2 DEF SameScanner, IsScanner
<1>7. "INDICATOR" \in TokenTypes
  BY DEF TokenTypes
<1> QED BY <1>5, <1>6, <1>7, Answers

LEMMA QuotedAnswers ==
  ASSUME NEW s, IsScanner(s)
  PROVE  Scanned(s, Quoted(s))
<1>1. PICK stop : stop = QuoteStop(s)
  OBVIOUS
<1>2. SameScanner(s, s) /\ SameScanner(s, Consume(s, stop + 1))
  BY ConsumeSame DEF SameScanner
<1>3. \/ Undecided(s, stop) /\ Quoted(s) = Wait(s)
      \/ Quoted(s) = Invalid(s)
      \/ Quoted(s) = Token(Consume(s, stop + 1), "SCALAR", Piece(s, stop))
  BY <1>1 DEF Quoted
<1>4. Undecided(s, stop) => ~s.finished
  BY DEF Undecided
<1>5. "SCALAR" \in TokenTypes
  BY DEF TokenTypes
<1> QED BY <1>2, <1>3, <1>4, <1>5, Answers

LEMMA PlainAnswers ==
  ASSUME NEW s, IsScanner(s)
  PROVE  Scanned(s, Plain(s))
<1> DEFINE stops(k) == IF s.flow = 0 /\ s.last = "none" THEN BlockStop(s, k) ELSE FlowStop(s, k)
           at == CHOOSE k \in 0..Len(s.input) :
                    (~Within(s, k) \/ stops(k)) /\ \A j \in 0..(k - 1) : ~stops(j)
<1>1. Plain(s) = IF Undecided(s, at) THEN Wait(s) ELSE Token(Consume(s, at), "SCALAR", Piece(s, at))
  BY DEF Plain
<1> HIDE DEF stops, at
<1>2. PICK end : Plain(s) = IF Undecided(s, end) THEN Wait(s) ELSE Token(Consume(s, end), "SCALAR", Piece(s, end))
  BY <1>1
<1>3. SameScanner(s, s) /\ SameScanner(s, Consume(s, end))
  BY ConsumeSame DEF SameScanner
<1>4. Undecided(s, end) => ~s.finished
  BY DEF Undecided
<1>5. "SCALAR" \in TokenTypes
  BY DEF TokenTypes
<1> QED BY <1>2, <1>3, <1>4, <1>5, Answers

LEMMA TokenAtAnswers ==
  ASSUME NEW s, IsScanner(s)
  PROVE  Scanned(s, TokenAt(s))
<1>1. PICK c : c = Byte(s, 0)
  OBVIOUS
<1>2. PICK marker : marker = IF c \in DOMAIN Markers THEN Marker(s) ELSE "no"
  OBVIOUS
<1>3. \/ TokenAt(s) = Invalid(s)
      \/ TokenAt(s) = LineToken(s, "COMMENT")
      \/ TokenAt(s) = LineToken(s, "DIRECTIVE")
      \/ TokenAt(s) = BlockScalar(s)
      \/ marker = "wait" /\ TokenAt(s) = Wait(s)
      \/ marker = "yes" /\ TokenAt(s) = Token(Consume(s, 3), Markers[c], <<>>)
      \/ TokenAt(s) = Indicator(s)
      \/ TokenAt(s) = Quoted(s)
      \/ TokenAt(s) = Plain(s)
  BY <1>1, <1>2 DEF TokenAt
<1>4. SameScanner(s, s) /\ SameScanner(s, Consume(s, 3))
  BY ConsumeSame DEF SameScanner
<1>5. marker = "wait" => ~s.finished
  BY <1>2 DEF Marker, Undecided
<1>6. marker = "yes" => Markers[c] \in TokenTypes
  BY <1>2 DEF Markers, TokenTypes
<1>7. {"COMMENT", "DIRECTIVE"} \subseteq TokenTypes
  BY DEF TokenTypes
<1> QED BY <1>3, <1>4, <1>5, <1>6, <1>7, Answers, LineTokenAnswers, BlockScalarAnswers,
           IndicatorAnswers, QuotedAnswers, PlainAnswers

LEMMA ScannerAnswers ==
  ASSUME NEW s, IsScanner(s)
  PROVE  Scanned(s, ScannerNext(s))
<1> DEFINE first == CHOOSE k \in 0..Len(s.input) :
               /\ \A j \in 0..(k - 1) : Byte(s, j) \in Spaces /\ ~(Byte(s, j) = "\t" /\ Consume(s, j).indent)
               /\ ~Within(s, k) \/ Byte(s, k) \notin Spaces \/ (Byte(s, k) = "\t" /\ Consume(s, k).indent)
<1>1. ScannerNext(s) =
        CASE s.error # "OK" -> Result(s, s.error, "NONE", <<>>)
          [] s.error = "OK" /\ Consume(s, first).input = <<>> ->
               IF s.finished THEN Token(Consume(s, first), "EOF", <<>>) ELSE Wait(Consume(s, first))
          [] OTHER -> TokenAt(Consume(s, first))
  BY DEF ScannerNext
<1> HIDE DEF first
<1>2. PICK t : /\ SameScanner(s, t)
               /\ ScannerNext(s) =
                    CASE s.error # "OK" -> Result(s, s.error, "NONE", <<>>)
                      [] s.error = "OK" /\ t.input = <<>> -> IF s.finished THEN Token(t, "EOF", <<>>) ELSE Wait(t)
                      [] OTHER -> TokenAt(t)
  BY <1>1, ConsumeSame
<1>3. Scanned(s, TokenAt(t))
  <2>1. Scanned(t, TokenAt(t))
    BY <1>2, TokenAtAnswers DEF SameScanner
  <2> QED BY <1>2, <2>1 DEF Scanned, SameScanner
<1>4. SameScanner(s, s) /\ "EOF" \in TokenTypes
  BY DEF SameScanner, TokenTypes
<1> QED BY <1>2, <1>3, <1>4, Answers

-----------------------------------------------------------------------------
(* The ring keeps every event, in order, whatever it grows from.           *)

\* What every ring is that pushes and pops have made.
RingOK(q) ==
    /\ q.head \in Nat /\ q.count \in Nat /\ q.capacity \in Nat
    /\ q.count <= q.capacity
    /\ q.capacity = 0 => q.head = 0
    /\ q.capacity # 0 => q.head < q.capacity
    /\ DOMAIN q.items = 0..(q.capacity - 1)

\* A slot is found without division.
LEMMA SlotOf ==
    ASSUME NEW h \in Nat, NEW i \in Nat, NEW c \in Nat, h < c, i <= c
    PROVE  (h + i) % c = IF h + i < c THEN h + i ELSE h + i - c
    BY SMT

\* Two events of a ring have two slots, and a slot is in the array.
LEMMA SlotsDiffer ==
    ASSUME NEW q, RingOK(q), q.capacity # 0, NEW i \in Nat, NEW j \in Nat,
           i < j, j < q.capacity
    PROVE  /\ Slot(q, i) # Slot(q, j)
           /\ Slot(q, j) \in 0..(q.capacity - 1)
<1>1. /\ q.head \in Nat /\ q.capacity \in Nat /\ q.head < q.capacity
    BY DEF RingOK
<1>2. Slot(q, i) = IF q.head + i < q.capacity THEN q.head + i ELSE q.head + i - q.capacity
    BY <1>1, SlotOf DEF Slot
<1>3. Slot(q, j) = IF q.head + j < q.capacity THEN q.head + j ELSE q.head + j - q.capacity
    BY <1>1, SlotOf DEF Slot
<1>4. QED
    BY <1>1, <1>2, <1>3

\* Every slot is in the array.
LEMMA SlotInArray ==
    ASSUME NEW q, RingOK(q), NEW i \in Nat, i < q.capacity
    PROVE  Slot(q, i) \in 0..(q.capacity - 1)
<1>1. /\ q.head \in Nat /\ q.capacity \in Nat /\ q.head < q.capacity
    BY DEF RingOK
<1>2. Slot(q, i) = IF q.head + i < q.capacity THEN q.head + i ELSE q.head + i - q.capacity
    BY <1>1, SlotOf DEF Slot
<1>3. QED
    BY <1>1, <1>2

\* The contents of a ring are a sequence of count events.
Events(q) == {q.items[Slot(q, i - 1)] : i \in 1..q.count}
LEMMA ContentsAre ==
    ASSUME NEW q, RingOK(q)
    PROVE  /\ Len(Contents(q)) = q.count
           /\ \A i \in 1..q.count : Contents(q)[i] = q.items[Slot(q, i - 1)]
           /\ Contents(q) \in Seq(Events(q))
<1>1. q.count \in Nat
    BY DEF RingOK
<1>2. Contents(q) \in [1..q.count -> Events(q)]
    BY DEF Contents, Events
<1>3. \A i \in 1..q.count : Contents(q)[i] = q.items[Slot(q, i - 1)]
    BY DEF Contents
<1>4. QED
    BY <1>1, <1>2, <1>3, TupleIsSeq

\* A ring that has grown holds the same events, and has room.
LEMMA GrownKeeps ==
    ASSUME NEW q, RingOK(q), q.count = q.capacity
    PROVE  /\ RingOK(Grown(q))
           /\ Grown(q).count = q.count
           /\ q.count < Grown(q).capacity
           /\ \A i \in 0..(q.count - 1) : Grown(q).items[Slot(Grown(q), i)] = q.items[Slot(q, i)]
<1> DEFINE g == Grown(q)
<1>1. Larger(q) \in Nat /\ q.count < Larger(q) /\ Larger(q) # 0
    BY RingAssumption DEF Larger, RingOK
<1>2. /\ g.head = 0 /\ g.count = q.count /\ g.capacity = Larger(q)
      /\ g.items = [i \in 0..(Larger(q) - 1) |-> IF i < q.count THEN q.items[Slot(q, i)] ELSE Nothing]
    BY DEF Grown
<1>3. RingOK(g)
    BY <1>1, <1>2 DEF RingOK
<1>4. ASSUME NEW i \in 0..(q.count - 1)
      PROVE  g.items[Slot(g, i)] = q.items[Slot(q, i)]
  <2>1. i \in Nat /\ i < q.count /\ i < Larger(q)
      BY <1>1 DEF RingOK
  <2>2. Slot(g, i) = i
      BY <1>1, <1>2, <2>1, SlotOf DEF Slot
  <2>3. QED
      BY <1>1, <1>2, <2>1, <2>2
<1>5. QED
    BY <1>1, <1>2, <1>3, <1>4

\* A push appends its event, and leaves those before it as they were.
LEMMA PushAppends ==
    ASSUME NEW q, RingOK(q), NEW e
    PROVE  /\ RingOK(Push(q, e))
           /\ Contents(Push(q, e)) = Append(Contents(q), e)
<1> DEFINE r == Reserved(q)
           p == Push(q, e)
<1>1. /\ RingOK(r) /\ r.count = q.count /\ r.count < r.capacity
      /\ \A i \in 0..(q.count - 1) : r.items[Slot(r, i)] = q.items[Slot(q, i)]
  <2>1. CASE q.count < q.capacity
      BY <2>1 DEF Reserved
  <2>2. CASE ~(q.count < q.capacity)
      BY <2>2, GrownKeeps DEF Reserved, RingOK
  <2>3. QED
      BY <2>1, <2>2
<1>2. /\ r.count \in Nat /\ r.capacity \in Nat /\ r.capacity # 0
      /\ DOMAIN r.items = 0..(r.capacity - 1)
    BY <1>1 DEF RingOK
<1>3. /\ p.items = [r.items EXCEPT ![Slot(r, r.count)] = e]
      /\ p.head = r.head /\ p.count = r.count + 1 /\ p.capacity = r.capacity
    BY DEF Push
<1>4. Slot(r, r.count) \in DOMAIN r.items
    BY <1>1, <1>2, SlotInArray
<1>5. RingOK(p)
    BY <1>1, <1>2, <1>3 DEF RingOK
<1>6. \A i : Slot(p, i) = Slot(r, i)
    BY <1>3 DEF Slot
<1>7. ASSUME NEW i \in 0..(q.count - 1)
      PROVE  p.items[Slot(p, i)] = q.items[Slot(q, i)]
  <2>1. i \in Nat /\ i < r.count
      BY <1>1, <1>2
  <2>2. Slot(r, i) # Slot(r, r.count)
      BY <1>1, <1>2, <2>1, SlotsDiffer
  <2>3. Slot(r, i) \in DOMAIN r.items
      BY <1>1, <1>2, <2>1, SlotInArray
  <2>4. QED
      BY <1>1, <1>3, <1>6, <2>2, <2>3
<1>8. p.items[Slot(p, q.count)] = e
    BY <1>1, <1>3, <1>4, <1>6
<1>9. Contents(p) = Append(Contents(q), e)
  <2> DEFINE S == Events(q) \union {e}
             a == Append(Contents(q), e)
  <2>1. /\ q.count \in Nat /\ Len(Contents(q)) = q.count /\ Contents(q) \in Seq(S)
        /\ \A i \in 1..q.count : Contents(q)[i] = q.items[Slot(q, i - 1)]
    <3>1. /\ Len(Contents(q)) = q.count /\ Contents(q) \in Seq(Events(q))
          /\ \A i \in 1..q.count : Contents(q)[i] = q.items[Slot(q, i - 1)]
        BY ContentsAre
    <3>2. QED
        BY <1>1, <1>2, <3>1
  <2>2. Len(Contents(p)) = q.count + 1 /\ Contents(p) \in Seq(Events(p))
    <3>1. Len(Contents(p)) = p.count /\ Contents(p) \in Seq(Events(p))
        BY <1>5, ContentsAre
    <3>2. QED
        BY <1>1, <1>3, <3>1
  <2>3. \A i \in 1..(q.count + 1) : Contents(p)[i] = p.items[Slot(p, i - 1)]
      BY <1>1, <1>3 DEF Contents
  <2>4. a \in Seq(S) /\ Len(a) = q.count + 1 /\ a[q.count + 1] = e /\ \A i \in 1..q.count : a[i] = Contents(q)[i]
      BY <2>1
  <2>5. ASSUME NEW i \in 1..(q.count + 1)
        PROVE  Contents(p)[i] = a[i]
    <3>1. CASE i \in 1..q.count
      <4>1. i - 1 \in 0..(q.count - 1)
          BY <2>1, <3>1
      <4>2. p.items[Slot(p, i - 1)] = q.items[Slot(q, i - 1)]
          BY <1>7, <4>1
      <4>3. QED
          BY <2>1, <2>3, <2>4, <3>1, <4>2
    <3>2. CASE i = q.count + 1
      <4>1. i - 1 = q.count
          BY <2>1, <3>2
      <4>2. QED
          BY <1>8, <2>3, <2>4, <3>2, <4>1
    <3>3. QED
        BY <2>1, <3>1, <3>2
  <2>6. QED
      BY <2>2, <2>4, <2>5, SeqEqual
<1>10. QED
    BY <1>5, <1>9

\* A pop takes the first event, and leaves the others as they were.
LEMMA PopTakesFirst ==
    ASSUME NEW q, RingOK(q), q.count > 0
    PROVE  /\ RingOK(Pop(q))
           /\ Contents(q) # <<>>
           /\ First(q) = Head(Contents(q))
           /\ Contents(Pop(q)) = Tail(Contents(q))
<1> DEFINE p == Pop(q)
<1>1. /\ q.head \in Nat /\ q.count \in Nat /\ q.capacity \in Nat
      /\ q.capacity # 0 /\ q.head < q.capacity /\ q.count <= q.capacity
    BY DEF RingOK
<1>2. /\ p.items = q.items /\ p.head = Slot(q, 1) /\ p.count = q.count - 1 /\ p.capacity = q.capacity
    BY DEF Pop
<1>3. Slot(q, 1) = IF q.head + 1 < q.capacity THEN q.head + 1 ELSE q.head + 1 - q.capacity
    BY <1>1, SlotOf DEF Slot
<1>4. RingOK(p)
    BY <1>1, <1>2, <1>3 DEF RingOK
<1>5. Len(Contents(q)) = q.count /\ \A i \in 1..q.count : Contents(q)[i] = q.items[Slot(q, i - 1)]
    BY ContentsAre
<1>6. Slot(q, 0) = q.head
    BY <1>1, SlotOf DEF Slot
<1>7. Contents(q) # <<>> /\ First(q) = Head(Contents(q))
    BY <1>1, <1>5, <1>6, ContentsAre DEF First
<1>8. ASSUME NEW i \in 1..(q.count - 1)
      PROVE  p.items[Slot(p, i - 1)] = Contents(q)[i + 1]
  <2>1. i - 1 \in Nat /\ i \in Nat /\ i < q.capacity /\ i + 1 \in 1..q.count
      BY <1>1
  <2>2. Slot(q, i) = IF q.head + i < q.capacity THEN q.head + i ELSE q.head + i - q.capacity
      BY <1>1, <2>1, SlotOf DEF Slot
  <2>3. Slot(p, i - 1) = IF p.head + (i - 1) < q.capacity THEN p.head + (i - 1) ELSE p.head + (i - 1) - q.capacity
    <3>1. p.head \in Nat /\ p.head < q.capacity /\ i - 1 <= q.capacity
        BY <1>1, <1>2, <1>3, <2>1
    <3>2. \A h, k, c \in Nat : h < c /\ k <= c => (h + k) % c = IF h + k < c THEN h + k ELSE h + k - c
        BY SlotOf
    <3>3. (p.head + (i - 1)) % q.capacity = IF p.head + (i - 1) < q.capacity THEN p.head + (i - 1) ELSE p.head + (i - 1) - q.capacity
        BY <1>1, <2>1, <3>1, <3>2
    <3>4. QED
        BY <1>2, <3>3 DEF Slot
  <2>4. Slot(p, i - 1) = Slot(q, i)
      BY <1>1, <1>2, <1>3, <2>1, <2>2, <2>3
  <2>5. QED
      BY <1>2, <1>5, <2>1, <2>4
<1>9. Contents(p) = Tail(Contents(q))
  <2>1. Contents(q) \in Seq(Events(q)) /\ Contents(q) # <<>>
      BY <1>7, ContentsAre
  <2>2. /\ Tail(Contents(q)) \in Seq(Events(q)) /\ Len(Tail(Contents(q))) = q.count - 1
        /\ \A i \in 1..(q.count - 1) : Tail(Contents(q))[i] = Contents(q)[i + 1]
      BY <1>1, <1>5, <2>1
  <2>3. Len(Contents(p)) = q.count - 1 /\ Contents(p) \in Seq(Events(p))
    <3>1. Len(Contents(p)) = p.count /\ Contents(p) \in Seq(Events(p))
        BY <1>4, ContentsAre
    <3>2. QED
        BY <1>2, <3>1
  <2>4. \A i \in 1..(q.count - 1) : Contents(p)[i] = p.items[Slot(p, i - 1)]
      BY <1>2 DEF Contents
  <2>5. \A i \in 1..(q.count - 1) : Contents(p)[i] = Tail(Contents(q))[i]
      BY <1>8, <2>2, <2>4
  <2>6. QED
      BY <2>2, <2>3, <2>5, SeqEqual
<1>10. QED
    BY <1>4, <1>7, <1>9

-----------------------------------------------------------------------------
(* What is heard, event after event.                                       *)

Hearings == [open : BOOLEAN, well : BOOLEAN, now : Nat, most : Nat, aliases : Nat]

\* A hearing is made of five fields, each of which an event may change.
LEMMA HearTypes ==
  /\ Unheard \in Hearings
  /\ \A h \in Hearings : \A e : Hear(h, e) \in Hearings
<1>1. Unheard \in Hearings
  BY DEF Unheard, Hearings
<1>2. ASSUME NEW h \in Hearings, NEW e PROVE Hear(h, e) \in Hearings
  <2>1. /\ h.open \in BOOLEAN /\ h.well \in BOOLEAN /\ h.now \in Nat /\ h.most \in Nat /\ h.aliases \in Nat
    BY DEF Hearings
  <2>2. PICK node : node = [h EXCEPT !.well = @ /\ h.open]
    OBVIOUS
  <2>3. node \in Hearings /\ node.now = h.now /\ node.most = h.most /\ node.aliases = h.aliases
    <3>1. (h.well /\ h.open) \in BOOLEAN
      BY <2>1
    <3> QED BY <2>1, <2>2, <3>1 DEF Hearings
  <2>4. \A o, w \in BOOLEAN : [h EXCEPT !.open = o, !.well = w] \in Hearings
    BY DEF Hearings
  <2>5. \A w \in BOOLEAN : [h EXCEPT !.well = w] \in Hearings
    BY DEF Hearings
  <2>6. \A n, k \in Nat : [node EXCEPT !.now = n, !.most = k] \in Hearings
    BY <2>3 DEF Hearings
  <2>7. \A n \in Nat : [node EXCEPT !.now = n] \in Hearings
    BY <2>3 DEF Hearings
  <2>8. \A n \in Nat : [node EXCEPT !.aliases = n] \in Hearings
    BY <2>3 DEF Hearings
  <2>9. PICK w \in BOOLEAN, x \in BOOLEAN : w = (h.well /\ ~h.open) /\ x = (h.well /\ h.open)
    BY <2>1
  <2>10. PICK up \in Nat, down \in Nat, top \in Nat, more \in Nat :
           /\ up = node.now + 1 /\ down = (IF node.now = 0 THEN 0 ELSE node.now - 1)
           /\ top = (IF h.now = node.most THEN node.most + 1 ELSE node.most)
           /\ more = node.aliases + 1
    BY <2>1, <2>3
  <2>11. \/ Hear(h, e) = [h EXCEPT !.open = TRUE, !.well = w]
         \/ Hear(h, e) = [h EXCEPT !.open = FALSE, !.well = x]
         \/ Hear(h, e) = [h EXCEPT !.well = w]
         \/ Hear(h, e) = h
         \/ Hear(h, e) = [node EXCEPT !.now = up, !.most = top]
         \/ Hear(h, e) = [node EXCEPT !.now = down]
         \/ Hear(h, e) = [node EXCEPT !.aliases = more]
         \/ Hear(h, e) = node
    <3>1. \/ Hear(h, e) = [h EXCEPT !.open = TRUE, !.well = h.well /\ ~h.open]
          \/ Hear(h, e) = [h EXCEPT !.open = FALSE, !.well = h.well /\ h.open]
          \/ Hear(h, e) = [h EXCEPT !.well = h.well /\ ~h.open]
          \/ Hear(h, e) = h
          \/ Hear(h, e) = [node EXCEPT !.now = node.now + 1, !.most = IF h.now = node.most THEN node.most + 1 ELSE node.most]
          \/ Hear(h, e) = [node EXCEPT !.now = IF node.now = 0 THEN 0 ELSE node.now - 1]
          \/ Hear(h, e) = [node EXCEPT !.aliases = node.aliases + 1]
          \/ Hear(h, e) = node
      BY <2>2 DEF Hear
    <3> QED BY <2>9, <2>10, <3>1
  <2>12. TRUE \in BOOLEAN /\ FALSE \in BOOLEAN
    OBVIOUS
  <2> HIDE DEF Hearings
  <2>13. /\ [h EXCEPT !.open = TRUE, !.well = w] \in Hearings
         /\ [h EXCEPT !.open = FALSE, !.well = x] \in Hearings
    BY <2>4, <2>9, <2>12
  <2>14. [h EXCEPT !.well = w] \in Hearings
    BY <2>5, <2>9
  <2>15. [node EXCEPT !.now = up, !.most = top] \in Hearings
    BY <2>6, <2>10
  <2>16. [node EXCEPT !.now = down] \in Hearings
    BY <2>7, <2>10
  <2>17. [node EXCEPT !.aliases = more] \in Hearings
    BY <2>8, <2>10
  <2> QED BY <2>3, <2>11, <2>13, <2>14, <2>15, <2>16, <2>17
<1> QED BY <1>1, <1>2

\* Hearing event after event: what is heard of the beginnings of a sequence.
LEMMA HeardPath ==
  ASSUME NEW S, NEW s \in Seq(S)
  PROVE  \E v \in [0..Len(s) -> Hearings] :
            /\ v[0] = Unheard
            /\ \A k \in 1..Len(s) : v[k] = Hear(v[k - 1], s[k])
            /\ Heard(s) = v[Len(s)]
<1> DEFINE f == [x \in Hearings \X S |-> Hear(x[1], x[2])]
           N == Len(s)
           e(g, T) == IF T = {} THEN Unheard ELSE Hear(g[T \ {Max(T)}], s[Max(T)])
           Iter(g) == g = [T \in SUBSET (1..N) |-> e(g, T)]
<1>1. N \in Nat /\ (\A k \in 1..N : s[k] \in S) /\ DOMAIN s = 1..N
  BY LenProperties, ElementOfSeq
<1>2. f \in [Hearings \X S -> Hearings] /\ \A r \in Hearings, t \in S : f[<<r, t>>] = Hear(r, t)
  BY HearTypes
<1> HIDE DEF f
<1>3. \E g : Iter(g) /\ \A T \in SUBSET (1..N) : g[T] \in Hearings
  <2>1. PICK g : FoldIs(g, f, Unheard, s) /\ \A T \in SUBSET (1..N) : g[T] \in Hearings
    BY <1>2, FoldExists, HearTypes
  <2>2. ASSUME NEW T \in SUBSET (1..N)
        PROVE  (IF T = {} THEN Unheard ELSE f[<<g[T \ {Max(T)}], s[Max(T)]>>]) = e(g, T)
    <3>1. CASE T # {}
      <4>1. Max(T) \in 1..N
        BY <1>1, <3>1, MaxIsIn
      <4>2. g[T \ {Max(T)}] \in Hearings /\ s[Max(T)] \in S
        BY <1>1, <2>1, <4>1
      <4> QED BY <1>2, <3>1, <4>2
    <3> QED BY <3>1
  <2>3. g = [T \in SUBSET (1..N) |-> IF T = {} THEN Unheard ELSE f[<<g[T \ {Max(T)}], s[Max(T)]>>]]
    BY <2>1 DEF FoldIs
  <2> DEFINE d(T) == IF T = {} THEN Unheard ELSE f[<<g[T \ {Max(T)}], s[Max(T)]>>]
  <2>4. \A T \in SUBSET (1..N) : d(T) = e(g, T)
    BY <2>2
  <2>5. g = [T \in SUBSET (1..N) |-> d(T)]
    BY <2>3
  <2> HIDE DEF d, e
  <2>6. g = [T \in SUBSET (1..N) |-> e(g, T)]
    BY <2>4, <2>5
  <2> QED BY <2>1, <2>6
<1> DEFINE g == CHOOSE g : Iter(g)
<1>4. Iter(g)
  BY <1>3
<1>5. Heard(s) = g[1..N]
  BY <1>1 DEF Heard, FoldLeft, MapThenFoldSet
<1> HIDE DEF g
<1>6. g[1..0] = Unheard
  <2>1. 1..0 = {} /\ {} \in SUBSET (1..N)
    OBVIOUS
  <2> QED BY <1>4, <2>1
<1>7. ASSUME NEW m \in 1..N PROVE g[1..m] = Hear(g[1..(m - 1)], s[m])
  <2>1. m \in Nat /\ 1..m \in SUBSET (1..N) /\ m \in 1..m /\ 1..m # {}
    BY <1>1, <1>7
  <2>2. Max(1..m) = m
    BY <2>1, MaxIsTop
  <2>3. (1..m) \ {m} = 1..(m - 1)
    <3>1. \A x : x \in 1..m /\ x # m <=> x \in 1..(m - 1)
      BY <2>1
    <3> QED BY <3>1
  <2>4. g[1..m] = Hear(g[(1..m) \ {Max(1..m)}], s[Max(1..m)])
    BY <1>4, <2>1
  <2> QED BY <2>2, <2>3, <2>4
<1> DEFINE v == [k \in 0..N |-> g[1..k]]
           Typed == {k \in Nat : k <= N => g[1..k] \in Hearings}
<1>8. N \in Nat /\ \A k \in 0..N : g[1..k] \in Hearings
  <2>1. 0 \in Typed
    BY <1>6, HearTypes
  <2>2. ASSUME NEW k \in Nat, k \in Typed PROVE k + 1 \in Typed
    <3>1. CASE k + 1 <= N
      <4>1. PICK m \in 1..N : m = k + 1 /\ m - 1 = k
        BY <1>1, <3>1
      <4>2. g[1..k] \in Hearings
        BY <1>1, <2>2, <3>1
      <4>3. g[1..m] = Hear(g[1..k], s[m])
        BY <1>7, <4>1
      <4> QED BY <4>1, <4>2, <4>3, HearTypes
    <3>2. CASE ~(k + 1 <= N)
      BY <3>2
    <3> QED BY <3>1, <3>2
  <2> HIDE DEF Typed
  <2>3. Nat \subseteq Typed
    BY <2>1, <2>2, NatSetInduction
  <2> QED BY <1>1, <2>3 DEF Typed
<1>9. v \in [0..N -> Hearings]
  BY <1>8
<1>10. v[0] = Unheard /\ v[N] = g[1..N]
  BY <1>6, <1>8
<1>11. \A k \in 1..N : v[k] = Hear(v[k - 1], s[k])
  <2> SUFFICES ASSUME NEW k \in 1..N PROVE v[k] = Hear(v[k - 1], s[k])
    OBVIOUS
  <2>1. k \in 0..N /\ k - 1 \in 0..N
    BY <1>8
  <2>2. v[k] = g[1..k] /\ v[k - 1] = g[1..(k - 1)]
    BY <2>1
  <2> HIDE DEF v
  <2> QED BY <2>2, <1>7
<1> HIDE DEF v
<1> QED BY <1>5, <1>9, <1>10, <1>11

\* A sequence with one event more.
LEMMA HeardOneMore ==
  ASSUME NEW S, NEW s \in Seq(S), NEW t \in S
  PROVE  Heard(s) \in Hearings /\ Heard(Append(s, t)) = Hear(Heard(s), t)
<1> DEFINE n == Len(s)
           more == Append(s, t)
<1>1. n \in Nat
  BY LenProperties
<1>2. /\ more \in Seq(S) /\ Len(more) = n + 1
      /\ \A k \in 1..n : more[k] = s[k]
      /\ more[n + 1] = t
  BY <1>1, AppendProperties
<1> HIDE DEF n, more
<1>3. PICK v \in [0..n -> Hearings] :
         /\ v[0] = Unheard /\ \A k \in 1..n : v[k] = Hear(v[k - 1], s[k])
         /\ Heard(s) = v[n]
  BY HeardPath DEF n
<1>4. PICK w \in [0..(n + 1) -> Hearings] :
         /\ w[0] = Unheard /\ \A k \in 1..(n + 1) : w[k] = Hear(w[k - 1], more[k])
         /\ Heard(more) = w[n + 1]
  BY <1>2, HeardPath
<1> DEFINE Same == {k \in Nat : k <= n => v[k] = w[k]}
<1>5. 0 \in Same
  BY <1>3, <1>4
<1>6. ASSUME NEW k \in Nat, k \in Same PROVE k + 1 \in Same
  <2>1. CASE k + 1 <= n
    <3>1. PICK m : m = k + 1 /\ m \in 1..n /\ m \in 1..(n + 1) /\ m - 1 = k
      BY <1>1, <2>1
    <3>2. v[k] = w[k]
      BY <1>1, <1>6, <2>1
    <3>3. v[m] = w[m]
      BY <1>2, <1>3, <1>4, <3>1, <3>2
    <3> QED BY <3>1, <3>3
  <2> QED BY <2>1
<1>7. v[n] = w[n]
  <2> HIDE DEF Same
  <2>1. n \in Same
    BY <1>1, <1>5, <1>6, NatSetInduction
  <2> QED BY <1>1, <2>1 DEF Same
<1>8. w[n + 1] = Hear(w[n], t) /\ v[n] \in Hearings
  <2>1. n + 1 \in 1..(n + 1) /\ (n + 1) - 1 = n /\ n \in 0..n
    BY <1>1
  <2> QED BY <1>2, <1>3, <1>4, <2>1
<1> QED BY <1>3, <1>4, <1>7, <1>8 DEF more

LEMMA HeardNothing == Heard(<<>>) = Unheard
<1>1. <<>> \in Seq({}) /\ Len(<<>>) = 0
  BY EmptySeq
<1> QED BY <1>1, HeardPath

-----------------------------------------------------------------------------
(* The stream and what is heard of it.                                     *)

IsStream(s) ==
    /\ DOMAIN s = {"scanner", "total", "depth", "aliases", "anchor", "tag", "alias", "started", "closed"}
    /\ IsScanner(s.scanner)
    /\ s.depth \in Nat /\ s.aliases \in Nat
    /\ s.alias \in BOOLEAN /\ s.started \in BOOLEAN /\ s.closed \in BOOLEAN
IsOpen(s) == s.started /\ ~s.closed

\* Documents and aliases are heard as the stream has them.  It has a container
\* more than are heard where it refused one, and one less where an end was lost:
\* the depth is right as long as no memory lacked (clean).
Agrees(h, s, clean) ==
    /\ h.well /\ (h.open <=> IsOpen(s))
    /\ h.aliases <= s.aliases /\ s.aliases <= MaxAliases
    /\ clean => h.now <= s.depth /\ h.most <= MaxDepth

Quiet == {"STREAM_START", "COMMENT", "DIRECTIVE"}
Nodes == {"SCALAR", "INDICATOR"}

\* An event that says nothing of documents and nodes.
LEMMA HearQuiet ==
  ASSUME NEW h \in Hearings, NEW e, NEW s, NEW clean, Agrees(h, s, clean), e.type \in Quiet
  PROVE  Agrees(Hear(h, e), s, clean)
BY DEF Hear, Quiet

LEMMA HearStreamEnd ==
  ASSUME NEW h \in Hearings, NEW e, NEW s, NEW clean, Agrees(h, s, clean),
         e.type = "STREAM_END", ~IsOpen(s)
  PROVE  Agrees(Hear(h, e), s, clean)
<1>1. Hear(h, e) = [h EXCEPT !.well = h.well /\ ~h.open]
  BY DEF Hear
<1>2. h.well /\ ~h.open
  BY DEF Agrees
<1>3. Hear(h, e) = [h EXCEPT !.well = TRUE]
  BY <1>1, <1>2
<1> QED BY <1>3 DEF Agrees, Hearings

LEMMA HearDocumentStart ==
  ASSUME NEW h \in Hearings, NEW e, NEW s, NEW a, NEW clean, Agrees(h, s, clean),
         e.type = "DOCUMENT_START", ~IsOpen(s), IsOpen(a), a.depth = s.depth, a.aliases = s.aliases
  PROVE  Agrees(Hear(h, e), a, clean)
<1>1. Hear(h, e) = [h EXCEPT !.open = TRUE, !.well = h.well /\ ~h.open]
  BY DEF Hear
<1>2. h.well /\ ~h.open
  BY DEF Agrees
<1>3. Hear(h, e) = [h EXCEPT !.open = TRUE, !.well = TRUE]
  BY <1>1, <1>2
<1> QED BY <1>3 DEF Agrees, Hearings

LEMMA HearDocumentEnd ==
  ASSUME NEW h \in Hearings, NEW e, NEW s, NEW a, NEW clean, Agrees(h, s, clean),
         e.type = "DOCUMENT_END", IsOpen(s), ~IsOpen(a), a.depth = s.depth, a.aliases = s.aliases
  PROVE  Agrees(Hear(h, e), a, clean)
<1>1. Hear(h, e) = [h EXCEPT !.open = FALSE, !.well = h.well /\ h.open]
  BY DEF Hear
<1>2. h.well /\ h.open
  BY DEF Agrees
<1>3. Hear(h, e) = [h EXCEPT !.open = FALSE, !.well = TRUE]
  BY <1>1, <1>2
<1> QED BY <1>3 DEF Agrees, Hearings

\* A node in an open document is well.
LEMMA InDocumentIsWell ==
  ASSUME NEW h \in Hearings, NEW s, NEW clean, Agrees(h, s, clean), IsOpen(s)
  PROVE  [h EXCEPT !.well = @ /\ h.open] = h
<1>1. h.well /\ h.open
  BY DEF Agrees
<1> QED BY <1>1 DEF Hearings

LEMMA HearNode ==
  ASSUME NEW h \in Hearings, NEW e, NEW s, NEW a, NEW clean, Agrees(h, s, clean),
         e.type \in Nodes, IsOpen(s), IsOpen(a), a.depth = s.depth, a.aliases = s.aliases
  PROVE  Agrees(Hear(h, e), a, clean)
<1>1. [h EXCEPT !.well = @ /\ h.open] = h
  BY InDocumentIsWell
<1>2. Hear(h, e) = h
  BY <1>1 DEF Hear, Nodes
<1> QED BY <1>2 DEF Agrees

LEMMA HearOpening ==
  ASSUME NEW h \in Hearings, NEW e, NEW s, NEW a, NEW clean, Agrees(h, s, clean),
         e.type \in {"SEQUENCE_START", "MAPPING_START"}, IsOpen(s), IsOpen(a), s.depth \in Nat,
         a.depth = s.depth + 1, a.depth <= MaxDepth, a.aliases = s.aliases
  PROVE  Agrees(Hear(h, e), a, clean)
<1>1. [h EXCEPT !.well = @ /\ h.open] = h
  BY InDocumentIsWell
<1>2. Hear(h, e) = [h EXCEPT !.now = h.now + 1, !.most = IF h.now = h.most THEN h.most + 1 ELSE h.most]
  BY <1>1 DEF Hear
<1>3. PICK now \in Nat, most \in Nat :
        now = h.now + 1 /\ most = (IF h.now = h.most THEN h.most + 1 ELSE h.most)
  BY DEF Hearings
<1>4. Hear(h, e) = [h EXCEPT !.now = now, !.most = most]
  BY <1>2, <1>3
<1>5. clean => now <= a.depth /\ most <= MaxDepth
  BY <1>3, ReaderAssumption DEF Agrees, Hearings
<1> QED BY <1>4, <1>5 DEF Agrees, Hearings

LEMMA HearClosing ==
  ASSUME NEW h \in Hearings, NEW e, NEW s, NEW a, NEW clean, Agrees(h, s, clean),
         e.type \in {"SEQUENCE_END", "MAPPING_END"}, IsOpen(s), IsOpen(a), s.depth \in Nat,
         a.depth = (IF s.depth = 0 THEN 0 ELSE s.depth - 1), a.aliases = s.aliases
  PROVE  Agrees(Hear(h, e), a, clean)
<1>1. [h EXCEPT !.well = @ /\ h.open] = h
  BY InDocumentIsWell
<1>2. Hear(h, e) = [h EXCEPT !.now = IF h.now = 0 THEN 0 ELSE h.now - 1]
  BY <1>1 DEF Hear
<1>3. PICK now \in Nat : now = IF h.now = 0 THEN 0 ELSE h.now - 1
  BY DEF Hearings
<1>4. Hear(h, e) = [h EXCEPT !.now = now]
  BY <1>2, <1>3
<1>5. clean => now <= a.depth
  BY <1>3 DEF Agrees, Hearings
<1> QED BY <1>4, <1>5 DEF Agrees, Hearings

LEMMA HearAlias ==
  ASSUME NEW h \in Hearings, NEW e, NEW s, NEW a, NEW clean, Agrees(h, s, clean),
         e.type = "ALIAS", IsOpen(s), IsOpen(a), s.aliases \in Nat,
         a.depth = s.depth, a.aliases = s.aliases + 1, a.aliases <= MaxAliases
  PROVE  Agrees(Hear(h, e), a, clean)
<1>1. [h EXCEPT !.well = @ /\ h.open] = h
  BY InDocumentIsWell
<1>2. Hear(h, e) = [h EXCEPT !.aliases = h.aliases + 1]
  BY <1>1 DEF Hear
<1>3. PICK n \in Nat : n = h.aliases + 1
  BY DEF Hearings
<1>4. Hear(h, e) = [h EXCEPT !.aliases = n]
  BY <1>2, <1>3
<1>5. n <= a.aliases
  BY <1>3 DEF Agrees, Hearings
<1> QED BY <1>4, <1>5 DEF Agrees, Hearings

-----------------------------------------------------------------------------
(* A run of the stream's loop.                                             *)

\* A sequence that goes on as another began.
Extends(more, less) ==
    Len(more) >= Len(less) /\ \A i \in 1..Len(less) : more[i] = less[i]

\* What a run is made of; held are the events that waited when it began.
Framed(r, held) ==
    /\ DOMAIN r = {"stream", "queue", "status", "finishing", "memory", "forgets"}
    /\ IsStream(r.stream) /\ RingOK(r.queue) /\ r.memory \in Nat
    /\ r.finishing => r.stream.scanner.finished
    /\ Extends(Contents(r.queue), held)
\* What is heard of the events before, and of those waiting now.
HeardOf(r, before) == Heard(before \o Contents(r.queue))
\* A run is sound, a finishing one never succeeds with a document open.
Sound(r, before, held, clean) ==
    /\ Framed(r, held)
    /\ Agrees(HeardOf(r, before), r.stream, clean /\ r.status # "OOM")
    /\ r.finishing /\ r.status = "OK" => ~IsOpen(r.stream)

\* What is heard is a hearing, also with an event more.
LEMMA HeardMore ==
  ASSUME NEW E, NEW before \in Seq(E), NEW q, RingOK(q), NEW e
  PROVE  /\ RingOK(Push(q, e))
         /\ Contents(Push(q, e)) = Append(Contents(q), e)
         /\ Heard(before \o Contents(q)) \in Hearings
         /\ Heard(before \o Contents(Push(q, e))) = Hear(Heard(before \o Contents(q)), e)
<1>1. RingOK(Push(q, e)) /\ Contents(Push(q, e)) = Append(Contents(q), e)
  BY PushAppends
<1>2. PICK c : c = Contents(q)
  OBVIOUS
<1>3. PICK S : S = E \union Events(q) \union {e}
  OBVIOUS
<1>4. before \in Seq(S) /\ c \in Seq(S) /\ e \in S
  <2>1. c \in Seq(Events(q))
    BY <1>2, ContentsAre
  <2> QED BY <1>3, <2>1
<1>5. before \o c \in Seq(S) /\ <<e>> \in Seq(S)
  BY <1>4
<1>6. before \o Append(c, e) = Append(before \o c, e)
  <2>1. Append(c, e) = c \o <<e>> /\ Append(before \o c, e) = (before \o c) \o <<e>>
    BY <1>4, <1>5
  <2> QED BY <1>4, <1>5, <2>1, ConcatAssociative
<1>7. /\ Heard(before \o c) \in Hearings
      /\ Heard(Append(before \o c, e)) = Hear(Heard(before \o c), e)
  BY <1>4, <1>5, HeardOneMore
<1> QED BY <1>1, <1>2, <1>6, <1>7

LEMMA StopSound ==
  ASSUME NEW r, NEW before, NEW held, NEW clean \in BOOLEAN, Sound(r, before, held, clean), NEW why,
         Runs(r) /\ why = "OK" /\ r.finishing => ~IsOpen(r.stream)
  PROVE  Sound(Stop(r, why), before, held, clean)
<1>1. CASE Runs(r)
  <2>1. PICK w : w = [r EXCEPT !.status = why]
    OBVIOUS
  <2>2. Stop(r, why) = w
    BY <1>1, <2>1 DEF Stop
  <2>3. /\ DOMAIN w = DOMAIN r /\ w.stream = r.stream /\ w.queue = r.queue /\ w.memory = r.memory
        /\ w.finishing = r.finishing /\ w.status = why
    BY <2>1 DEF Sound, Framed
  <2>4. Framed(w, held)
    BY <2>3 DEF Sound, Framed
  <2>5. Agrees(HeardOf(w, before), w.stream, clean /\ w.status # "OOM")
    BY <1>1, <2>3 DEF Sound, HeardOf, Agrees, Runs
  <2> QED BY <1>1, <2>2, <2>3, <2>4, <2>5 DEF Sound
<1>2. CASE ~Runs(r)
  BY <1>2 DEF Stop
<1> QED BY <1>1, <1>2

\* The fields of a run that holds another stream.
LEMMA HoldingIs ==
  ASSUME NEW r, NEW held, Framed(r, held), Runs(r), NEW s, IsStream(s),
         s.scanner.finished = r.stream.scanner.finished
  PROVE  /\ Framed(Holding(r, s), held) /\ Runs(Holding(r, s))
         /\ Holding(r, s).stream = s /\ Holding(r, s).queue = r.queue
         /\ Holding(r, s).finishing = r.finishing /\ Holding(r, s).status = r.status
<1>1. PICK w : w = [r EXCEPT !.stream = s]
  OBVIOUS
<1>2. Holding(r, s) = w
  BY <1>1 DEF Holding
<1>3. /\ DOMAIN w = DOMAIN r /\ w.stream = s /\ w.queue = r.queue /\ w.memory = r.memory
      /\ w.finishing = r.finishing /\ w.status = r.status
  BY <1>1 DEF Framed
<1> QED BY <1>2, <1>3 DEF Framed, Runs

LEMMA HoldingSound ==
  ASSUME NEW r, NEW before, NEW held, NEW clean \in BOOLEAN, Sound(r, before, held, clean), NEW s,
         Runs(r) => /\ IsStream(s) /\ s.scanner.finished = r.stream.scanner.finished
                    /\ IsOpen(s) = IsOpen(r.stream)
                    /\ s.aliases >= r.stream.aliases /\ s.aliases <= MaxAliases
                    /\ s.depth >= r.stream.depth
                    /\ HeardOf(r, before) \in Hearings
  PROVE  Sound(Holding(r, s), before, held, clean)
<1>1. CASE Runs(r)
  <2>1. PICK w : w = Holding(r, s)
    OBVIOUS
  <2>2. /\ Framed(w, held) /\ w.stream = s /\ w.queue = r.queue
        /\ w.finishing = r.finishing /\ w.status = r.status
    BY <1>1, <2>1, HoldingIs DEF Sound
  <2>3. PICK h \in Hearings : h = HeardOf(r, before) /\ h = HeardOf(w, before)
    BY <1>1, <2>2 DEF HeardOf
  <2>4. r.stream.aliases \in Nat /\ r.stream.depth \in Nat /\ s.aliases \in Nat /\ s.depth \in Nat
    BY <1>1 DEF Sound, Framed, IsStream
  <2>5. Agrees(h, s, clean /\ r.status # "OOM")
    BY <1>1, <2>3, <2>4, ReaderAssumption DEF Sound, Agrees, Hearings
  <2> QED BY <1>1, <2>1, <2>2, <2>3, <2>5 DEF Sound
<1>2. CASE ~Runs(r)
  BY <1>2 DEF Holding
<1> QED BY <1>1, <1>2

\* A push leaves the events before it.
LEMMA ExtendsMore ==
  ASSUME NEW E, NEW held \in Seq(E), NEW q, RingOK(q), Extends(Contents(q), held), NEW e
  PROVE  Extends(Append(Contents(q), e), held)
<1>1. PICK c : c = Contents(q)
  OBVIOUS
<1>2. c \in Seq(Events(q)) /\ Extends(c, held)
  BY <1>1, ContentsAre
<1>3. PICK S : S = Events(q) \union {e}
  OBVIOUS
<1>4. c \in Seq(S) /\ e \in S
  BY <1>2, <1>3
<1>5. PICK n \in Nat : n = Len(c)
  BY <1>4, LenProperties
<1>6. PICK m \in Nat : m = Len(held)
  BY LenProperties
<1>7. Len(Append(c, e)) = n + 1 /\ \A i \in 1..n : Append(c, e)[i] = c[i]
  BY <1>4, <1>5, AppendProperties
<1>8. n >= m /\ \A i \in 1..m : c[i] = held[i]
  BY <1>2, <1>5, <1>6 DEF Extends
<1>9. Extends(Append(c, e), held)
  BY <1>6, <1>7, <1>8 DEF Extends
<1> QED BY <1>1, <1>9

\* An event is told of a run that is sound with it.
LEMMA TellSound ==
  ASSUME NEW E, NEW before \in Seq(E), NEW r, NEW held, NEW clean \in BOOLEAN, NEW e, NEW after,
         ~Runs(r) => Sound(r, before, held, clean),
         Runs(r) => /\ Framed(r, held)
                    /\ Agrees(HeardOf(r, before), r.stream, FALSE)
                    /\ IsStream(after) /\ after.scanner.finished = r.stream.scanner.finished
                    /\ Agrees(Hear(HeardOf(r, before), e), after, clean),
         held \in Seq(E)
  PROVE  Sound(Tell(r, e, after), before, held, clean)
<1>1. CASE ~Runs(r)
  BY <1>1 DEF Tell
<1>2. CASE Runs(r) /\ r.memory = 0
  <2>1. PICK w : w = [r EXCEPT !.status = "OOM"]
    OBVIOUS
  <2>2. Tell(r, e, after) = w
    BY <1>2, <2>1 DEF Tell, Stop
  <2>3. /\ DOMAIN w = DOMAIN r /\ w.stream = r.stream /\ w.queue = r.queue /\ w.memory = r.memory
        /\ w.finishing = r.finishing /\ w.status = "OOM"
    BY <1>2, <2>1 DEF Framed
  <2>4. Framed(w, held)
    BY <1>2, <2>3 DEF Framed
  <2>5. Agrees(HeardOf(w, before), w.stream, FALSE)
    BY <1>2, <2>3 DEF HeardOf
  <2>6. Agrees(HeardOf(w, before), w.stream, clean /\ w.status # "OOM")
    BY <2>3, <2>5 DEF Agrees
  <2> QED BY <2>2, <2>3, <2>4, <2>6 DEF Sound
<1>3. CASE Runs(r) /\ r.memory # 0
  <2>1. PICK w : w = [r EXCEPT !.memory = @ - 1, !.queue = Push(@, e), !.stream = after]
    OBVIOUS
  <2>2. Tell(r, e, after) = w
    BY <1>3, <2>1 DEF Tell
  <2>3. /\ DOMAIN w = DOMAIN r /\ w.stream = after /\ w.queue = Push(r.queue, e) /\ w.memory = r.memory - 1
        /\ w.finishing = r.finishing /\ w.status = "RUNS"
    BY <1>3, <2>1 DEF Framed, Runs
  <2>4. PICK q : q = r.queue /\ RingOK(q)
    BY <1>3 DEF Framed
  <2>5. /\ RingOK(Push(q, e)) /\ Contents(Push(q, e)) = Append(Contents(q), e)
        /\ Heard(before \o Contents(Push(q, e))) = Hear(Heard(before \o Contents(q)), e)
    BY <2>4, HeardMore
  <2>6. Extends(Contents(Push(q, e)), held)
    <3>1. Extends(Append(Contents(q), e), held)
      BY <1>3, <2>4, ExtendsMore DEF Framed
    <3> QED BY <2>5, <3>1
  <2>7. r.memory - 1 \in Nat
    BY <1>3 DEF Framed
  <2>8. Framed(w, held)
    BY <1>3, <2>3, <2>4, <2>5, <2>6, <2>7 DEF Framed
  <2>9. HeardOf(w, before) = Hear(HeardOf(r, before), e)
    BY <2>3, <2>4, <2>5 DEF HeardOf
  <2>10. Agrees(HeardOf(w, before), w.stream, clean /\ w.status # "OOM")
    <3>1. Agrees(HeardOf(w, before), w.stream, clean)
      BY <1>3, <2>3, <2>9
    <3> QED BY <3>1, <2>3 DEF Agrees
  <2> QED BY <2>2, <2>3, <2>8, <2>10 DEF Sound
<1> QED BY <1>1, <1>2, <1>3

-----------------------------------------------------------------------------
(* The events of the stream.  A lemma each for what tells them.            *)

LEMMA EventTypes ==
  /\ \A type, value, anchor, tag : Event(type, value, anchor, tag).type = type
  /\ \A type : Bare(type).type = type
BY DEF Event, Bare

\* What a run that goes on has.
LEMMA Running ==
  ASSUME NEW E, NEW before \in Seq(E), NEW r, NEW held, NEW clean \in BOOLEAN,
         Sound(r, before, held, clean)
  PROVE  /\ HeardOf(r, before) \in Hearings
         /\ IsStream(r.stream) /\ Framed(r, held)
         /\ Agrees(HeardOf(r, before), r.stream, FALSE)
         /\ Runs(r) => Agrees(HeardOf(r, before), r.stream, clean)
<1>1. Framed(r, held) /\ IsStream(r.stream) /\ RingOK(r.queue)
  BY DEF Sound, Framed
<1>2. HeardOf(r, before) \in Hearings
  BY <1>1, HeardMore DEF HeardOf
<1>3. Agrees(HeardOf(r, before), r.stream, clean /\ r.status # "OOM")
  BY DEF Sound
<1>4. Agrees(HeardOf(r, before), r.stream, FALSE)
  BY <1>3 DEF Agrees
<1>5. Runs(r) => Agrees(HeardOf(r, before), r.stream, clean)
  BY <1>3 DEF Agrees, Runs
<1> QED BY <1>1, <1>2, <1>4, <1>5

\* What Tell, Stop and Holding leave alone.
LEMMA TellIs ==
  ASSUME NEW r, NEW held, Framed(r, held), NEW e, NEW after
  PROVE  /\ Tell(r, e, after).finishing = r.finishing
         /\ Runs(Tell(r, e, after)) => Runs(r) /\ Tell(r, e, after).stream = after
<1>1. CASE ~Runs(r)
  BY <1>1 DEF Tell
<1>2. CASE Runs(r) /\ r.memory = 0
  BY <1>2 DEF Tell, Stop, Framed, Runs
<1>3. CASE Runs(r) /\ r.memory # 0
  BY <1>3 DEF Tell, Framed
<1> QED BY <1>1, <1>2, <1>3

LEMMA StopIs ==
  ASSUME NEW r, NEW held, Framed(r, held), NEW why
  PROVE  /\ Stop(r, why).finishing = r.finishing /\ Stop(r, why).stream = r.stream
         /\ Runs(Stop(r, why)) => Runs(r)
BY DEF Stop, Framed, Runs

LEMMA HoldingKeeps ==
  ASSUME NEW r, NEW held, Framed(r, held), NEW s
  PROVE  /\ Holding(r, s).finishing = r.finishing /\ Runs(Holding(r, s)) = Runs(r)
         /\ Holding(r, s).status = r.status
         /\ Runs(r) => Holding(r, s).stream = s
BY DEF Holding, Framed, Runs

LEMMA StartDocumentSound ==
  ASSUME NEW E, NEW before \in Seq(E), NEW r, NEW held \in Seq(E), NEW clean \in BOOLEAN,
         Sound(r, before, held, clean), Runs(r) => ~IsOpen(r.stream)
  PROVE  /\ Sound(StartDocument(r), before, held, clean)
         /\ StartDocument(r).finishing = r.finishing
         /\ Runs(StartDocument(r)) => Runs(r) /\ IsOpen(StartDocument(r).stream)
<1>1. PICK a : a = [r.stream EXCEPT !.started = TRUE, !.closed = FALSE]
  OBVIOUS
<1>2. PICK e : e = Bare("DOCUMENT_START")
  OBVIOUS
<1>3. PICK h : h = HeardOf(r, before)
  OBVIOUS
<1>4. h \in Hearings /\ IsStream(r.stream) /\ Framed(r, held) /\ Agrees(h, r.stream, FALSE)
      /\ (Runs(r) => Agrees(h, r.stream, clean))
  BY <1>3, Running
<1>5. /\ IsStream(a) /\ IsOpen(a) /\ a.scanner.finished = r.stream.scanner.finished
      /\ a.depth = r.stream.depth /\ a.aliases = r.stream.aliases
  BY <1>1, <1>4 DEF IsStream, IsOpen
<1>6. Runs(r) => Agrees(Hear(h, e), a, clean)
  BY <1>2, <1>4, <1>5, EventTypes, HearDocumentStart
<1>7. StartDocument(r) = Tell(r, e, a)
  BY <1>1, <1>2 DEF StartDocument
<1>8. Sound(Tell(r, e, a), before, held, clean)
  BY <1>3, <1>4, <1>5, <1>6, TellSound
<1> QED BY <1>4, <1>5, <1>7, <1>8, TellIs

LEMMA EndDocumentSound ==
  ASSUME NEW E, NEW before \in Seq(E), NEW r, NEW held \in Seq(E), NEW clean \in BOOLEAN,
         Sound(r, before, held, clean), Runs(r) => IsOpen(r.stream)
  PROVE  /\ Sound(EndDocument(r), before, held, clean)
         /\ EndDocument(r).finishing = r.finishing
         /\ Runs(EndDocument(r)) => Runs(r) /\ ~IsOpen(EndDocument(r).stream)
<1>1. PICK a : a = [r.stream EXCEPT !.closed = TRUE]
  OBVIOUS
<1>2. PICK e : e = Bare("DOCUMENT_END")
  OBVIOUS
<1>3. PICK h : h = HeardOf(r, before)
  OBVIOUS
<1>4. h \in Hearings /\ IsStream(r.stream) /\ Framed(r, held) /\ Agrees(h, r.stream, FALSE)
      /\ (Runs(r) => Agrees(h, r.stream, clean))
  BY <1>3, Running
<1>5. /\ IsStream(a) /\ ~IsOpen(a) /\ a.scanner.finished = r.stream.scanner.finished
      /\ a.depth = r.stream.depth /\ a.aliases = r.stream.aliases
  BY <1>1, <1>4 DEF IsStream, IsOpen
<1>6. Runs(r) => Agrees(Hear(h, e), a, clean)
  BY <1>2, <1>4, <1>5, EventTypes, HearDocumentEnd
<1>7. EndDocument(r) = Tell(r, e, a)
  BY <1>1, <1>2 DEF EndDocument
<1>8. Sound(Tell(r, e, a), before, held, clean)
  BY <1>3, <1>4, <1>5, <1>6, TellSound
<1> QED BY <1>4, <1>5, <1>7, <1>8, TellIs

LEMMA EnsuredSound ==
  ASSUME NEW E, NEW before \in Seq(E), NEW r, NEW held \in Seq(E), NEW clean \in BOOLEAN,
         Sound(r, before, held, clean)
  PROVE  /\ Sound(Ensured(r), before, held, clean)
         /\ Ensured(r).finishing = r.finishing
         /\ Runs(Ensured(r)) => Runs(r) /\ IsOpen(Ensured(r).stream)
<1>1. CASE IsOpen(r.stream)
  BY <1>1 DEF Ensured, Open, IsOpen
<1>2. CASE ~IsOpen(r.stream)
  <2>1. Ensured(r) = StartDocument(r)
    BY <1>2 DEF Ensured, Open, IsOpen
  <2>2. /\ Sound(StartDocument(r), before, held, clean)
        /\ StartDocument(r).finishing = r.finishing
        /\ Runs(StartDocument(r)) => Runs(r) /\ IsOpen(StartDocument(r).stream)
    BY <1>2, StartDocumentSound
  <2> QED BY <2>1, <2>2
<1> QED BY <1>1, <1>2

LEMMA NextDocumentSound ==
  ASSUME NEW E, NEW before \in Seq(E), NEW r, NEW held \in Seq(E), NEW clean \in BOOLEAN,
         Sound(r, before, held, clean)
  PROVE  Sound(NextDocument(r), before, held, clean)
<1>1. PICK w : w = IF Open(r) THEN EndDocument(r) ELSE r
  OBVIOUS
<1>2. Sound(w, before, held, clean) /\ (Runs(w) => ~IsOpen(w.stream))
  BY <1>1, EndDocumentSound DEF Open, IsOpen
<1>3. NextDocument(r) = StartDocument(w)
  BY <1>1 DEF NextDocument
<1> QED BY <1>2, <1>3, StartDocumentSound

\* Streams that differ in names, or in the scanner, at most.
Alike(s, a) ==
    /\ IsStream(a) /\ a.scanner.finished = s.scanner.finished
    /\ IsOpen(a) = IsOpen(s) /\ a.depth = s.depth /\ a.aliases = s.aliases
LEMMA Likes ==
  ASSUME NEW s, IsStream(s)
  PROVE  /\ Alike(s, s)
         /\ Alike(s, [s EXCEPT !.anchor = NoName, !.tag = NoName])
         /\ \A name : Alike(s, [s EXCEPT !.anchor = name]) /\ Alike(s, [s EXCEPT !.tag = name])
         /\ \A b \in BOOLEAN : Alike(s, [s EXCEPT !.alias = b])
         /\ \A t : SameScanner(s.scanner, t) => Alike(s, [s EXCEPT !.scanner = t])
<1>1. Alike(s, s)
  BY DEF Alike
<1>2. PICK a : a = [s EXCEPT !.anchor = NoName, !.tag = NoName]
  OBVIOUS
<1>3. Alike(s, a)
  BY <1>2 DEF Alike, IsStream, IsOpen
<1>4. ASSUME NEW name PROVE Alike(s, [s EXCEPT !.anchor = name]) /\ Alike(s, [s EXCEPT !.tag = name])
  BY DEF Alike, IsStream, IsOpen
<1>5. ASSUME NEW b \in BOOLEAN PROVE Alike(s, [s EXCEPT !.alias = b])
  BY DEF Alike, IsStream, IsOpen
<1>6. ASSUME NEW t, SameScanner(s.scanner, t) PROVE Alike(s, [s EXCEPT !.scanner = t])
  BY <1>6 DEF Alike, IsStream, IsOpen, SameScanner
<1> QED BY <1>1, <1>2, <1>3, <1>4, <1>5, <1>6

\* A scalar or an indicator, with or without names.
LEMMA NodeSound ==
  ASSUME NEW E, NEW before \in Seq(E), NEW r, NEW held \in Seq(E), NEW clean \in BOOLEAN,
         Sound(r, before, held, clean), Runs(r) => IsOpen(r.stream), NEW e, e.type \in Nodes, NEW a,
         Runs(r) => Alike(r.stream, a)
  PROVE  Sound(Tell(r, e, a), before, held, clean)
<1>1. PICK h : h = HeardOf(r, before)
  OBVIOUS
<1>2. h \in Hearings /\ IsStream(r.stream) /\ Framed(r, held) /\ Agrees(h, r.stream, FALSE)
      /\ (Runs(r) => Agrees(h, r.stream, clean))
  BY <1>1, Running
<1>3. Runs(r) => /\ IsStream(a) /\ IsOpen(a) /\ a.scanner.finished = r.stream.scanner.finished
                 /\ a.depth = r.stream.depth /\ a.aliases = r.stream.aliases
  BY DEF Alike
<1>4. Runs(r) => Agrees(Hear(h, e), a, clean)
  BY <1>2, <1>3, HearNode
<1> QED BY <1>1, <1>2, <1>3, <1>4, TellSound

\* A stream that is held alike.
LEMMA AlikeSound ==
  ASSUME NEW E, NEW before \in Seq(E), NEW r, NEW held \in Seq(E), NEW clean \in BOOLEAN,
         Sound(r, before, held, clean), NEW s, Runs(r) => Alike(r.stream, s)
  PROVE  Sound(Holding(r, s), before, held, clean)
<1>1. /\ HeardOf(r, before) \in Hearings /\ IsStream(r.stream)
      /\ Agrees(HeardOf(r, before), r.stream, FALSE)
  BY Running
<1>2. r.stream.aliases <= MaxAliases
  BY <1>1 DEF Agrees
<1>3. r.stream.aliases \in Nat /\ r.stream.depth \in Nat
  BY <1>1 DEF IsStream
<1>4. Runs(r) => /\ IsStream(s) /\ s.scanner.finished = r.stream.scanner.finished
                 /\ IsOpen(s) = IsOpen(r.stream)
                 /\ s.aliases >= r.stream.aliases /\ s.aliases <= MaxAliases
                 /\ s.depth >= r.stream.depth
                 /\ HeardOf(r, before) \in Hearings
  BY <1>1, <1>2, <1>3 DEF Alike
<1> QED BY <1>4, HoldingSound

LEMMA QuietSound ==
  ASSUME NEW E, NEW before \in Seq(E), NEW r, NEW held \in Seq(E), NEW clean \in BOOLEAN,
         Sound(r, before, held, clean), NEW e, e.type \in Quiet
  PROVE  Sound(Tell(r, e, r.stream), before, held, clean)
<1>1. PICK h : h = HeardOf(r, before)
  OBVIOUS
<1>2. h \in Hearings /\ IsStream(r.stream) /\ Framed(r, held) /\ Agrees(h, r.stream, FALSE)
      /\ (Runs(r) => Agrees(h, r.stream, clean))
  BY <1>1, Running
<1>3. Runs(r) => Agrees(Hear(h, e), r.stream, clean)
  BY <1>2, HearQuiet
<1> QED BY <1>1, <1>2, <1>3, TellSound

LEMMA TellNodeSound ==
  ASSUME NEW E, NEW before \in Seq(E), NEW r, NEW held \in Seq(E), NEW clean \in BOOLEAN,
         Sound(r, before, held, clean), Runs(r) => IsOpen(r.stream), NEW value
  PROVE  Sound(TellNode(r, "SCALAR", value), before, held, clean)
<1>1. PICK e : e = Event("SCALAR", value, r.stream.anchor, r.stream.tag)
  OBVIOUS
<1>2. e.type \in Nodes
  BY <1>1, EventTypes DEF Nodes
<1>3. PICK a : a = [r.stream EXCEPT !.anchor = NoName, !.tag = NoName]
  OBVIOUS
<1>4. Alike(r.stream, a)
  BY <1>3, Running, Likes
<1>5. TellNode(r, "SCALAR", value) = Tell(r, e, a)
  BY <1>1, <1>3 DEF TellNode
<1>6. Sound(Tell(r, e, a), before, held, clean)
  BY <1>2, <1>4, NodeSound
<1> QED BY <1>5, <1>6

\* A stream at another depth, or with another number of aliases.
LEMMA AtDepth ==
  ASSUME NEW s, IsStream(s), NEW n \in Nat, NEW a,
         a = [s EXCEPT !.depth = n] \/ a = [s EXCEPT !.aliases = n]
  PROVE  /\ IsStream(a) /\ IsOpen(a) = IsOpen(s) /\ a.scanner.finished = s.scanner.finished
         /\ a = [s EXCEPT !.depth = n] => a.depth = n /\ a.aliases = s.aliases
         /\ a = [s EXCEPT !.aliases = n] => a.aliases = n /\ a.depth = s.depth
<1>1. CASE a = [s EXCEPT !.depth = n]
  <2>1. IsStream(a) /\ IsOpen(a) = IsOpen(s) /\ a.scanner.finished = s.scanner.finished
    BY <1>1 DEF IsStream, IsOpen
  <2>2. a.depth = n /\ a.aliases = s.aliases
    BY <1>1 DEF IsStream
  <2>3. a = [s EXCEPT !.aliases = n] => a.aliases = n /\ a.depth = s.depth
    BY DEF IsStream
  <2> QED BY <2>1, <2>2, <2>3
<1>2. CASE a = [s EXCEPT !.aliases = n]
  <2>1. IsStream(a) /\ IsOpen(a) = IsOpen(s) /\ a.scanner.finished = s.scanner.finished
    BY <1>2 DEF IsStream, IsOpen
  <2>2. a.aliases = n /\ a.depth = s.depth
    BY <1>2 DEF IsStream
  <2>3. a = [s EXCEPT !.depth = n] => a.depth = n /\ a.aliases = s.aliases
    BY DEF IsStream
  <2> QED BY <2>1, <2>2, <2>3
<1> QED BY <1>1, <1>2

\* The start of a container, or too deep a one.
LEMMA ContainerSound ==
  ASSUME NEW E, NEW before \in Seq(E), NEW r, NEW held \in Seq(E), NEW clean \in BOOLEAN,
         Sound(r, before, held, clean), Runs(r), IsOpen(r.stream), NEW c \in DOMAIN Opening
  PROVE  Sound(Container(r, c), before, held, clean)
<1>1. PICK s : s = [r.stream EXCEPT !.depth = @ + 1]
  OBVIOUS
<1>2. PICK h : h = HeardOf(r, before)
  OBVIOUS
<1>3. /\ h \in Hearings /\ IsStream(r.stream) /\ Framed(r, held)
      /\ Agrees(h, r.stream, FALSE) /\ Agrees(h, r.stream, clean)
  BY <1>2, Running
<1>4. /\ IsStream(s) /\ IsOpen(s) /\ s.scanner.finished = r.stream.scanner.finished
      /\ s.depth = r.stream.depth + 1 /\ s.aliases = r.stream.aliases
      /\ r.stream.depth \in Nat /\ r.stream.aliases \in Nat /\ s.depth \in Nat
  <2>1. r.stream.depth \in Nat /\ r.stream.aliases \in Nat
    BY <1>3 DEF IsStream
  <2>2. PICK n \in Nat : n = r.stream.depth + 1
    BY <2>1
  <2>3. s = [r.stream EXCEPT !.depth = n]
    BY <1>1, <2>2
  <2> QED BY <1>3, <2>1, <2>2, <2>3, AtDepth
<1>5. PICK w : w = Holding(r, s)
  OBVIOUS
<1>6. Sound(w, before, held, clean)
  <2>1. s.aliases <= MaxAliases
    BY <1>3, <1>4 DEF Agrees
  <2>2. /\ s.aliases >= r.stream.aliases /\ s.depth >= r.stream.depth /\ IsOpen(s) = IsOpen(r.stream)
    BY <1>4 DEF IsOpen, IsStream
  <2> QED BY <1>2, <1>3, <1>4, <1>5, <2>1, <2>2, HoldingSound
<1>7. Runs(w) /\ w.stream = s /\ w.queue = r.queue /\ Framed(w, held) /\ HeardOf(w, before) = h
  BY <1>2, <1>3, <1>4, <1>5, HoldingIs DEF HeardOf
<1>8. CASE TooDeep(s.depth)
  <2>1. Container(r, c) = Stop(w, "DEPTH")
    BY <1>1, <1>5, <1>8 DEF Container
  <2> QED BY <1>6, <2>1, StopSound
<1>9. CASE ~TooDeep(s.depth)
  <2>1. s.depth <= MaxDepth
    BY <1>4, <1>9, ReaderAssumption DEF TooDeep
  <2>2. PICK a : a = [s EXCEPT !.anchor = NoName, !.tag = NoName]
    OBVIOUS
  <2>3. Alike(s, a)
    BY <1>4, <2>2, Likes
  <2>4. PICK e : e = Event(Opening[c], <<>>, s.anchor, s.tag)
    OBVIOUS
  <2>5. e.type \in {"SEQUENCE_START", "MAPPING_START"}
    <3>1. Opening[c] \in {"SEQUENCE_START", "MAPPING_START"}
      BY DEF Opening
    <3> QED BY <2>4, <3>1, EventTypes
  <2>6. /\ IsOpen(a) /\ a.depth = r.stream.depth + 1 /\ a.depth <= MaxDepth /\ a.aliases = r.stream.aliases
        /\ IsStream(a) /\ a.scanner.finished = w.stream.scanner.finished
    BY <1>4, <1>7, <2>1, <2>3 DEF Alike
  <2>7. Agrees(Hear(h, e), a, clean)
    BY <1>3, <1>4, <2>5, <2>6, HearOpening
  <2>8. Agrees(HeardOf(w, before), w.stream, FALSE)
    BY <1>6, Running
  <2>9. Sound(Tell(w, e, a), before, held, clean)
    BY <1>6, <1>7, <2>6, <2>7, <2>8, TellSound
  <2>10. Container(r, c) = Tell(w, e, a)
    <3>1. Container(r, c) = TellNode(w, Opening[c], <<>>)
      BY <1>1, <1>5, <1>9 DEF Container
    <3> QED BY <1>7, <2>2, <2>4, <3>1 DEF TellNode
  <2> QED BY <2>9, <2>10
<1> QED BY <1>8, <1>9

\* The end of a container; one that is lost for want of memory is counted.
LEMMA ContainerEndSound ==
  ASSUME NEW E, NEW before \in Seq(E), NEW r, NEW held \in Seq(E), NEW clean \in BOOLEAN,
         Sound(r, before, held, clean), Runs(r), IsOpen(r.stream), NEW c \in DOMAIN Closing
  PROVE  Sound(ContainerEnd(r, c), before, held, clean)
<1>1. PICK s : s = [r.stream EXCEPT !.depth = IF @ = 0 THEN 0 ELSE @ - 1]
  OBVIOUS
<1>2. PICK h : h = HeardOf(r, before)
  OBVIOUS
<1>3. /\ h \in Hearings /\ IsStream(r.stream) /\ Framed(r, held)
      /\ Agrees(h, r.stream, FALSE) /\ Agrees(h, r.stream, clean)
  BY <1>2, Running
<1>4. /\ IsStream(s) /\ IsOpen(s) /\ s.scanner.finished = r.stream.scanner.finished
      /\ s.depth = (IF r.stream.depth = 0 THEN 0 ELSE r.stream.depth - 1)
      /\ s.aliases = r.stream.aliases /\ r.stream.depth \in Nat
  <2>1. r.stream.depth \in Nat
    BY <1>3 DEF IsStream
  <2>2. PICK n \in Nat : n = IF r.stream.depth = 0 THEN 0 ELSE r.stream.depth - 1
    BY <2>1
  <2>3. s = [r.stream EXCEPT !.depth = n]
    BY <1>1, <2>2
  <2> QED BY <1>3, <2>1, <2>2, <2>3, AtDepth
<1>5. PICK w : w = Holding(r, s)
  OBVIOUS
<1>6. Runs(w) /\ w.stream = s /\ w.queue = r.queue /\ Framed(w, held) /\ HeardOf(w, before) = h
  BY <1>2, <1>3, <1>4, <1>5, HoldingIs DEF HeardOf
<1>7. PICK e : e = Bare(Closing[c])
  OBVIOUS
<1>8. e.type \in {"SEQUENCE_END", "MAPPING_END"}
  <2>1. Closing[c] \in {"SEQUENCE_END", "MAPPING_END"}
    BY DEF Closing
  <2> QED BY <1>7, <2>1, EventTypes
<1>9. Agrees(Hear(h, e), s, clean)
  BY <1>3, <1>4, <1>8, HearClosing
<1>10. Agrees(h, s, FALSE)
  BY <1>3, <1>4 DEF Agrees
<1>11. Sound(Tell(w, e, s), before, held, clean)
  BY <1>4, <1>6, <1>9, <1>10, TellSound
<1>12. ContainerEnd(r, c) = Tell(w, e, s)
  BY <1>1, <1>5, <1>7 DEF ContainerEnd
<1> QED BY <1>11, <1>12

\* An alias, one too many, or what is none.
LEMMA TellAliasSound ==
  ASSUME NEW E, NEW before \in Seq(E), NEW r, NEW held \in Seq(E), NEW clean \in BOOLEAN,
         Sound(r, before, held, clean), Runs(r) => IsOpen(r.stream), NEW n
  PROVE  /\ Sound(TellAlias(r, n), before, held, clean)
         /\ TellAlias(r, n).finishing = r.finishing
<1>0. Framed(r, held)
  BY DEF Sound
<1>1. CASE n.type # "SCALAR" \/ AliasLimit(r.stream)
  <2>1. TellAlias(r, n) = Stop(r, "BAD_TOKEN") \/ TellAlias(r, n) = Stop(r, "LIMIT")
    BY <1>1 DEF TellAlias
  <2>2. Sound(Stop(r, "BAD_TOKEN"), before, held, clean) /\ Sound(Stop(r, "LIMIT"), before, held, clean)
    BY StopSound
  <2> QED BY <1>0, <2>1, <2>2, StopIs
<1>2. CASE n.type = "SCALAR" /\ ~AliasLimit(r.stream)
  <2>1. PICK s : s = [r.stream EXCEPT !.aliases = @ + 1]
    OBVIOUS
  <2>2. PICK a : a = [s EXCEPT !.tag = NoName]
    OBVIOUS
  <2>3. PICK e : e = Event("ALIAS", n.value, NoName, NoName)
    OBVIOUS
  <2>4. TellAlias(r, n) = Tell(Holding(r, s), e, a)
    BY <1>2, <2>1, <2>2, <2>3 DEF TellAlias
  <2>5. CASE ~Runs(r)
    BY <2>4, <2>5 DEF Tell, Holding
  <2>6. CASE Runs(r)
    <3>1. PICK h : h = HeardOf(r, before)
      OBVIOUS
    <3>2. /\ h \in Hearings /\ IsStream(r.stream)
          /\ Agrees(h, r.stream, FALSE) /\ Agrees(h, r.stream, clean)
      BY <2>6, <3>1, Running
    <3>3. r.stream.aliases \in Nat
      BY <3>2 DEF IsStream
    <3>4. PICK m \in Nat : m = r.stream.aliases + 1 /\ m <= MaxAliases
      BY <1>2, <3>3, ReaderAssumption DEF AliasLimit
    <3>5. s = [r.stream EXCEPT !.aliases = m]
      BY <2>1, <3>4
    <3>6. /\ IsStream(s) /\ IsOpen(s) /\ s.scanner.finished = r.stream.scanner.finished
          /\ s.aliases = m /\ s.depth = r.stream.depth
      BY <2>6, <3>2, <3>5, AtDepth
    <3>7. Alike(s, a)
      BY <2>2, <3>6, Likes
    <3>8. /\ IsStream(a) /\ IsOpen(a) /\ a.scanner.finished = r.stream.scanner.finished
          /\ a.aliases = m /\ a.depth = r.stream.depth
      BY <3>6, <3>7 DEF Alike
    <3>9. Agrees(Hear(h, e), a, clean)
      <4>1. e.type = "ALIAS"
        BY <2>3, EventTypes
      <4> QED BY <2>6, <3>2, <3>3, <3>4, <3>8, <4>1, HearAlias
    <3>10. PICK w : w = Holding(r, s)
      OBVIOUS
    <3>11. /\ Runs(w) /\ w.stream = s /\ w.queue = r.queue /\ w.finishing = r.finishing
           /\ Framed(w, held) /\ HeardOf(w, before) = h
      BY <1>0, <2>6, <3>1, <3>6, <3>10, HoldingIs DEF HeardOf
    <3>12. Agrees(h, s, FALSE)
      BY <2>6, <3>2, <3>3, <3>4, <3>6 DEF Agrees, Hearings
    <3>13. Sound(Tell(w, e, a), before, held, clean)
      BY <3>6, <3>8, <3>9, <3>11, <3>12, TellSound
    <3> QED BY <2>4, <3>10, <3>11, <3>13, TellIs
  <2> QED BY <2>5, <2>6
<1> QED BY <1>1, <1>2

-----------------------------------------------------------------------------
(* What an indicator names.                                                *)

\* A result of the scanner of a run that finishes does not say wait.
Answered(r, n) == Scanned(r.stream.scanner, n)
LEMMA ScanAnswers ==
  ASSUME NEW r, IsStream(r.stream)
  PROVE  Answered(r, Scan(r))
BY ScannerAnswers DEF Answered, Scan, IsStream

LEMMA BehindSound ==
  ASSUME NEW E, NEW before \in Seq(E), NEW r, NEW held \in Seq(E), NEW clean \in BOOLEAN,
         Sound(r, before, held, clean), NEW n, Answered(r, n)
  PROVE  /\ Sound(Behind(r, n), before, held, clean)
         /\ Behind(r, n).finishing = r.finishing /\ Runs(Behind(r, n)) = Runs(r)
         /\ IsOpen(Behind(r, n).stream) = IsOpen(r.stream)
         /\ n.status = "INCOMPLETE" => ~r.finishing
<1>1. PICK s : s = [r.stream EXCEPT !.scanner = n.scanner]
  OBVIOUS
<1>2. Alike(r.stream, s)
  BY <1>1, Running, Likes DEF Answered, Scanned
<1>3. Behind(r, n) = Holding(r, s)
  BY <1>1 DEF Behind
<1>4. Sound(Holding(r, s), before, held, clean)
  BY <1>2, AlikeSound
<1>5. Framed(r, held)
  BY DEF Sound
<1>6. IsOpen(Holding(r, s).stream) = IsOpen(r.stream)
  BY <1>2, <1>5, HoldingKeeps DEF Alike, Holding
<1>7. n.status = "INCOMPLETE" => ~r.finishing
  BY <1>5 DEF Answered, Scanned, Framed
<1> QED BY <1>3, <1>4, <1>5, <1>6, <1>7, HoldingKeeps

LEMMA NameOfSound ==
  ASSUME NEW E, NEW before \in Seq(E), NEW r, NEW held \in Seq(E), NEW clean \in BOOLEAN,
         Sound(r, before, held, clean), NEW n, n.status = "INCOMPLETE" => ~r.finishing, NEW onWait
  PROVE  Sound(NameOf(r, n, onWait), before, held, clean)
<1>1. \/ n.status = "INCOMPLETE" /\ NameOf(r, n, onWait) = Stop(r, onWait)
      \/ n.status # "OK" /\ NameOf(r, n, onWait) = Stop(r, n.status)
      \/ NameOf(r, n, onWait) = Stop(r, "BAD_TOKEN")
      \/ NameOf(r, n, onWait) = r
  BY DEF NameOf
<1> QED BY <1>1, StopSound

LEMMA WithNameSound ==
  ASSUME NEW E, NEW before \in Seq(E), NEW r, NEW held \in Seq(E), NEW clean \in BOOLEAN,
         Sound(r, before, held, clean), NEW name
  PROVE  Sound(WithAnchor(r, name), before, held, clean) /\ Sound(WithTag(r, name), before, held, clean)
<1>1. PICK k : k = Kept(r, name)
  OBVIOUS
<1>2. Alike(r.stream, [r.stream EXCEPT !.anchor = k]) /\ Alike(r.stream, [r.stream EXCEPT !.tag = k])
  BY Running, Likes
<1>3. /\ WithAnchor(r, name) = Holding(r, [r.stream EXCEPT !.anchor = k])
      /\ WithTag(r, name) = Holding(r, [r.stream EXCEPT !.tag = k])
  BY <1>1 DEF WithAnchor, WithTag
<1>4. Sound(Holding(r, [r.stream EXCEPT !.anchor = k]), before, held, clean)
  BY <1>2, AlikeSound
<1>5. Sound(Holding(r, [r.stream EXCEPT !.tag = k]), before, held, clean)
  BY <1>2, AlikeSound
<1> QED BY <1>3, <1>4, <1>5

\* An anchor or a tag: r is behind what the indicator names.
LEMMA AnchorSound ==
  ASSUME NEW E, NEW before \in Seq(E), NEW r, NEW held \in Seq(E), NEW clean \in BOOLEAN,
         Sound(r, before, held, clean), NEW n, n.status = "INCOMPLETE" => ~r.finishing
  PROVE  Sound(Anchor(r, n), before, held, clean)
BY NameOfSound, WithNameSound DEF Anchor

LEMMA TagSound ==
  ASSUME NEW E, NEW before \in Seq(E), NEW r, NEW held \in Seq(E), NEW clean \in BOOLEAN,
         Sound(r, before, held, clean), NEW n, n.status = "INCOMPLETE" => ~r.finishing
  PROVE  Sound(Tag(r, n), before, held, clean)
<1>1. Sound(WithTag(NameOf(r, n, "OK"), <<"!">> \o n.value), before, held, clean)
  BY NameOfSound, WithNameSound
<1>2. Sound(LongTag(r, Scan(r)), before, held, clean)
  <2>1. PICK m : m = Scan(r)
    OBVIOUS
  <2>2. Answered(r, m)
    BY <2>1, Running, ScanAnswers
  <2>3. PICK w : w = Behind(r, m)
    OBVIOUS
  <2>4. Sound(w, before, held, clean) /\ (m.status = "INCOMPLETE" => ~w.finishing)
    BY <2>2, <2>3, BehindSound
  <2>5. Sound(NameOf(w, m, "INCOMPLETE"), before, held, clean)
    BY <2>4, NameOfSound
  <2>6. PICK name : name = <<"!", "!">> \o m.value
    OBVIOUS
  <2>7. LongTag(r, m) = WithTag(NameOf(w, m, "INCOMPLETE"), name)
    BY <2>3, <2>6 DEF LongTag
  <2> QED BY <2>1, <2>5, <2>7, WithNameSound
<1>3. Tag(r, n) = LongTag(r, Scan(r)) \/ Tag(r, n) = WithTag(NameOf(r, n, "OK"), <<"!">> \o n.value)
  BY DEF Tag
<1> QED BY <1>1, <1>2, <1>3

LEMMA AliasSound ==
  ASSUME NEW E, NEW before \in Seq(E), NEW r, NEW held \in Seq(E), NEW clean \in BOOLEAN,
         Sound(r, before, held, clean), NEW n, n.status = "INCOMPLETE" => ~r.finishing
  PROVE  Sound(Alias(r, n), before, held, clean)
<1>1. CASE n.status = "INCOMPLETE"
  <2>1. PICK s : s = [r.stream EXCEPT !.alias = TRUE]
    OBVIOUS
  <2>2. Alike(r.stream, s)
    BY <2>1, Running, Likes
  <2>3. Sound(Holding(r, s), before, held, clean)
    BY <2>2, AlikeSound
  <2>4. Framed(r, held) /\ ~r.finishing
    BY <1>1 DEF Sound
  <2>5. ~Holding(r, s).finishing
    BY <2>4, HoldingKeeps
  <2>6. Alias(r, n) = Stop(Holding(r, s), "OK")
    BY <1>1, <2>1 DEF Alias
  <2> QED BY <2>3, <2>5, <2>6, StopSound
<1>2. CASE n.status \notin {"OK", "INCOMPLETE"}
  <2>1. Alias(r, n) = Stop(r, n.status) /\ n.status # "OK"
    BY <1>2 DEF Alias
  <2> QED BY <2>1, StopSound
<1>3. CASE n.status = "OK"
  <2>1. PICK w : w = Ensured(r)
    OBVIOUS
  <2>2. Sound(w, before, held, clean) /\ w.finishing = r.finishing /\ (Runs(w) => IsOpen(w.stream))
    BY <2>1, EnsuredSound
  <2>3. PICK v : v = TellAlias(w, n)
    OBVIOUS
  <2>4. Sound(v, before, held, clean) /\ v.finishing = r.finishing
    BY <2>2, <2>3, TellAliasSound
  <2>5. Alias(r, n) = Stop(v, IF r.finishing THEN "RUNS" ELSE "OK")
    BY <1>3, <2>1, <2>3 DEF Alias
  <2>6. CASE r.finishing
    <3>1. Alias(r, n) = Stop(v, "RUNS")
      BY <2>5, <2>6
    <3> QED BY <2>4, <3>1, StopSound
  <2>7. CASE ~r.finishing
    <3>1. Alias(r, n) = Stop(v, "OK")
      BY <2>5, <2>7
    <3> QED BY <2>4, <2>7, <3>1, StopSound
  <2> QED BY <2>6, <2>7
<1> QED BY <1>1, <1>2, <1>3

LEMMA NameBehindSound ==
  ASSUME NEW E, NEW before \in Seq(E), NEW r, NEW held \in Seq(E), NEW clean \in BOOLEAN,
         Sound(r, before, held, clean), NEW c \in {<<"&">>, <<"!">>, <<"*">>}
  PROVE  Sound(NameBehind(r, Scan(r), c), before, held, clean)
<1>1. PICK n : n = Scan(r)
  OBVIOUS
<1>2. Answered(r, n)
  BY <1>1, Running, ScanAnswers
<1>3. PICK w : w = Behind(r, n)
  OBVIOUS
<1>4. Sound(w, before, held, clean) /\ (n.status = "INCOMPLETE" => ~w.finishing)
  BY <1>2, <1>3, BehindSound
<1>5. \/ NameBehind(r, n, c) = Anchor(w, n)
      \/ NameBehind(r, n, c) = Tag(w, n)
      \/ NameBehind(r, n, c) = Alias(w, n)
  BY <1>3 DEF NameBehind
<1>6. /\ Sound(Anchor(w, n), before, held, clean) /\ Sound(Tag(w, n), before, held, clean)
      /\ Sound(Alias(w, n), before, held, clean)
  BY <1>4, AnchorSound, TagSound, AliasSound
<1> QED BY <1>1, <1>5, <1>6

-----------------------------------------------------------------------------
(* A turn of the loop, and the loop.                                       *)

LEMMA OnIndicatorSound ==
  ASSUME NEW E, NEW before \in Seq(E), NEW r, NEW held \in Seq(E), NEW clean \in BOOLEAN,
         Sound(r, before, held, clean), Runs(r) => IsOpen(r.stream), NEW c
  PROVE  Sound(OnIndicator(r, c), before, held, clean)
<1>1. PICK e : e = Event("INDICATOR", c, NoName, NoName)
  OBVIOUS
<1>2. \/ OnIndicator(r, c) = r
      \/ Runs(r) /\ c \in DOMAIN Opening /\ OnIndicator(r, c) = Container(r, c)
      \/ Runs(r) /\ c \in DOMAIN Closing /\ OnIndicator(r, c) = ContainerEnd(r, c)
      \/ c \in {<<"&">>, <<"!">>, <<"*">>} /\ OnIndicator(r, c) = NameBehind(r, Scan(r), c)
      \/ OnIndicator(r, c) = Tell(r, e, r.stream)
  BY <1>1 DEF OnIndicator
<1>3. Sound(Tell(r, e, r.stream), before, held, clean)
  <2>1. e.type \in Nodes
    BY <1>1, EventTypes DEF Nodes
  <2>2. Alike(r.stream, r.stream)
    BY Running, Likes
  <2> QED BY <2>1, <2>2, NodeSound
<1>4. CASE Runs(r) /\ c \in DOMAIN Opening /\ OnIndicator(r, c) = Container(r, c)
  BY <1>4, ContainerSound
<1>5. CASE Runs(r) /\ c \in DOMAIN Closing /\ OnIndicator(r, c) = ContainerEnd(r, c)
  BY <1>5, ContainerEndSound
<1>6. CASE c \in {<<"&">>, <<"!">>, <<"*">>} /\ OnIndicator(r, c) = NameBehind(r, Scan(r), c)
  BY <1>6, NameBehindSound
<1> QED BY <1>2, <1>3, <1>4, <1>5, <1>6

\* A token, behind an alias whose name was cut off or not.
LEMMA OnTokenSound ==
  ASSUME NEW E, NEW before \in Seq(E), NEW r, NEW held \in Seq(E), NEW clean \in BOOLEAN,
         Sound(r, before, held, clean), NEW n, n.type \in TokenTypes, n.type # "EOF"
  PROVE  Sound(OnToken(r, n), before, held, clean)
<1>1. IsStream(r.stream) /\ r.stream.alias \in BOOLEAN
  BY Running DEF IsStream
<1>2. PICK w : w = Ensured(r)
  OBVIOUS
<1>3. Sound(w, before, held, clean) /\ (Runs(w) => IsOpen(w.stream))
  BY <1>2, EnsuredSound
<1>4. CASE r.stream.alias
  <2>1. PICK s : s = [r.stream EXCEPT !.alias = FALSE]
    OBVIOUS
  <2>2. Alike(r.stream, s)
    BY <1>1, <2>1, Likes
  <2>3. PICK v : v = Ensured(Holding(r, s))
    OBVIOUS
  <2>4. Sound(v, before, held, clean) /\ (Runs(v) => IsOpen(v.stream))
    <3>1. Sound(Holding(r, s), before, held, clean)
      BY <2>2, AlikeSound
    <3> QED BY <2>3, <3>1, EnsuredSound
  <2>5. OnToken(r, n) = Stop(r, "BAD_TOKEN") \/ OnToken(r, n) = TellAlias(v, n)
    BY <1>4, <2>1, <2>3 DEF OnToken
  <2>6. Sound(Stop(r, "BAD_TOKEN"), before, held, clean)
    BY StopSound
  <2>7. Sound(TellAlias(v, n), before, held, clean)
    BY <2>4, TellAliasSound
  <2> QED BY <2>5, <2>6, <2>7
<1>5. CASE ~r.stream.alias /\ n.type = "DOCUMENT_START"
  <2>1. OnToken(r, n) = NextDocument(r)
    BY <1>5 DEF OnToken
  <2> QED BY <2>1, NextDocumentSound
<1>6. CASE ~r.stream.alias /\ n.type = "DOCUMENT_END"
  <2>1. OnToken(r, n) = EndDocument(w)
    BY <1>2, <1>6 DEF OnToken
  <2> QED BY <1>3, <2>1, EndDocumentSound
<1>7. CASE ~r.stream.alias /\ n.type \in {"COMMENT", "DIRECTIVE"}
  <2>1. PICK e : e = Event(n.type, n.value, NoName, NoName)
    OBVIOUS
  <2>2. OnToken(r, n) = Tell(r, e, r.stream) \/ OnToken(r, n) = r
    BY <1>7, <2>1 DEF OnToken
  <2>3. e.type \in Quiet
    BY <1>7, <2>1, EventTypes DEF Quiet
  <2> QED BY <2>2, <2>3, QuietSound
<1>8. CASE ~r.stream.alias /\ n.type = "INDICATOR"
  <2>1. OnToken(r, n) = OnIndicator(w, n.value)
    BY <1>2, <1>8 DEF OnToken
  <2> QED BY <1>3, <2>1, OnIndicatorSound
<1>9. CASE ~r.stream.alias /\ n.type = "SCALAR"
  <2>1. OnToken(r, n) = TellNode(w, "SCALAR", n.value)
    BY <1>2, <1>9 DEF OnToken
  <2> QED BY <1>3, <2>1, TellNodeSound
<1> QED BY <1>4, <1>5, <1>6, <1>7, <1>8, <1>9 DEF TokenTypes

LEMMA TurnSound ==
  ASSUME NEW E, NEW before \in Seq(E), NEW r, NEW held \in Seq(E), NEW clean \in BOOLEAN,
         Sound(r, before, held, clean)
  PROVE  Sound(Turn(r), before, held, clean)
<1>1. PICK n : n = Scan(r)
  OBVIOUS
<1>2. Answered(r, n)
  BY <1>1, Running, ScanAnswers
<1>3. PICK w : w = Behind(r, n)
  OBVIOUS
<1>4. /\ Sound(w, before, held, clean) /\ w.finishing = r.finishing
      /\ n.status = "INCOMPLETE" => ~w.finishing
  BY <1>2, <1>3, BehindSound
<1>5. Turn(r) = r \/ Turn(r) = TurnBehind(w, n)
  BY <1>1, <1>3 DEF Turn, TurnFrom
<1>6. Sound(TurnBehind(w, n), before, held, clean)
  <2>1. CASE n.status # "OK"
    <3>1. \/ n.status = "INCOMPLETE" /\ TurnBehind(w, n) = Stop(w, "OK")
          \/ TurnBehind(w, n) = Stop(w, n.status)
      BY <2>1 DEF TurnBehind
    <3> QED BY <1>4, <2>1, <3>1, StopSound
  <2>2. CASE n.status = "OK" /\ n.type = "EOF"
    <3>1. PICK v : v = IF w.finishing /\ Open(w) THEN EndDocument(w) ELSE w
      OBVIOUS
    <3>2. TurnBehind(w, n) = Stop(v, "OK")
      BY <2>2, <3>1 DEF TurnBehind
    <3>3. CASE w.finishing /\ Open(w)
      <4>1. v = EndDocument(w) /\ IsOpen(w.stream)
        BY <3>1, <3>3 DEF Open, IsOpen
      <4>2. Sound(v, before, held, clean) /\ (Runs(v) => ~IsOpen(v.stream))
        BY <1>4, <4>1, EndDocumentSound
      <4> QED BY <3>2, <4>2, StopSound
    <3>4. CASE ~(w.finishing /\ Open(w))
      <4>1. v = w /\ (w.finishing => ~IsOpen(w.stream))
        BY <3>1, <3>4 DEF Open, IsOpen
      <4> QED BY <1>4, <3>2, <4>1, StopSound
    <3> QED BY <3>3, <3>4
  <2>3. CASE n.status = "OK" /\ n.type # "EOF"
    <3>1. TurnBehind(w, n) = OnToken(w, n)
      BY <2>3 DEF TurnBehind
    <3>2. n.type \in TokenTypes
      BY <1>2, <2>3 DEF Answered, Scanned
    <3> QED BY <1>4, <2>3, <3>1, <3>2, OnTokenSound
  <2> QED BY <2>1, <2>2, <2>3
<1> QED BY <1>5, <1>6

-----------------------------------------------------------------------------
(* A run that finishes finishes to its end.                                *)

Finishes(r, f) == "finishing" \in DOMAIN r /\ r.finishing = f

LEMMA StepsKeepFinishing ==
  ASSUME NEW f, NEW r, Finishes(r, f)
  PROVE  /\ \A why : Finishes(Stop(r, why), f)
         /\ \A s : Finishes(Holding(r, s), f)
         /\ \A e, s : Finishes(Tell(r, e, s), f)
<1>1. \A why : Finishes(Stop(r, why), f)
  BY DEF Finishes, Stop
<1>2. \A s : Finishes(Holding(r, s), f)
  BY DEF Finishes, Holding
<1>3. ASSUME NEW e, NEW s PROVE Finishes(Tell(r, e, s), f)
  <2>1. Tell(r, e, s) \in {r, Stop(r, "OOM"), [r EXCEPT !.memory = @ - 1, !.queue = Push(@, e), !.stream = s]}
    BY DEF Tell
  <2>2. Finishes([r EXCEPT !.memory = @ - 1, !.queue = Push(@, e), !.stream = s], f)
    BY DEF Finishes
  <2> QED BY <1>1, <2>1, <2>2
<1> QED BY <1>1, <1>2, <1>3

LEMMA EventsKeepFinishing ==
  ASSUME NEW f, NEW r, Finishes(r, f)
  PROVE  /\ Finishes(StartDocument(r), f) /\ Finishes(EndDocument(r), f)
         /\ Finishes(Ensured(r), f) /\ Finishes(NextDocument(r), f)
         /\ \A type, value : Finishes(TellNode(r, type, value), f)
         /\ \A n : Finishes(TellAlias(r, n), f)
         /\ \A c : Finishes(Container(r, c), f) /\ Finishes(ContainerEnd(r, c), f)
<1>1. /\ \A w : Finishes(w, f) => Finishes(StartDocument(w), f)
      /\ \A w : Finishes(w, f) => Finishes(EndDocument(w), f)
  BY StepsKeepFinishing DEF StartDocument, EndDocument
<1>2. Finishes(Ensured(r), f) /\ Finishes(NextDocument(r), f)
  BY <1>1 DEF Ensured, NextDocument
<1>3. \A type, value : Finishes(TellNode(r, type, value), f)
  BY StepsKeepFinishing DEF TellNode
<1>4. ASSUME NEW s, NEW e, NEW a PROVE Finishes(Tell(Holding(r, s), e, a), f)
  BY StepsKeepFinishing
<1>5. ASSUME NEW s, NEW why PROVE Finishes(Stop(Holding(r, s), why), f)
  BY StepsKeepFinishing
<1>6. ASSUME NEW s, NEW type, NEW value PROVE Finishes(TellNode(Holding(r, s), type, value), f)
  BY StepsKeepFinishing DEF TellNode
<1>7. ASSUME NEW n PROVE Finishes(TellAlias(r, n), f)
  <2>1. PICK s : s = [r.stream EXCEPT !.aliases = @ + 1]
    OBVIOUS
  <2>2. PICK a : a = [s EXCEPT !.tag = NoName]
    OBVIOUS
  <2>3. \/ TellAlias(r, n) = Stop(r, "BAD_TOKEN") \/ TellAlias(r, n) = Stop(r, "LIMIT")
        \/ TellAlias(r, n) = Tell(Holding(r, s), Event("ALIAS", n.value, NoName, NoName), a)
    BY <2>1, <2>2 DEF TellAlias
  <2> QED BY <1>4, <2>3, StepsKeepFinishing
<1>8. ASSUME NEW c PROVE Finishes(Container(r, c), f)
  <2>1. PICK s : s = [r.stream EXCEPT !.depth = @ + 1]
    OBVIOUS
  <2>2. Container(r, c) \in {Stop(Holding(r, s), "DEPTH"), TellNode(Holding(r, s), Opening[c], <<>>)}
    BY <2>1 DEF Container
  <2> QED BY <1>5, <1>6, <2>2
<1>9. ASSUME NEW c PROVE Finishes(ContainerEnd(r, c), f)
  <2>1. PICK s : s = [r.stream EXCEPT !.depth = IF @ = 0 THEN 0 ELSE @ - 1]
    OBVIOUS
  <2>2. ContainerEnd(r, c) = Tell(Holding(r, s), Bare(Closing[c]), s)
    BY <2>1 DEF ContainerEnd
  <2> QED BY <1>4, <2>2
<1> QED BY <1>1, <1>2, <1>3, <1>7, <1>8, <1>9

LEMMA NamesKeepFinishing ==
  ASSUME NEW f, NEW r, Finishes(r, f), NEW n
  PROVE  /\ Finishes(Behind(r, n), f)
         /\ Finishes(Anchor(r, n), f) /\ Finishes(Tag(r, n), f) /\ Finishes(Alias(r, n), f)
<1>1. \A w, m : Finishes(w, f) => Finishes(Behind(w, m), f)
  BY StepsKeepFinishing DEF Behind
<1>2. ASSUME NEW w, Finishes(w, f), NEW m, NEW onWait
      PROVE  Finishes(NameOf(w, m, onWait), f)
  <2>1. NameOf(w, m, onWait) \in {w, Stop(w, onWait), Stop(w, m.status), Stop(w, "BAD_TOKEN")}
    BY DEF NameOf
  <2> QED BY <1>2, <2>1, StepsKeepFinishing
<1>3. ASSUME NEW w, Finishes(w, f), NEW name
      PROVE  Finishes(WithAnchor(w, name), f) /\ Finishes(WithTag(w, name), f)
  BY <1>3, StepsKeepFinishing DEF WithAnchor, WithTag
<1>4. Finishes(Anchor(r, n), f)
  BY <1>2, <1>3 DEF Anchor
<1>5. Finishes(Tag(r, n), f)
  <2>1. Finishes(LongTag(r, Scan(r)), f)
    BY <1>1, <1>2, <1>3 DEF LongTag
  <2>2. Finishes(WithTag(NameOf(r, n, "OK"), <<"!">> \o n.value), f)
    BY <1>2, <1>3
  <2>3. Tag(r, n) = LongTag(r, Scan(r)) \/ Tag(r, n) = WithTag(NameOf(r, n, "OK"), <<"!">> \o n.value)
    BY DEF Tag
  <2> QED BY <2>1, <2>2, <2>3
<1>6. Finishes(Alias(r, n), f)
  <2>1. PICK s : s = [r.stream EXCEPT !.alias = TRUE]
    OBVIOUS
  <2>2. \/ Alias(r, n) = Stop(Holding(r, s), "OK")
        \/ Alias(r, n) = Stop(r, n.status)
        \/ Alias(r, n) = Stop(TellAlias(Ensured(r), n), IF r.finishing THEN "RUNS" ELSE "OK")
    BY <2>1 DEF Alias
  <2>3. Finishes(Holding(r, s), f) /\ Finishes(TellAlias(Ensured(r), n), f)
    BY StepsKeepFinishing, EventsKeepFinishing
  <2> QED BY <2>2, <2>3, StepsKeepFinishing
<1> QED BY <1>1, <1>4, <1>5, <1>6

LEMMA TurnKeepsFinishing ==
  ASSUME NEW f, NEW r, Finishes(r, f), IsStream(r.stream), NEW held, Framed(r, held)
  PROVE  Finishes(Turn(r), f)
<1>1. ASSUME NEW w, Finishes(w, f), NEW c PROVE Finishes(OnIndicator(w, c), f)
  <2>1. Finishes(Behind(w, Scan(w)), f)
    BY <1>1, NamesKeepFinishing
  <2>2. c \in {<<"&">>, <<"!">>, <<"*">>} => Finishes(NameBehind(w, Scan(w), c), f)
    BY <2>1, NamesKeepFinishing DEF NameBehind
  <2>3. \/ OnIndicator(w, c) = w
        \/ OnIndicator(w, c) = Container(w, c) \/ OnIndicator(w, c) = ContainerEnd(w, c)
        \/ c \in {<<"&">>, <<"!">>, <<"*">>} /\ OnIndicator(w, c) = NameBehind(w, Scan(w), c)
        \/ OnIndicator(w, c) = Tell(w, Event("INDICATOR", c, NoName, NoName), w.stream)
    BY DEF OnIndicator
  <2> QED BY <1>1, <2>2, <2>3, EventsKeepFinishing, StepsKeepFinishing
<1>2. ASSUME NEW w, Finishes(w, f), NEW n, n.type \in TokenTypes, n.type # "EOF", w.stream.alias \in BOOLEAN
      PROVE  Finishes(OnToken(w, n), f)
  <2>1. PICK s : s = [w.stream EXCEPT !.alias = FALSE]
    OBVIOUS
  <2>2. PICK u : u = Ensured(Holding(w, s))
    OBVIOUS
  <2>3. PICK v : v = Ensured(w)
    OBVIOUS
  <2>4. Finishes(u, f) /\ Finishes(v, f)
    BY <1>2, <2>2, <2>3, StepsKeepFinishing, EventsKeepFinishing
  <2>5. \/ OnToken(w, n) = w \/ OnToken(w, n) = Stop(w, "BAD_TOKEN") \/ OnToken(w, n) = TellAlias(u, n)
        \/ OnToken(w, n) = NextDocument(w) \/ OnToken(w, n) = EndDocument(v)
        \/ OnToken(w, n) = Tell(w, Event(n.type, n.value, NoName, NoName), w.stream)
        \/ OnToken(w, n) = OnIndicator(v, n.value)
        \/ OnToken(w, n) = TellNode(v, "SCALAR", n.value)
    BY <1>2, <2>1, <2>2, <2>3 DEF OnToken, TokenTypes
  <2> QED BY <1>1, <1>2, <2>4, <2>5, EventsKeepFinishing, StepsKeepFinishing
<1>3. PICK n : n = Scan(r)
  OBVIOUS
<1>4. n.status = "OK" => n.type \in TokenTypes
  BY <1>3, ScanAnswers DEF Answered, Scanned
<1>5. PICK w : w = Behind(r, n)
  OBVIOUS
<1>6. Finishes(w, f)
  BY <1>5, NamesKeepFinishing
<1>7. w.stream.alias \in BOOLEAN
  <2>1. PICK s : s = [r.stream EXCEPT !.scanner = n.scanner]
    OBVIOUS
  <2>2. s.alias = r.stream.alias /\ s.alias \in BOOLEAN
    BY <2>1 DEF IsStream
  <2>3. w = Holding(r, s)
    BY <1>5, <2>1 DEF Behind
  <2>4. w.stream = s \/ w = r
    BY <2>3 DEF Holding, Framed
  <2> QED BY <2>2, <2>4
<1>8. PICK v : v = IF w.finishing /\ Open(w) THEN EndDocument(w) ELSE w
  OBVIOUS
<1>9. Finishes(v, f)
  BY <1>6, <1>8, EventsKeepFinishing
<1>10. \/ TurnBehind(w, n) = Stop(w, "OK") \/ TurnBehind(w, n) = Stop(w, n.status)
       \/ TurnBehind(w, n) = Stop(v, "OK")
       \/ n.status = "OK" /\ n.type # "EOF" /\ TurnBehind(w, n) = OnToken(w, n)
  BY <1>8 DEF TurnBehind
<1>11. Finishes(TurnBehind(w, n), f)
  BY <1>2, <1>4, <1>6, <1>7, <1>9, <1>10, StepsKeepFinishing
<1> QED BY <1>3, <1>5, <1>11 DEF Turn, TurnFrom

\* The turns of the loop, up to any bound.
TurnsOf(f, r, n) == f = [k \in 0..n |-> IF k = 0 THEN r ELSE Turn(f[k - 1])]
LEMMA TurnsExist ==
  ASSUME NEW r, NEW n \in Nat
  PROVE  \E f : TurnsOf(f, r, n)
<1> DEFINE Bounds == {m \in Nat : \E f : TurnsOf(f, r, m)}
<1>1. 0 \in Bounds
  <2>1. PICK f : f = [k \in 0..0 |-> r]
    OBVIOUS
  <2>2. f = [k \in 0..0 |-> IF k = 0 THEN r ELSE Turn(f[k - 1])]
    BY <2>1
  <2> QED BY <2>2 DEF TurnsOf
<1>2. ASSUME NEW m \in Nat, m \in Bounds PROVE m + 1 \in Bounds
  <2>1. PICK f : TurnsOf(f, r, m)
    BY <1>2
  <2>2. PICK g : g = [k \in 0..(m + 1) |-> IF k = 0 THEN r ELSE Turn(f[k - 1])]
    OBVIOUS
  <2>3. \A k \in 0..m : g[k] = f[k]
    BY <2>1, <2>2 DEF TurnsOf
  <2>4. \A k \in 0..(m + 1) : k # 0 => k - 1 \in 0..m
    OBVIOUS
  <2>5. ASSUME NEW k \in 0..(m + 1)
        PROVE  g[k] = IF k = 0 THEN r ELSE Turn(g[k - 1])
    BY <2>2, <2>3, <2>4
  <2>6. DOMAIN g = 0..(m + 1)
    BY <2>2
  <2>7. g = [k \in 0..(m + 1) |-> IF k = 0 THEN r ELSE Turn(g[k - 1])]
    BY <2>2, <2>5
  <2>8. m + 1 \in Nat
    OBVIOUS
  <2> QED BY <2>7, <2>8 DEF TurnsOf
<1> HIDE DEF Bounds
<1>3. n \in Bounds
  BY <1>1, <1>2, NatSetInduction
<1> QED BY <1>3 DEF Bounds

LEMMA DrainSound ==
  ASSUME NEW E, NEW before \in Seq(E), NEW r, NEW held \in Seq(E), NEW clean \in BOOLEAN,
         Sound(r, before, held, clean)
  PROVE  Sound(Drain(r), before, held, clean) /\ Drain(r).finishing = r.finishing
<1>1. PICK n \in Nat : n = MaxTotal + 1
  BY ReaderAssumption
<1>2. PICK after : after = CHOOSE f : TurnsOf(f, r, n)
  OBVIOUS
<1>3. TurnsOf(after, r, n)
  BY <1>2, TurnsExist
<1>4. Drain(r) = after[n]
  BY <1>1, <1>2 DEF Drain, TurnsOf
<1> DEFINE f == r.finishing
           Well == {k \in Nat : k <= n => Sound(after[k], before, held, clean) /\ Finishes(after[k], f)}
<1>5. 0 \in Well
  <2>1. after[0] = r
    BY <1>3 DEF TurnsOf
  <2>2. Finishes(r, f)
    BY DEF Finishes, Sound, Framed
  <2> QED BY <2>1, <2>2
<1>6. ASSUME NEW k \in Nat, k \in Well PROVE k + 1 \in Well
  <2>1. CASE k + 1 <= n
    <3>1. PICK m : m = k + 1 /\ m \in 0..n /\ m # 0 /\ m - 1 = k /\ k <= n
      BY <2>1
    <3>2. after[m] = Turn(after[k])
      BY <1>3, <3>1 DEF TurnsOf
    <3>3. Sound(after[k], before, held, clean) /\ Finishes(after[k], f)
      BY <1>6, <3>1
    <3>4. Sound(after[m], before, held, clean)
      BY <3>2, <3>3, TurnSound
    <3>5. Finishes(after[m], f)
      BY <3>2, <3>3, Running, TurnKeepsFinishing
    <3> QED BY <3>1, <3>4, <3>5
  <2>2. CASE ~(k + 1 <= n)
    BY <2>2
  <2> QED BY <2>1, <2>2
<1> HIDE DEF Well
<1>7. n \in Well
  BY <1>5, <1>6, NatSetInduction
<1> QED BY <1>4, <1>7 DEF Well, Finishes

-----------------------------------------------------------------------------
(* The calls.                                                              *)

\* What a call finds: the events that wait in q, after those before.
Ready(s, q, before, clean) ==
    IsStream(s) /\ RingOK(q) /\ Agrees(Heard(before \o Contents(q)), s, clean)

LEMMA StartSound ==
  ASSUME NEW s, NEW q, NEW before, NEW clean \in BOOLEAN, Ready(s, q, before, clean),
         NEW supply, supply.events \in Nat, NEW finishing \in BOOLEAN, finishing => s.scanner.finished
  PROVE  LET r == Start(s, q, finishing, supply)
         IN  Sound(r, before, Contents(q), clean) /\ Runs(r) /\ r.finishing = finishing
<1>1. PICK r : r = Start(s, q, finishing, supply)
  OBVIOUS
<1>2. /\ DOMAIN r = {"stream", "queue", "status", "finishing", "memory", "forgets"}
      /\ r.stream = s /\ r.queue = q /\ r.status = "RUNS" /\ r.finishing = finishing
      /\ r.memory = supply.events
  BY <1>1 DEF Start
<1>3. Extends(Contents(q), Contents(q))
  <2>1. PICK c : c = Contents(q) /\ Len(c) \in Nat
    BY ContentsAre DEF Ready, RingOK
  <2>2. Extends(c, c)
    BY <2>1 DEF Extends
  <2> QED BY <2>1, <2>2
<1>4. Framed(r, Contents(q))
  BY <1>2, <1>3 DEF Framed, Ready
<1>5. Agrees(HeardOf(r, before), r.stream, clean /\ r.status # "OOM")
  <2>1. Agrees(HeardOf(r, before), r.stream, clean)
    BY <1>2 DEF HeardOf, Ready
  <2> QED BY <1>2, <2>1 DEF Agrees
<1>6. Sound(r, before, Contents(q), clean)
  BY <1>2, <1>4, <1>5 DEF Sound
<1> QED BY <1>1, <1>2, <1>6 DEF Runs

\* A stream that has counted bytes, and one that has handed them to the scanner.
LEMMA ReadyAlike ==
  ASSUME NEW s, NEW q, NEW before, NEW clean \in BOOLEAN, Ready(s, q, before, clean),
         NEW a, Alike(s, a)
  PROVE  Ready(a, q, before, clean)
BY DEF Ready, Alike, Agrees

LEMMA FeedSound ==
  ASSUME NEW E, NEW before \in Seq(E), NEW s, NEW q, Contents(q) \in Seq(E), NEW clean \in BOOLEAN,
         Ready(s, q, before, clean), NEW supply, supply.events \in Nat, NEW bytes
  PROVE  Sound(StreamFeed(s, q, bytes, supply), before, Contents(q), clean)
<1>1. PICK t : t = s.total + Len(bytes)
  OBVIOUS
<1>2. PICK counted : counted = [s EXCEPT !.total = t]
  OBVIOUS
<1>3. PICK n : n = ScannerFeed(s.scanner, bytes)
  OBVIOUS
<1>4. PICK holding : holding = [counted EXCEPT !.scanner = n]
  OBVIOUS
<1>5. Alike(s, counted) /\ counted.scanner = s.scanner
  BY <1>2 DEF Alike, Ready, IsStream, IsOpen
<1>6. Alike(s, holding)
  <2>1. SameScanner(counted.scanner, n)
    BY <1>3, <1>5, FeedSame DEF Ready, IsStream
  <2>2. IsStream(counted) /\ \A m : SameScanner(counted.scanner, m) => Alike(counted, [counted EXCEPT !.scanner = m])
    BY <1>5, Likes DEF Alike
  <2>3. Alike(counted, holding)
    BY <1>4, <2>1, <2>2
  <2> QED BY <1>5, <2>3 DEF Alike
<1>7. \/ StreamFeed(s, q, bytes, supply) = Stop(Start(s, q, FALSE, supply), "LIMIT")
      \/ StreamFeed(s, q, bytes, supply) = Stop(Start(holding, q, FALSE, supply), "OOM")
      \/ StreamFeed(s, q, bytes, supply) = Drain(Start(holding, q, FALSE, supply))
  <2>1. [s EXCEPT !.total = @ + Len(bytes)] = counted
    BY <1>1, <1>2
  <2>2. [counted EXCEPT !.scanner = ScannerFeed(@, bytes)] = holding
    BY <1>3, <1>4, <1>5
  <2>3. StreamFeed(s, q, bytes, supply) =
          CASE counted.total > MaxTotal -> Stop(Start(s, q, FALSE, supply), "LIMIT")
            [] counted.total <= MaxTotal /\ FeedFails(s.scanner, bytes) ->
                 Stop(Start(holding, q, FALSE, supply), "OOM")
            [] OTHER -> Drain(Start(holding, q, FALSE, supply))
    BY <2>1, <2>2 DEF StreamFeed
  <2> QED BY <2>3
<1>8. PICK u : u = Start(s, q, FALSE, supply)
  OBVIOUS
<1>9. Sound(u, before, Contents(q), clean)
  BY <1>8, StartSound
<1>10. PICK v : v = Start(holding, q, FALSE, supply)
  OBVIOUS
<1>11. Sound(v, before, Contents(q), clean)
  BY <1>6, <1>10, ReadyAlike, StartSound
<1>12. Sound(Stop(u, "LIMIT"), before, Contents(q), clean)
  BY <1>9, StopSound
<1>13. Sound(Stop(v, "OOM"), before, Contents(q), clean)
  BY <1>11, StopSound
<1>14. Sound(Drain(v), before, Contents(q), clean)
  BY <1>11, DrainSound
<1> QED BY <1>7, <1>8, <1>10, <1>12, <1>13, <1>14

LEMMA FinishSound ==
  ASSUME NEW E, NEW before \in Seq(E), NEW s, NEW q, Contents(q) \in Seq(E), NEW clean \in BOOLEAN,
         Ready(s, q, before, clean), NEW supply, supply.events \in Nat
  PROVE  /\ Sound(StreamFinish(s, q, supply), before, Contents(q), clean)
         /\ StreamFinish(s, q, supply).finishing
<1>1. PICK n : n = ScannerFinish(s.scanner)
  OBVIOUS
<1>2. IsScanner(n) /\ n.finished = TRUE
  BY <1>1, FinishSame DEF Ready, IsStream
<1>3. PICK a : a = [s EXCEPT !.scanner = n]
  OBVIOUS
<1>4. /\ IsStream(a) /\ a.scanner = n /\ IsOpen(a) = IsOpen(s)
      /\ a.depth = s.depth /\ a.aliases = s.aliases
  BY <1>2, <1>3 DEF Ready, IsStream, IsOpen
<1>5. Ready(a, q, before, clean)
  BY <1>4 DEF Ready, Agrees
<1>6. PICK r : r = Start(a, q, TRUE, supply)
  OBVIOUS
<1>7. Sound(r, before, Contents(q), clean) /\ r.finishing = TRUE
  BY <1>2, <1>4, <1>5, <1>6, StartSound
<1>8. StreamFinish(s, q, supply) = Drain(r)
  BY <1>1, <1>3, <1>6 DEF StreamFinish
<1> QED BY <1>7, <1>8, DrainSound

-----------------------------------------------------------------------------
(* The reader.                                                             *)

\* A sequence is one of the elements it has.
Elements(s) == {s[i] : i \in 1..Len(s)}
LEMMA SeqOfElements ==
  ASSUME NEW S, NEW s \in Seq(S)
  PROVE  s \in Seq(Elements(s))
<1>1. Len(s) \in Nat /\ s \in [1..Len(s) -> S]
  BY LenProperties
<1>2. s \in [1..Len(s) -> Elements(s)]
  BY <1>1 DEF Elements
<1> QED BY <1>1, <1>2, TupleIsSeq

\* The inductive invariant: the stream agrees with what is heard of it, and its
\* last document is closed behind finish.
Inv ==
    /\ taken \in Seq(Elements(taken)) /\ finished \in BOOLEAN
    /\ Ready(stream, queue, taken, "memory" \notin blame)
    /\ finished /\ "late" \notin blame => ~IsOpen(stream)

\* The set of which the events taken and waiting are.
LEMMA Carrier ==
  ASSUME Inv
  PROVE  \E E : taken \in Seq(E) /\ Contents(queue) \in Seq(E)
<1>1. PICK E : E = Elements(taken) \union Events(queue)
  OBVIOUS
<1>2. Contents(queue) \in Seq(Events(queue))
  BY ContentsAre DEF Inv, Ready
<1>3. taken \in Seq(E) /\ Contents(queue) \in Seq(E)
  BY <1>1, <1>2 DEF Inv
<1> QED BY <1>3

LEMMA SuppliesAre ==
  ASSUME NEW supply \in Supplies
  PROVE  supply.events \in Nat
<1>1. Enough \in Nat /\ Shortages \subseteq Nat
  BY ReaderAssumption
<1>2. supply = Plenty \/ supply = [Plenty EXCEPT !.forgets = TRUE]
      \/ \E n \in Shortages : supply = [Plenty EXCEPT !.events = n]
  BY DEF Supplies
<1> QED BY <1>1, <1>2 DEF Plenty

\* A run that is sound leaves a reader that is.
LEMMA SoundReady ==
  ASSUME NEW r, NEW before, NEW held, NEW clean \in BOOLEAN, Sound(r, before, held, clean),
         NEW after \in BOOLEAN, after => clean /\ r.status # "OOM"
  PROVE  Ready(r.stream, r.queue, before, after) /\ Extends(Contents(r.queue), held)
<1>1. Framed(r, held) /\ Agrees(Heard(before \o Contents(r.queue)), r.stream, clean /\ r.status # "OOM")
  BY DEF Sound, HeardOf
<1>2. Agrees(Heard(before \o Contents(r.queue)), r.stream, after)
  BY <1>1 DEF Agrees
<1> QED BY <1>1, <1>2 DEF Framed, Ready

LEMMA InitInv == Init => Inv
<1> SUFFICES ASSUME Init PROVE Inv
  OBVIOUS
<1>1. RingOK(EmptyQueue)
  BY DEF RingOK, EmptyQueue
<1>2. Contents(EmptyQueue) = <<>>
  <2>1. Len(Contents(EmptyQueue)) = 0 /\ Contents(EmptyQueue) \in Seq(Events(EmptyQueue))
    BY <1>1, ContentsAre DEF EmptyQueue
  <2> QED BY <2>1, EmptySeq
<1>3. PICK e : e = Bare("STREAM_START") /\ queue = Push(EmptyQueue, e) /\ e.type = "STREAM_START"
  BY EventTypes DEF Init
<1>4. taken = <<>> /\ <<>> \in Seq({}) /\ <<>> \o <<>> = <<>>
  BY DEF Init
<1>5. /\ RingOK(queue)
      /\ Heard(taken \o Contents(queue)) = Hear(Heard(taken \o Contents(EmptyQueue)), e)
  BY <1>1, <1>3, <1>4, HeardMore
<1>6. Heard(taken \o Contents(queue)) = Hear(Unheard, e)
  BY <1>2, <1>4, <1>5, HeardNothing
<1>7. IsStream(NewStream) /\ ~IsOpen(NewStream)
  BY DEF IsStream, IsScanner, NewStream, NewScanner, IsOpen
<1>8. Agrees(Unheard, NewStream, TRUE)
  BY <1>7, ReaderAssumption DEF Agrees, Unheard, NewStream
<1>9. Agrees(Hear(Unheard, e), NewStream, TRUE)
  BY <1>3, <1>8, HearTypes, HearQuiet DEF Quiet
<1>10. Ready(stream, queue, taken, "memory" \notin blame)
  BY <1>5, <1>6, <1>7, <1>9 DEF Ready, Init, Agrees
<1>11. taken \in Seq(Elements(taken))
  BY <1>4, SeqOfElements
<1> QED BY <1>7, <1>10, <1>11 DEF Inv, Init

\* A step keeps the invariant, and leaves the events that wait in their order.
LEMMA FeedStep ==
  ASSUME Inv, NEW n, NEW supply \in Supplies, Feed(n, supply)
  PROVE  Inv' /\ UNCHANGED taken /\ Extends(Contents(queue)', Contents(queue))
<1>1. PICK E : taken \in Seq(E) /\ Contents(queue) \in Seq(E)
  BY Carrier
<1>2. PICK r : /\ r = StreamFeed(stream, queue, SubSeq(Bytes, fed + 1, fed + n), supply)
               /\ stream' = r.stream /\ queue' = r.queue /\ UNCHANGED <<finished, taken>>
               /\ \E cut : Blamed(r.status = "OOM" \/ supply.forgets, cut)
  BY DEF Feed
<1>3. PICK clean \in BOOLEAN : clean = ("memory" \notin blame)
  OBVIOUS
<1>4. Ready(stream, queue, taken, clean) /\ supply.events \in Nat
  BY <1>3, SuppliesAre DEF Inv
<1>5. Sound(r, taken, Contents(queue), clean)
  BY <1>1, <1>2, <1>4, FeedSound
<1>6. PICK after \in BOOLEAN : after = ("memory" \notin blame')
  OBVIOUS
<1>7. after => clean /\ r.status # "OOM"
  BY <1>2, <1>3, <1>6 DEF Blamed
<1>8. Ready(r.stream, r.queue, taken, after) /\ Extends(Contents(r.queue), Contents(queue))
  BY <1>5, <1>7, SoundReady
<1>9. finished' => "late" \in blame'
  BY <1>2 DEF Blamed
<1>10. Ready(stream', queue', taken', "memory" \notin blame')
  BY <1>2, <1>6, <1>8
<1>11. taken' \in Seq(Elements(taken')) /\ finished' \in BOOLEAN
  BY <1>2 DEF Inv
<1> QED BY <1>2, <1>8, <1>9, <1>10, <1>11 DEF Inv

LEMMA FinishStep ==
  ASSUME Inv, NEW supply \in Supplies, Finish(supply)
  PROVE  Inv' /\ UNCHANGED taken /\ Extends(Contents(queue)', Contents(queue))
<1>1. PICK E : taken \in Seq(E) /\ Contents(queue) \in Seq(E)
  BY Carrier
<1>2. PICK e : e = Bare("STREAM_END") /\ e.type = "STREAM_END"
  BY EventTypes
<1>3. PICK r : /\ r = StreamFinish(stream, queue, supply) /\ ~finished
               /\ stream' = r.stream /\ UNCHANGED taken
               /\ queue' = (IF r.status = "OK" /\ r.memory > 0 THEN Push(r.queue, e) ELSE r.queue)
               /\ finished' = (r.status = "OK")
               /\ status' = (IF r.status = "OK" /\ ~(r.memory > 0) THEN "OOM" ELSE r.status)
               /\ \E cut : Blamed(status' = "OOM" \/ supply.forgets, cut)
  BY <1>2 DEF Finish
<1>4. PICK clean \in BOOLEAN : clean = ("memory" \notin blame)
  OBVIOUS
<1>5. Ready(stream, queue, taken, clean) /\ supply.events \in Nat
  BY <1>4, SuppliesAre DEF Inv
<1>6. Sound(r, taken, Contents(queue), clean) /\ r.finishing
  BY <1>1, <1>3, <1>5, FinishSound
<1>7. PICK after \in BOOLEAN : after = ("memory" \notin blame')
  OBVIOUS
<1>8. after => clean /\ r.status # "OOM"
  BY <1>3, <1>4, <1>7 DEF Blamed
<1>9. Ready(r.stream, r.queue, taken, after) /\ Extends(Contents(r.queue), Contents(queue))
  BY <1>6, <1>8, SoundReady
<1>10. r.status = "OK" => ~IsOpen(r.stream)
  BY <1>6 DEF Sound
<1>11. Ready(r.stream, queue', taken, after) /\ Extends(Contents(queue'), Contents(queue))
  <2>1. CASE r.status = "OK" /\ r.memory > 0
    <3>1. PICK q : q = r.queue /\ RingOK(q) /\ queue' = Push(q, e)
      BY <1>3, <1>9, <2>1 DEF Ready
    <3>2. /\ RingOK(Push(q, e)) /\ Contents(Push(q, e)) = Append(Contents(q), e)
          /\ Heard(taken \o Contents(q)) \in Hearings
          /\ Heard(taken \o Contents(Push(q, e))) = Hear(Heard(taken \o Contents(q)), e)
      BY <1>1, <3>1, HeardMore
    <3>3. PICK h \in Hearings : h = Heard(taken \o Contents(q)) /\ Agrees(h, r.stream, after)
      BY <1>9, <3>1, <3>2 DEF Ready
    <3>4. Agrees(Hear(h, e), r.stream, after)
      BY <1>2, <1>10, <2>1, <3>3, HearStreamEnd
    <3>5. Ready(r.stream, queue', taken, after)
      BY <1>9, <3>1, <3>2, <3>3, <3>4 DEF Ready
    <3>6. Extends(Append(Contents(q), e), Contents(queue))
      BY <1>1, <1>9, <3>1, ExtendsMore
    <3> QED BY <3>1, <3>2, <3>5, <3>6
  <2>2. CASE ~(r.status = "OK" /\ r.memory > 0)
    <3>1. queue' = r.queue
      BY <1>3, <2>2
    <3> QED BY <1>9, <3>1
  <2> QED BY <2>1, <2>2
<1>12. Ready(stream', queue', taken', "memory" \notin blame')
  BY <1>3, <1>7, <1>11
<1>13. taken' \in Seq(Elements(taken')) /\ finished' \in BOOLEAN
  BY <1>3 DEF Inv
<1>14. finished' => ~IsOpen(stream')
  BY <1>3, <1>10
<1> QED BY <1>3, <1>11, <1>12, <1>13, <1>14 DEF Inv

LEMMA FinishAgainStep ==
  ASSUME Inv, FinishAgain
  PROVE  Inv' /\ UNCHANGED <<queue, taken>>
<1>1. UNCHANGED <<stream, queue, taken, finished>> /\ "late" \in blame'
      /\ ("memory" \in blame => "memory" \in blame')
  BY DEF FinishAgain, Blamed
<1>2. Ready(stream, queue, taken, "memory" \notin blame')
  BY <1>1 DEF Inv, Ready, Agrees
<1>3. Ready(stream', queue', taken', "memory" \notin blame')
  BY <1>1, <1>2
<1>4. taken' \in Seq(Elements(taken')) /\ finished' \in BOOLEAN
  BY <1>1 DEF Inv
<1> QED BY <1>1, <1>3, <1>4 DEF Inv

LEMMA TakeStep ==
  ASSUME Inv, Take
  PROVE  /\ Inv' /\ Contents(queue) # <<>>
         /\ Contents(queue)' = Tail(Contents(queue)) /\ taken' = Append(taken, Head(Contents(queue)))
<1>1. PICK E : taken \in Seq(E) /\ Contents(queue) \in Seq(E)
  BY Carrier
<1>2. PICK q : q = queue /\ RingOK(q) /\ q.count > 0 /\ queue' = Pop(q) /\ taken' = Append(taken, First(q))
  BY DEF Inv, Ready, Take
<1>3. PICK c : c = Contents(q)
  OBVIOUS
<1>4. RingOK(Pop(q)) /\ c # <<>> /\ First(q) = Head(c) /\ Contents(Pop(q)) = Tail(c)
  BY <1>2, <1>3, PopTakesFirst
<1>5. c \in Seq(E) /\ Head(c) \in E /\ Tail(c) \in Seq(E) /\ c = <<Head(c)>> \o Tail(c)
  <2>1. c \in Seq(E) /\ Head(c) \in E /\ Tail(c) \in Seq(E)
    BY <1>1, <1>2, <1>3, <1>4, HeadTailProperties
  <2> QED BY <1>4, <2>1
<1>6. Append(taken, Head(c)) \o Tail(c) = taken \o c
  <2>1. <<Head(c)>> \in Seq(E) /\ Append(taken, Head(c)) = taken \o <<Head(c)>>
    BY <1>1, <1>5
  <2> QED BY <1>1, <1>5, <2>1, ConcatAssociative
<1>7. Append(taken, Head(c)) \in Seq(Elements(Append(taken, Head(c))))
  <2>1. Append(taken, Head(c)) \in Seq(E)
    BY <1>1, <1>5
  <2> QED BY <2>1, SeqOfElements
<1>8. UNCHANGED <<stream, finished, blame>>
  BY DEF Take
<1>9. Ready(stream, Pop(q), Append(taken, Head(c)), "memory" \notin blame)
  BY <1>2, <1>3, <1>4, <1>6 DEF Ready, Inv
<1>10. Ready(stream', queue', taken', "memory" \notin blame')
  BY <1>2, <1>4, <1>8, <1>9
<1>11. taken' \in Seq(Elements(taken'))
  BY <1>2, <1>4, <1>7
<1> QED BY <1>2, <1>3, <1>4, <1>8, <1>10, <1>11 DEF Inv

LEMMA NextInv ==
  ASSUME Inv, [Next]_vars
  PROVE  Inv' /\ [Fifo!Next]_(Fifo!vars)
<1>1. ASSUME NEW supply \in Supplies, NEW n, Feed(n, supply)
      PROVE  Inv' /\ Fifo!Put
  BY <1>1, FeedStep DEF Fifo!Put, Extends
<1>2. ASSUME NEW supply \in Supplies, Finish(supply)
      PROVE  Inv' /\ Fifo!Put
  BY <1>2, FinishStep DEF Fifo!Put, Extends
<1>3. CASE FinishAgain
  <2>1. Inv' /\ UNCHANGED <<queue, taken>>
    BY <1>3, FinishAgainStep
  <2> QED BY <2>1 DEF Fifo!vars
<1>4. CASE Take
  BY <1>4, TakeStep DEF Fifo!Next, Fifo!Take
<1>5. CASE UNCHANGED vars
  <2>1. Inv'
    BY <1>5 DEF vars, Inv
  <2> QED BY <1>5, <2>1 DEF vars, Fifo!vars
<1> QED BY <1>1, <1>2, <1>3, <1>4, <1>5 DEF Next, Fifo!Next

LEMMA ReaderInvariant == Spec => []Inv
<1>1. Inv /\ [Next]_vars => Inv'
  BY NextInv
<1> QED BY <1>1, InitInv, PTL DEF Spec

\* The reader's ring is a queue: whatever the calls tell and the caller takes,
\* and however often the array grows, each event is taken once, in the order in
\* which it was told (queue_push, queue_pop, queue_reserve).
THEOREM ReaderIsFifo == Spec => QueueIsFifo
<1>1. Init => Fifo!Init
  BY DEF Init, Fifo!Init
<1>2. Inv /\ [Next]_vars => [Fifo!Next]_(Fifo!vars)
  BY NextInv
<1>3. Spec => Fifo!Spec
  BY <1>1, <1>2, ReaderInvariant, PTL DEF Spec, Fifo!Spec
<1> QED BY <1>3 DEF QueueIsFifo

\* For every text, however it is cut, whatever allocation fails and whatever
\* the caller does then: the documents delivered begin and end in turn, every
\* node is inside of one, and the stream ends outside of all
\* (gtext_yaml_stream_feed, _finish and the reader's two flags).
THEOREM DocumentsAreBalanced == Spec => []DocumentsBalanced
<1>1. Inv => DocumentsBalanced
  BY DEF Inv, Ready, Agrees, DocumentsBalanced, Delivered
<1> QED BY <1>1, ReaderInvariant, PTL

\* The caller never hears of more containers inside each other, nor of more
\* aliases, than the limits allow: what stream.c counts is what it tells.
THEOREM LimitsAreKept == Spec => []LimitsHold
<1>1. Inv => LimitsHold
  <2> SUFFICES ASSUME Inv PROVE LimitsHold
    OBVIOUS
  <2>1. PICK h : h = Heard(taken \o Contents(queue))
    OBVIOUS
  <2>2. h \in Hearings
    BY <2>1, HeardMore DEF Inv, Ready
  <2>3. Agrees(h, stream, "memory" \notin blame) /\ stream.aliases \in Nat
    BY <2>1 DEF Inv, Ready, IsStream
  <2>4. ("memory" \notin blame => h.most <= MaxDepth) /\ h.aliases <= MaxAliases
    BY <2>2, <2>3, ReaderAssumption DEF Agrees, Hearings
  <2> QED BY <2>1, <2>4 DEF LimitsHold, Delivered
<1> QED BY <1>1, ReaderInvariant, PTL
=============================================================================
