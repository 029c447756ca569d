-------------------------- MODULE CsvStream_proofs --------------------------
(***************************************************************************)
(* The CSV parser, for every dialect, limit, alphabet and cutting of the   *)
(* input into chunks: what is reported are well-formed records, within the *)
(* limits, and a field held between two calls is the parser's own; the     *)
(* second half shows that they are the records of the text that was fed.   *)
(*                                                                         *)
(* A handler changes a copy t of the stream and ends in one of five ways   *)
(* (Continue, Fails, Refused, Starved, and the ends of a field and of a    *)
(* record, made of these).  The proof has a lemma per ending, which says   *)
(* what t must be for the invariant to hold afterwards, and one per        *)
(* handler, which shows that its t is that.                                *)
(***************************************************************************)
EXTENDS CsvStream, DataLemmas

-----------------------------------------------------------------------------
(* The inductive invariant.                                                *)

Codes  == Bytes \union {Lost}
Modes  == FieldModes \union {"START_OF_RECORD", "START_OF_FIELD", "COMMENT",
                             "ESCAPE_IN_QUOTED", "END"}
ErrorCodes == {"OK", "LIMIT", "TOO_MANY_COLS", "UNEXPECTED_QUOTE", "INVALID",
               "INVALID_ESCAPE", "UNTERMINATED_QUOTE"}
Field  == [buffered : BOOLEAN, buf : Seq(Codes), at : Nat, len : Nat,
           start : Nat \union {NoOffset}, quoted : BOOLEAN]
Stream == [mode : Modes, inRecord : BOOLEAN, fieldCount : Nat, rowCount : Nat,
           line : Nat, total : Nat, recordBytes : Nat, field : Field,
           doubled : BOOLEAN, atBoundary : BOOLEAN, error : ErrorCodes]
Events == [type : {"RECORD_BEGIN", "FIELD", "RECORD_END", "END"},
           row : Nat, col : Nat, data : Seq(Codes)]

\* The bytes a field points to have been fed; p is a position in the chunk.
\* After a backslash that byte, not yet in the field, has been fed as well.
Waiting(t)  == IF t.mode = "ESCAPE_IN_QUOTED" THEN 1 ELSE 0
Typed(t, p) == t \in Stream /\ t.field.at + t.field.len + Waiting(t) <= Base + p

\* The events so far are in order.
Chain(evs) == /\ evs # <<>> => evs[1].type \in {"RECORD_BEGIN", "END"}
              /\ \A i \in 1..(Len(evs) - 1) : Follows(evs[i], evs[i + 1])

\* The last event is the one before the field in progress.
InField(t, evs) ==
    /\ t.inRecord /\ evs # <<>>
    /\ LET e == evs[Len(evs)]
       IN  /\ e.row = t.rowCount
           /\ \/ e.type = "RECORD_BEGIN" /\ t.fieldCount = 0
              \/ e.type = "FIELD" /\ t.fieldCount = e.col + 1
\* The last event is the end of the record before.
BetweenRecords(t, evs) ==
    /\ ~t.inRecord
    /\ evs = <<>> \/ (evs[Len(evs)].type = "RECORD_END" /\ evs[Len(evs)].row < t.rowCount)
\* What the events are to a stream with no error; fall: a field is to begin
\* without a delimiter before it.
Told(t, evs, fall) ==
    /\ Chain(evs)
    /\ CASE t.mode \in {"START_OF_RECORD", "COMMENT"} -> BetweenRecords(t, evs)
         [] t.mode = "START_OF_FIELD" -> InField(t, evs) /\ (fall \/ t.fieldCount > 0)
         [] t.mode = "END"            -> TRUE
         [] OTHER                     -> InField(t, evs)

\* The length of a field in progress.  While it is a pointer, its bytes reach
\* up to the position, and up to the byte before it after a quote or backslash.
First(f) == IF f.start = NoOffset THEN 0 ELSE f.start
Reaches(f, p) == ~f.buffered => p <= First(f) + f.len
Bounded(t, p) ==
    /\ t.mode \in FieldModes \union {"ESCAPE_IN_QUOTED"} => t.fieldCount < MaxCols
    /\ t.mode = "UNQUOTED_FIELD"   => FieldLen(t.field) <= MaxFieldBytes
    /\ t.mode = "QUOTED_FIELD"     => /\ FieldLen(t.field) <= MaxFieldBytes + 1
                                      /\ t.field.quoted /\ Reaches(t.field, p)
    /\ t.mode \in {"QUOTE_IN_QUOTED", "ESCAPE_IN_QUOTED"} =>
         /\ FieldLen(t.field) < MaxFieldBytes
         /\ t.field.quoted /\ Reaches(t.field, p - 1)

\* The events keep the limits.
InLimits(evs) == \A i \in DOMAIN evs : evs[i].type = "FIELD" =>
                    Len(evs[i].data) <= MaxFieldBytes /\ evs[i].col < MaxCols

\* What holds of a stream as long as no call failed.
Good(t, p, evs, fall) == /\ t.error = "OK" => Told(t, evs, fall)
                         /\ InLimits(evs)
                         /\ Bounded(t, p)
Kept(t) == t.mode \in FieldModes =>
             t.field.buffered \/ (t.mode = "UNQUOTED_FIELD" /\ t.field.len = 1)

ControlOK ==
    /\ pc \in {"idle", "loop", "fall"} /\ resumed \in BOOLEAN /\ finished \in BOOLEAN
    /\ chunk \in Seq(Bytes) /\ input \in Seq(Bytes) /\ Len(chunk) <= Len(input)
    /\ offset \in 0..Len(chunk)
    /\ pc = "idle" <=> offset = Len(chunk)
    /\ pc = "idle" => chunk = <<>>
    /\ pc = "fall" => s.mode = "START_OF_FIELD"
    /\ pc # "idle" => ~finished
Inv ==
    /\ ControlOK
    /\ events \in Seq(Events)
    /\ Typed(s, offset)
    /\ aborted = "no" =>
         /\ Good(s, offset, events, pc = "fall")
         /\ pc = "idle" => Kept(s)
         /\ s.mode = "END" /\ s.error = "OK" => finished

-----------------------------------------------------------------------------
(* Unescaping.  FoldLeft is a recursive function on the sets of positions;  *)
(* that there is such a function is shown by induction.                    *)

Halves(S)  == [out : Seq(S), half : BOOLEAN]
NoHalf     == [out |-> <<>>, half |-> FALSE]

LEMMA CollapseByteProperties ==
  ASSUME NEW S, NEW r \in Halves(S), NEW b \in S
  PROVE  /\ CollapseByte(r, b) \in Halves(S)
         /\ Len(CollapseByte(r, b).out) <= Len(r.out) + 1
<1>1. r.out \in Seq(S) /\ r.half \in BOOLEAN /\ Len(r.out) \in Nat
  BY LenProperties DEF Halves
<1>2. Append(r.out, b) \in Seq(S) /\ Len(Append(r.out, b)) = Len(r.out) + 1
  BY <1>1, AppendProperties
<1> QED BY <1>1, <1>2 DEF CollapseByte, Halves

\* The results of collapsing the first bytes, one byte after the other.
LEMMA CollapseSteps ==
  ASSUME NEW S, NEW bytes \in Seq(S)
  PROVE  \E g : /\ g[0] = NoHalf
                /\ \A k \in 1..Len(bytes) : g[k] = CollapseByte(g[k - 1], bytes[k])
                /\ Collapse(bytes) = g[Len(bytes)].out
<1> DEFINE N == Len(bytes)
           Fold(g, n) == g = [T \in SUBSET (1..n) |->
                                IF T = {} THEN NoHalf
                                ELSE CollapseByte(g[T \ {Max(T)}], bytes[Max(T)])]
           Folds == {n \in Nat : \E g : Fold(g, n)}
<1>1. N \in Nat /\ DOMAIN bytes = 1..N
  BY LenProperties
<1>2. Nat \subseteq Folds
  <2>1. 0 \in Folds
    <3>1. SUBSET (1..0) = {{}}
      OBVIOUS
    <3>2. Fold([T \in SUBSET (1..0) |-> NoHalf], 0)
      BY <3>1
    <3> QED BY <3>2
  <2>2. ASSUME NEW n \in Nat, n \in Folds PROVE n + 1 \in Folds
    <3>1. PICK g : Fold(g, n)
      BY <2>2
    <3> HIDE DEF Folds
    <3> DEFINE m == n + 1
               h == [T \in SUBSET (1..m) |->
                       IF m \in T THEN CollapseByte(g[T \ {m}], bytes[m]) ELSE g[T]]
    <3>2. m \in Nat /\ 1..m = (1..n) \union {m}
      OBVIOUS
    <3> HIDE DEF m
    <3>3. ASSUME NEW T \in SUBSET (1..m)
          PROVE  h[T] = IF T = {} THEN NoHalf
                        ELSE CollapseByte(h[T \ {Max(T)}], bytes[Max(T)])
      <4>1. CASE m \in T
        <5>1. Max(T) = m
          BY <3>2, <4>1, MaxIsTop
        <5>2. T \ {m} \in SUBSET (1..m) /\ m \notin T \ {m}
          OBVIOUS
        <5>3. h[T \ {m}] = g[T \ {m}]
          BY <5>2
        <5>4. h[T] = CollapseByte(g[T \ {m}], bytes[m])
          BY <4>1
        <5> QED BY <4>1, <5>1, <5>3, <5>4
      <4>2. CASE m \notin T
        <5>1. T \in SUBSET (1..n) /\ h[T] = g[T]
          BY <3>2, <4>2
        <5>2. T \ {Max(T)} \in SUBSET (1..m) /\ m \notin T \ {Max(T)}
          BY <4>2
        <5>3. h[T \ {Max(T)}] = g[T \ {Max(T)}]
          BY <5>2
        <5>4. g[T] = IF T = {} THEN NoHalf
                     ELSE CollapseByte(g[T \ {Max(T)}], bytes[Max(T)])
          BY <3>1, <5>1
        <5> QED BY <5>1, <5>3, <5>4
      <4> QED BY <4>1, <4>2
    <3>4. Fold(h, m)
      <4> DEFINE e(T) == IF T = {} THEN NoHalf
                         ELSE CollapseByte(h[T \ {Max(T)}], bytes[Max(T)])
      <4>1. h = [T \in SUBSET (1..m) |-> h[T]]
        OBVIOUS
      <4>2. \A T \in SUBSET (1..m) : h[T] = e(T)
        BY <3>3
      <4> HIDE DEF h, e
      <4>3. h = [T \in SUBSET (1..m) |-> e(T)]
        BY <4>1, <4>2
      <4> QED BY <4>3 DEF e
    <3> QED BY <3>2, <3>4 DEF Folds, m
  <2> HIDE DEF Folds
  <2> QED BY <2>1, <2>2, NatSetInduction
<1> DEFINE g == CHOOSE g : Fold(g, N)
<1>3. Fold(g, N)
  <2>1. \E x : Fold(x, N)
    BY <1>1, <1>2
  <2> QED BY <2>1
<1>4. Collapse(bytes) = g[1..N].out
  BY <1>1 DEF Collapse, FoldLeft, MapThenFoldSet, NoHalf
<1> HIDE DEF g
<1> DEFINE steps == [k \in 0..N |-> g[1..k]]
<1>5. steps[0] = NoHalf
  <2>1. 1..0 = {} /\ 0 \in 0..N
    BY <1>1
  <2>2. {} \in SUBSET (1..N)
    OBVIOUS
  <2>3. g[{}] = NoHalf
    BY <1>3, <2>2
  <2> QED BY <2>1, <2>3
<1>6. ASSUME NEW k \in 1..N PROVE steps[k] = CollapseByte(steps[k - 1], bytes[k])
  <2>1. k \in Nat /\ 1..k \in SUBSET (1..N) /\ k \in 1..k /\ k \in 0..N /\ k - 1 \in 0..N
    BY <1>1
  <2>2. Max(1..k) = k
    BY <2>1, MaxIsTop
  <2>3. (1..k) \ {k} = 1..(k - 1) /\ 1..k # {}
    BY <2>1
  <2>4. g[1..k] = CollapseByte(g[(1..k) \ {Max(1..k)}], bytes[Max(1..k)])
    BY <1>3, <2>1, <2>3
  <2>5. steps[k] = g[1..k] /\ steps[k - 1] = g[1..(k - 1)]
    BY <2>1
  <2> HIDE DEF steps
  <2> QED BY <2>2, <2>3, <2>4, <2>5
<1>7. Collapse(bytes) = steps[N].out
  BY <1>1, <1>4
<1> QED BY <1>5, <1>6, <1>7

\* Collapsing makes no field longer.
LEMMA CollapseProperties ==
  ASSUME NEW S, NEW bytes \in Seq(S)
  PROVE  /\ Collapse(bytes) \in Seq(S)
         /\ Len(Collapse(bytes)) <= Len(bytes)
<1>1. PICK g : /\ g[0] = NoHalf
               /\ \A k \in 1..Len(bytes) : g[k] = CollapseByte(g[k - 1], bytes[k])
               /\ Collapse(bytes) = g[Len(bytes)].out
  BY CollapseSteps
<1> DEFINE N == Len(bytes)
           Short == {k \in Nat : k <= N => g[k] \in Halves(S) /\ Len(g[k].out) <= k}
<1>2. N \in Nat
  BY LenProperties
<1>3. 0 \in Short
  <2>1. <<>> \in Seq(S) /\ Len(<<>>) = 0
    BY EmptySeq
  <2>2. g[0].out = <<>> /\ g[0].half = FALSE /\ g[0] = [out |-> g[0].out, half |-> g[0].half]
    BY <1>1 DEF NoHalf
  <2>3. g[0] \in Halves(S)
    BY <2>1, <2>2 DEF Halves
  <2>4. Len(g[0].out) <= 0
    BY <2>1, <2>2
  <2> QED BY <2>3, <2>4
<1>4. ASSUME NEW k \in Nat, k \in Short PROVE k + 1 \in Short
  <2>1. CASE k + 1 <= N
    <3>1. g[k] \in Halves(S) /\ Len(g[k].out) <= k /\ (k + 1) \in 1..N /\ (k + 1) - 1 = k
      BY <1>2, <1>4, <2>1
    <3>2. g[k + 1] = CollapseByte(g[k], bytes[k + 1]) /\ bytes[k + 1] \in S
      BY <1>1, <3>1, ElementOfSeq
    <3>3. g[k + 1] \in Halves(S) /\ Len(g[k + 1].out) <= Len(g[k].out) + 1
      BY <3>1, <3>2, CollapseByteProperties
    <3>4. Len(g[k].out) \in Nat /\ Len(g[k + 1].out) \in Nat
      BY <3>1, <3>3, LenProperties DEF Halves
    <3> QED BY <3>1, <3>3, <3>4
  <2>2. CASE ~(k + 1 <= N)
    BY <2>2
  <2> QED BY <2>1, <2>2
<1>5. N \in Short
  <2> HIDE DEF Short
  <2> QED BY <1>2, <1>3, <1>4, NatSetInduction
<1> QED BY <1>1, <1>2, <1>5 DEF Halves

\* Two quotes become one.
LEMMA CollapseBothQuotes == Len(Collapse(BothQuotes)) = 1
<1>1. /\ BothQuotes \in Seq({"quote"}) /\ Len(BothQuotes) = 2
      /\ BothQuotes[1] = "quote" /\ BothQuotes[2] = "quote"
  BY DEF BothQuotes
<1>2. PICK g : /\ g[0] = NoHalf
               /\ \A k \in 1..2 : g[k] = CollapseByte(g[k - 1], BothQuotes[k])
               /\ Collapse(BothQuotes) = g[2].out
  BY <1>1, CollapseSteps
<1>3. g[1] = CollapseByte(NoHalf, "quote")
  BY <1>1, <1>2
<1>4. g[1] = [out |-> <<"quote">>, half |-> TRUE]
  BY <1>3 DEF CollapseByte, NoHalf
<1>5. g[2] = CollapseByte(g[1], "quote")
  BY <1>1, <1>2
<1>6. g[2] = [out |-> <<"quote">>, half |-> FALSE]
  BY <1>4, <1>5 DEF CollapseByte
<1> QED BY <1>2, <1>6

-----------------------------------------------------------------------------
(* The bytes of a field.                                                   *)

LEMMA ConstantFacts ==
  /\ MaxCols \in Nat \ {0} /\ MaxFieldBytes \in Nat \ {0}
  /\ KeepInput \in BOOLEAN /\ AllowUnquotedQuotes \in BOOLEAN
  /\ Alphabet \subseteq Bytes
BY LimitAssumption, DialectAssumption

LEMMA ByteFacts ==
  /\ Bytes \subseteq Codes /\ "quote" \in Bytes /\ "lf" \in Bytes
  /\ \A bytes \in Seq(Bytes) : bytes \in Seq(Codes)
<1>1. Bytes \subseteq Codes /\ "quote" \in Bytes /\ "lf" \in Bytes
  BY DEF Bytes, Codes
<1> QED BY <1>1, SeqMonotonic

\* A part of a sequence of bytes.
LEMMA PartOfBytes ==
  ASSUME NEW bytes \in Seq(Bytes), NEW m \in Nat \ {0}, NEW n \in Int, n <= Len(bytes)
  PROVE  /\ SubSeq(bytes, m, n) \in Seq(Codes)
         /\ Len(SubSeq(bytes, m, n)) = IF m <= n THEN n - m + 1 ELSE 0
<1>1. Len(bytes) \in Nat
  BY LenProperties
<1>2. ASSUME NEW i \in m..n PROVE bytes[i] \in Codes
  <2>1. i \in 1..Len(bytes)
    BY <1>1
  <2> QED BY <2>1, ElementOfSeq, ByteFacts
<1>3. m \in Int /\ n \in Int
  OBVIOUS
<1> QED BY <1>2, <1>3, SubSeqProperties

\* A field whose pointer stays within what was fed.
Points(f) == f \in Field /\ f.at + f.len <= Len(input)

LEMMA PointedProperties ==
  ASSUME ControlOK, NEW f, Points(f)
  PROVE  Pointed(f) \in Seq(Codes) /\ Len(Pointed(f)) = f.len
<1>1. f.at \in Nat /\ f.len \in Nat /\ input \in Seq(Bytes) /\ Len(input) \in Nat
  BY LenProperties DEF ControlOK, Points, Field
<1>2. CASE f.at >= Base \/ KeepInput
  <2>1. /\ SubSeq(input, f.at + 1, f.at + f.len) \in Seq(Codes)
        /\ Len(SubSeq(input, f.at + 1, f.at + f.len)) = f.len
    BY <1>1, PartOfBytes DEF Points
  <2> QED BY <1>2, <2>1 DEF Pointed
<1>3. CASE ~(f.at >= Base \/ KeepInput)
  <2>1. Lost \in Codes
    BY DEF Codes
  <2>2. [k \in 1..f.len |-> Lost] \in [1..f.len -> Codes]
    BY <2>1
  <2>3. Pointed(f) = [k \in 1..f.len |-> Lost]
    BY <1>3 DEF Pointed
  <2> QED BY <1>1, <2>2, <2>3, TupleIsSeq
<1> QED BY <1>2, <1>3

LEMMA RawProperties ==
  ASSUME ControlOK, NEW f, Points(f)
  PROVE  /\ Raw(f) \in Seq(Codes) /\ Len(Raw(f)) = FieldLen(f) /\ FieldLen(f) \in Nat
         /\ Content(f) \in Seq(Codes) /\ Len(Content(f)) <= FieldLen(f)
         /\ Len(Content(f)) \in Nat
<1>1. f.buf \in Seq(Codes) /\ f.len \in Nat /\ Len(f.buf) \in Nat
  BY LenProperties DEF Points, Field
<1>2. Raw(f) \in Seq(Codes) /\ Len(Raw(f)) = FieldLen(f) /\ FieldLen(f) \in Nat
  BY <1>1, PointedProperties DEF Raw, FieldLen
<1>3. Content(f) \in Seq(Codes) /\ Len(Content(f)) <= FieldLen(f)
  BY <1>2, CollapseProperties DEF Content
<1> QED BY <1>2, <1>3, LenProperties

\* Two fields that differ only in what is buffered.
SamePlace(f, g) == g.at = f.at /\ g.len = f.len /\ g.start = f.start /\ g.quoted = f.quoted

LEMMA StoreProperties ==
  ASSUME NEW f \in Field, NEW bytes \in Seq(Codes)
  PROVE  /\ Store(f, bytes) \in Field /\ SamePlace(f, Store(f, bytes))
         /\ Store(f, bytes).buffered /\ Store(f, bytes).buf = bytes
         /\ FieldLen(Store(f, bytes)) = Len(bytes)
BY DEF Store, Field, FieldLen, SamePlace

LEMMA Append2Properties ==
  ASSUME ControlOK, NEW f, Points(f), NEW bytes \in Seq(Codes)
  PROVE  /\ Append2(f, bytes) \in Field /\ SamePlace(f, Append2(f, bytes))
         /\ Append2(f, bytes).buffered
         /\ FieldLen(Append2(f, bytes)) = FieldLen(f) + Len(bytes)
<1>1. Raw(f) \o bytes \in Seq(Codes) /\ Len(Raw(f) \o bytes) = FieldLen(f) + Len(bytes)
  <2>1. Raw(f) \in Seq(Codes) /\ Len(Raw(f)) = FieldLen(f)
    BY RawProperties
  <2> QED BY <2>1, ConcatProperties
<1> QED BY <1>1, StoreProperties DEF Append2, Points

LEMMA EnsureBufferedProperties ==
  ASSUME ControlOK, NEW f, Points(f)
  PROVE  /\ EnsureBuffered(f) \in Field /\ SamePlace(f, EnsureBuffered(f))
         /\ EnsureBuffered(f).buffered
         /\ FieldLen(EnsureBuffered(f)) = FieldLen(f)
BY RawProperties, StoreProperties DEF EnsureBuffered, Points

\* The copy from the chunk takes no more than the field has, if the field
\* reaches the end of the copy.
LEMMA EnsureFieldBufferedProperties ==
  ASSUME ControlOK, NEW f \in Field, NEW end \in Int, end <= Len(chunk)
  PROVE  /\ EnsureFieldBuffered(f, end) \in Field /\ SamePlace(f, EnsureFieldBuffered(f, end))
         /\ EnsureFieldBuffered(f, end).buffered
         /\ FieldLen(EnsureFieldBuffered(f, end)) \in Nat
         /\ Reaches(f, end) => FieldLen(EnsureFieldBuffered(f, end)) <= FieldLen(f)
<1>1. /\ First(f) \in Nat /\ f.len \in Nat /\ f.buffered \in BOOLEAN
      /\ f.buf \in Seq(Codes) /\ Len(f.buf) \in Nat /\ chunk \in Seq(Bytes)
  BY LenProperties DEF First, NoOffset, Field, ControlOK
<1>2. CASE f.buffered
  BY <1>1, <1>2 DEF EnsureFieldBuffered, SamePlace, FieldLen
<1>3. CASE ~f.buffered
  <2> DEFINE copy == IF First(f) < Len(chunk) THEN SubSeq(chunk, First(f) + 1, end) ELSE <<>>
  <2>1. First(f) + 1 \in Nat \ {0}
    BY <1>1
  <2>2. /\ SubSeq(chunk, First(f) + 1, end) \in Seq(Codes)
        /\ Len(SubSeq(chunk, First(f) + 1, end)) =
             IF First(f) + 1 <= end THEN end - (First(f) + 1) + 1 ELSE 0
    BY <1>1, <2>1, PartOfBytes
  <2>3. <<>> \in Seq(Codes) /\ Len(<<>>) = 0
    BY EmptySeq
  <2>4. copy \in Seq(Codes) /\ Len(copy) \in Nat /\ (end <= First(f) + f.len => Len(copy) <= f.len)
    <3>1. CASE First(f) < Len(chunk)
      BY <1>1, <2>2, <3>1
    <3>2. CASE ~(First(f) < Len(chunk))
      BY <1>1, <2>3, <3>2
    <3> QED BY <3>1, <3>2
  <2>5. EnsureFieldBuffered(f, end) = Store(f, copy)
    BY <1>3 DEF EnsureFieldBuffered, First
  <2>6. FieldLen(f) = f.len /\ (Reaches(f, end) => end <= First(f) + f.len)
    BY <1>3 DEF FieldLen, Reaches
  <2> HIDE DEF copy
  <2> QED BY <2>4, <2>5, <2>6, StoreProperties
<1> QED BY <1>1, <1>2, <1>3

-----------------------------------------------------------------------------
(* The edits of the stream the handlers are made of.                       *)

\* All that the invariant says of a stream but its field, or with it.
SameRecord(t, u) == /\ u.inRecord = t.inRecord /\ u.fieldCount = t.fieldCount
                    /\ u.rowCount = t.rowCount /\ u.error = t.error
SameButCounts(t, u) == SameRecord(t, u) /\ u.mode = t.mode /\ u.field = t.field

LEMMA StreamFacts ==
  ASSUME NEW t \in Stream
  PROVE  /\ t.mode \in Modes /\ t.inRecord \in BOOLEAN /\ t.fieldCount \in Nat
         /\ t.rowCount \in Nat /\ t.field \in Field /\ t.error \in ErrorCodes
         /\ t.total \in Nat /\ t.recordBytes \in Nat /\ t.line \in Nat
         /\ t.field.at \in Nat /\ t.field.len \in Nat /\ t.field.buffered \in BOOLEAN
         /\ t.field.quoted \in BOOLEAN /\ t.field.start \in Nat \union {NoOffset}
BY DEF Stream, Field

LEMMA ClearedField ==
  ASSUME NEW f \in Field
  PROVE  /\ Cleared(f) \in Field /\ ~Cleared(f).buffered
         /\ Cleared(f).at = 0 /\ Cleared(f).len = 0 /\ FieldLen(Cleared(f)) = 0
         /\ Cleared(f).quoted = f.quoted
<1>1. <<>> \in Seq(Codes)
  BY EmptySeq
<1> QED BY <1>1 DEF Cleared, EmptyField, Field, NoOffset, FieldLen

LEMMA AdvanceProperties ==
  ASSUME NEW t \in Stream, NEW n \in Nat
  PROVE  /\ Advance(t, n) \in Stream /\ SameButCounts(t, Advance(t, n))
         /\ PastNewline(t, n) \in Stream /\ SameButCounts(t, PastNewline(t, n))
<1>1. t.total + n \in Nat /\ t.line + 1 \in Nat
  BY StreamFacts
<1>2. [t EXCEPT !.total = t.total + n] \in Stream
      /\ [t EXCEPT !.total = t.total + n, !.line = t.line + 1] \in Stream
  BY <1>1 DEF Stream
<1> QED BY <1>2 DEF Advance, PastNewline, Stream, SameButCounts, SameRecord

LEMMA ClearFieldProperties ==
  ASSUME NEW t \in Stream
  PROVE  /\ ClearField(t) \in Stream /\ SameRecord(t, ClearField(t))
         /\ ClearField(t).mode = t.mode /\ ClearField(t).field = Cleared(t.field)
BY ClearedField DEF ClearField, Stream, SameRecord

LEMMA EndRecordProperties ==
  ASSUME NEW t \in Stream
  PROVE  LET u == EndRecord(t)
         IN  /\ u \in Stream /\ u.error = t.error /\ u.field = Cleared(t.field)
             /\ u.mode = "START_OF_RECORD" /\ ~u.inRecord /\ u.rowCount = t.rowCount + 1
<1>1. PICK c \in Stream : c = ClearField(t)
  BY ClearFieldProperties
<1>2. /\ c.error = t.error /\ c.field = Cleared(t.field) /\ c.rowCount = t.rowCount
  BY <1>1, ClearFieldProperties DEF SameRecord
<1>3. PICK n \in Nat : n = c.rowCount + 1
  BY StreamFacts
<1>4. EndRecord(t) = [c EXCEPT !.fieldCount = 0, !.mode = "START_OF_RECORD",
                               !.inRecord = FALSE, !.rowCount = n]
  BY <1>1, <1>3 DEF EndRecord
<1>5. "START_OF_RECORD" \in Modes
  BY DEF Modes
<1>6. PICK d \in Stream : d = [c EXCEPT !.fieldCount = 0, !.mode = "START_OF_RECORD"]
  BY <1>5 DEF Stream
<1>7. d.error = c.error /\ d.field = c.field /\ d.mode = "START_OF_RECORD"
  BY <1>6 DEF Stream
<1>8. EndRecord(t) = [d EXCEPT !.inRecord = FALSE, !.rowCount = n]
  BY <1>4, <1>6
<1>9. /\ EndRecord(t) \in Stream /\ EndRecord(t).error = d.error
      /\ EndRecord(t).field = d.field /\ EndRecord(t).mode = d.mode
      /\ EndRecord(t).inRecord = FALSE /\ EndRecord(t).rowCount = n
  BY <1>8 DEF Stream
<1> QED BY <1>2, <1>3, <1>7, <1>9

LEMMA EmittedProperties ==
  ASSUME ControlOK, NEW t \in Stream, Points(t.field)
  PROVE  /\ Emitted(t) \in Stream /\ SameRecord(t, Emitted(t))
         /\ Emitted(t).mode = t.mode /\ SamePlace(t.field, Emitted(t).field)
<1>1. t.field \in Field /\ Content(t.field) \in Seq(Codes)
  BY RawProperties DEF Points
<1>2. Store(t.field, Content(t.field)) \in Field
      /\ SamePlace(t.field, Store(t.field, Content(t.field)))
  BY <1>1, StoreProperties
<1> QED BY <1>2 DEF Emitted, Stream, SameRecord

LEMMA CountFieldProperties ==
  ASSUME NEW t \in Stream
  PROVE  LET u == CountField(t)
         IN  /\ u \in Stream /\ u.inRecord = t.inRecord /\ u.fieldCount = t.fieldCount + 1
             /\ u.rowCount = t.rowCount /\ u.error = t.error /\ u.mode = t.mode
             /\ u.field = t.field
<1>1. t.fieldCount + 1 \in Nat
  BY StreamFacts
<1> QED BY <1>1 DEF CountField, Stream

\* A stream with another mode, or another field.
LEMMA ModeEdit ==
  ASSUME NEW t \in Stream, NEW m \in Modes
  PROVE  /\ [t EXCEPT !.mode = m] \in Stream /\ SameRecord(t, [t EXCEPT !.mode = m])
         /\ [t EXCEPT !.mode = m].mode = m /\ [t EXCEPT !.mode = m].field = t.field
BY DEF Stream, SameRecord

LEMMA FieldEdit ==
  ASSUME NEW t \in Stream, NEW f \in Field
  PROVE  /\ [t EXCEPT !.field = f] \in Stream /\ SameRecord(t, [t EXCEPT !.field = f])
         /\ [t EXCEPT !.field = f].field = f /\ [t EXCEPT !.field = f].mode = t.mode
BY DEF Stream, SameRecord

LEMMA NowProperties ==
  ASSUME s \in Stream
  PROVE  /\ Now \in Stream /\ SameButCounts(s, Now)
         /\ Counted \in Stream /\ SameButCounts(s, Counted)
<1>1. Counted \in Stream /\ SameButCounts(s, Counted)
  BY DEF Counted, Stream, SameButCounts, SameRecord
<1> QED BY <1>1 DEF Now, SameButCounts, SameRecord

LEMMA AtReturnProperties ==
  ASSUME NEW t \in Stream
  PROVE  LET u == AtReturn(t)
         IN  /\ u \in Stream /\ SameRecord(t, u) /\ u.mode = t.mode
             /\ u.field = t.field \/ (u.field = Cleared(t.field) /\ t.mode \notin FieldModes)
<1>1. CASE resumed /\ t.mode \notin FieldModes
  <2>1. AtReturn(t) = [t EXCEPT !.field = Cleared(t.field)]
    BY <1>1 DEF AtReturn
  <2>2. Cleared(t.field) \in Field
    BY StreamFacts, ClearedField
  <2> DEFINE f == Cleared(t.field)
  <2> HIDE DEF f
  <2>3. f \in Field /\ AtReturn(t) = [t EXCEPT !.field = f]
    BY <2>1, <2>2 DEF f
  <2> QED BY <1>1, <2>3, FieldEdit DEF f
<1>2. CASE ~(resumed /\ t.mode \notin FieldModes)
  BY <1>2 DEF AtReturn, SameRecord
<1> QED BY <1>1, <1>2

-----------------------------------------------------------------------------
(* The events.                                                             *)

LEMMA EventProperties ==
  ASSUME NEW t \in Stream, NEW data \in Seq(Codes),
         NEW type \in {"RECORD_BEGIN", "FIELD", "RECORD_END", "END"}
  PROVE  LET e == Event(type, t, data)
         IN  /\ e \in Events /\ e.type = type /\ e.row = t.rowCount
             /\ e.col = t.fieldCount /\ e.data = data
BY StreamFacts DEF Event, Events

\* Two elements more are one more, twice.
LEMMA AppendTwo ==
  ASSUME NEW S, NEW evs \in Seq(S), NEW a \in S, NEW b \in S
  PROVE  evs \o <<a, b>> = Append(Append(evs, a), b)
<1>1. Append(evs, a) = evs \o <<a>> /\ Append(evs, a) \in Seq(S)
  BY AppendIsConcat, AppendProperties
<1>2. Append(Append(evs, a), b) = (evs \o <<a>>) \o <<b>>
  BY <1>1, AppendIsConcat
<1>3. <<a>> \in Seq(S) /\ <<b>> \in Seq(S) /\ <<a>> \o <<b>> = <<a, b>>
  <2> DEFINE x == <<a>>
             y == <<b>>
             z == <<a, b>>
  <2>1. /\ x \in Seq(S) /\ y \in Seq(S) /\ z \in Seq(S)
        /\ Len(x) = 1 /\ Len(y) = 1 /\ Len(z) = 2
        /\ x[1] = a /\ y[1] = b /\ z[1] = a /\ z[2] = b
    OBVIOUS
  <2> HIDE DEF x, y, z
  <2>2. /\ x \o y \in Seq(S) /\ Len(x \o y) = Len(x) + Len(y)
        /\ \A i \in 1..(Len(x) + Len(y)) :
              (x \o y)[i] = IF i <= Len(x) THEN x[i] ELSE y[i - Len(x)]
    BY <2>1, ConcatProperties
  <2>3. Len(x \o y) = 2 /\ (x \o y)[1] = a /\ (x \o y)[2] = b
    BY <2>1, <2>2
  <2>4. \A i \in 1..Len(x \o y) : (x \o y)[i] = z[i]
    BY <2>1, <2>3
  <2>5. x \o y = z
    BY <2>1, <2>2, <2>3, <2>4, SeqEqual
  <2> QED BY <2>1, <2>5 DEF x, y, z
<1>4. (evs \o <<a>>) \o <<b>> = evs \o (<<a>> \o <<b>>)
  BY <1>3, ConcatAssociative
<1> QED BY <1>2, <1>3, <1>4

LEMMA LastOfAppend ==
  ASSUME NEW evs \in Seq(Events), NEW e \in Events
  PROVE  LET more == Append(evs, e)
         IN  more \in Seq(Events) /\ more # <<>> /\ more[Len(more)] = e
BY AppendProperties

LEMMA LastEvent ==
  ASSUME NEW evs \in Seq(Events), evs # <<>>
  PROVE  LET e == evs[Len(evs)]
         IN  e \in Events /\ e.row \in Nat /\ e.col \in Nat
<1>1. Len(evs) \in 1..Len(evs)
  BY EmptySeq
<1>2. evs[Len(evs)] \in Events
  BY <1>1, ElementOfSeq
<1> QED BY <1>2 DEF Events

LEMMA AppendChain ==
  ASSUME NEW evs \in Seq(Events), NEW e \in Events, Chain(evs),
         \/ evs = <<>> /\ e.type \in {"RECORD_BEGIN", "END"}
         \/ evs # <<>> /\ Follows(evs[Len(evs)], e)
  PROVE  Chain(Append(evs, e))
<1>1. /\ Len(evs) \in Nat /\ Len(Append(evs, e)) = Len(evs) + 1
      /\ \A i \in 1..Len(evs) : Append(evs, e)[i] = evs[i]
      /\ Append(evs, e)[Len(evs) + 1] = e
  BY LenProperties, AppendProperties
<1>2. CASE evs = <<>>
  <2>1. Len(evs) = 0 /\ e.type \in {"RECORD_BEGIN", "END"}
    BY <1>2, EmptySeq
  <2> QED BY <1>1, <2>1 DEF Chain
<1>3. CASE evs # <<>>
  <2>1. Len(evs) \in Nat \ {0} /\ Follows(evs[Len(evs)], e)
    BY <1>3, EmptySeq
  <2>2. Append(evs, e)[1].type \in {"RECORD_BEGIN", "END"}
    <3>1. 1 \in 1..Len(evs)
      BY <2>1
    <3> QED BY <1>1, <1>3, <3>1 DEF Chain
  <2>3. ASSUME NEW i \in 1..(Len(Append(evs, e)) - 1)
        PROVE  Follows(Append(evs, e)[i], Append(evs, e)[i + 1])
    <3>1. CASE i = Len(evs)
      BY <1>1, <2>1, <3>1
    <3>2. CASE i # Len(evs)
      <4>1. i \in 1..(Len(evs) - 1) /\ i \in 1..Len(evs) /\ i + 1 \in 1..Len(evs)
        BY <1>1, <3>2
      <4> QED BY <1>1, <4>1 DEF Chain
    <3> QED BY <3>1, <3>2
  <2> QED BY <2>2, <2>3 DEF Chain
<1> QED BY <1>2, <1>3

LEMMA AppendInLimits ==
  ASSUME NEW evs \in Seq(Events), NEW e \in Events, InLimits(evs),
         e.type = "FIELD" => Len(e.data) <= MaxFieldBytes /\ e.col < MaxCols
  PROVE  InLimits(Append(evs, e))
<1>1. /\ Len(evs) \in Nat /\ Len(Append(evs, e)) = Len(evs) + 1
      /\ \A i \in 1..Len(evs) : Append(evs, e)[i] = evs[i]
      /\ Append(evs, e)[Len(evs) + 1] = e /\ DOMAIN evs = 1..Len(evs)
      /\ DOMAIN Append(evs, e) = 1..(Len(evs) + 1)
  BY LenProperties, AppendProperties
<1>2. ASSUME NEW i \in DOMAIN Append(evs, e), Append(evs, e)[i].type = "FIELD"
      PROVE  Len(Append(evs, e)[i].data) <= MaxFieldBytes /\ Append(evs, e)[i].col < MaxCols
  <2>1. CASE i = Len(evs) + 1
    BY <1>1, <1>2, <2>1
  <2>2. CASE i # Len(evs) + 1
    <3>1. i \in DOMAIN evs
      BY <1>1, <2>2
    <3> QED BY <1>1, <1>2, <3>1 DEF InLimits
  <2> QED BY <2>1, <2>2
<1> QED BY <1>2 DEF InLimits

\* The field of a stream that has told of all before it.
LEMMA FieldTold ==
  ASSUME ControlOK, NEW t \in Stream, Points(t.field), NEW evs \in Seq(Events)
  PROVE  LET more == Append(evs, FieldEvent(t))
         IN  /\ FieldEvent(t) \in Events /\ more \in Seq(Events)
             /\ Chain(evs) /\ InField(t, evs) =>
                  /\ Chain(more) /\ more # <<>> /\ more[Len(more)].type = "FIELD"
                  /\ more[Len(more)].row = t.rowCount /\ more[Len(more)].col = t.fieldCount
             /\ InLimits(evs) /\ Len(Content(t.field)) <= MaxFieldBytes
                  /\ t.fieldCount < MaxCols => InLimits(more)
<1> DEFINE e == FieldEvent(t)
<1>1. /\ e \in Events /\ e.type = "FIELD" /\ e.row = t.rowCount
      /\ e.col = t.fieldCount /\ e.data = Content(t.field)
  BY RawProperties, EventProperties DEF FieldEvent
<1> HIDE DEF e
<1>2. /\ Append(evs, e) \in Seq(Events) /\ Append(evs, e) # <<>>
      /\ Append(evs, e)[Len(Append(evs, e))] = e
  BY <1>1, LastOfAppend
<1>3. ASSUME Chain(evs), InField(t, evs) PROVE Chain(Append(evs, e))
  <2>1. evs # <<>> /\ Follows(evs[Len(evs)], e)
    <3>1. Len(evs) \in Nat \ {0}
      BY <1>3, EmptySeq DEF InField
    <3>2. PICK d \in Events : d = evs[Len(evs)]
      BY <1>3, LastEvent DEF InField
    <3>3. d.col \in Nat /\ d.row \in Nat
      BY DEF Events
    <3> QED BY <1>1, <1>3, <3>2, <3>3 DEF InField, Follows
  <2> QED BY <1>1, <1>3, <2>1, AppendChain
<1>4. InLimits(evs) /\ Len(Content(t.field)) <= MaxFieldBytes
        /\ t.fieldCount < MaxCols => InLimits(Append(evs, e))
  BY <1>1, AppendInLimits
<1> QED BY <1>1, <1>2, <1>3, <1>4 DEF e

-----------------------------------------------------------------------------
(* The endings of a handler.                                               *)

LEMMA LengthFacts ==
  ASSUME ControlOK
  PROVE  /\ Len(chunk) \in Nat /\ Len(input) \in Nat /\ Base \in Nat /\ offset \in Nat
         /\ Base + Len(chunk) = Len(input) /\ offset <= Len(chunk)
         /\ pc # "idle" => offset < Len(chunk)
<1>1. Len(chunk) \in Nat /\ Len(input) \in Nat
  BY LenProperties DEF ControlOK
<1> QED BY <1>1 DEF ControlOK, Base

LEMMA TypedPoints ==
  ASSUME ControlOK, NEW t, NEW p \in 0..Len(chunk), Typed(t, p)
  PROVE  t \in Stream /\ Points(t.field)
<1>1. t \in Stream /\ t.field \in Field /\ t.field.at + t.field.len \in Nat
      /\ t.field.at + t.field.len <= Base + p
  BY LengthFacts, StreamFacts DEF Typed, Waiting
<1> QED BY <1>1, LengthFacts DEF Points

\* A field that grew no more than the position moved.
LEMMA TypedLater ==
  ASSUME ControlOK, NEW t, NEW p \in Nat, Typed(t, p), NEW u \in Stream,
         NEW q \in Nat, p <= q, u.mode # "ESCAPE_IN_QUOTED",
         u.field.at + u.field.len <= t.field.at + t.field.len + (q - p)
  PROVE  Typed(u, q)
<1>1. t \in Stream /\ t.field.at + t.field.len + Waiting(t) <= Base + p /\ Waiting(t) \in Nat
  BY DEF Typed, Waiting
<1>2. t.field.at \in Nat /\ t.field.len \in Nat /\ u.field.at \in Nat /\ u.field.len \in Nat
  BY <1>1, StreamFacts
<1>3. Base \in Nat
  BY LengthFacts
<1>4. Waiting(u) = 0
  BY DEF Waiting
<1>5. u.field.at + u.field.len + Waiting(u) <= Base + q
  BY <1>1, <1>2, <1>3, <1>4
<1> QED BY <1>5 DEF Typed

LEMMA SameFieldLater ==
  ASSUME ControlOK, NEW t, NEW p \in Nat, Typed(t, p), NEW u \in Stream,
         NEW q \in Nat, p <= q, u.mode # "ESCAPE_IN_QUOTED", u.field = t.field
  PROVE  Typed(u, q)
<1>1. t.field.at + t.field.len \in Nat
  BY StreamFacts DEF Typed
<1> QED BY <1>1, TypedLater

\* What a handler must leave for the invariant to hold when the loop goes on
\* at p, after the events evs and with the failure ab.
Ready(t, p, evs, ab) ==
    /\ Typed(t, p)
    /\ evs \in Seq(Events)
    /\ ab = "no" => /\ Good(t, p, evs, FALSE)
                    /\ p = Len(chunk) => Kept(t)
                    /\ t.mode = "END" => t.error # "OK"

\* The field dropped when the feed returns was not needed.
LEMMA GoodAtReturn ==
  ASSUME NEW t \in Stream, NEW p \in Nat, NEW evs, Good(t, p, evs, FALSE)
  PROVE  /\ Good(AtReturn(t), 0, evs, FALSE)
         /\ Kept(t) => Kept(AtReturn(t))
<1> DEFINE u == AtReturn(t)
<1>1. /\ u \in Stream /\ SameRecord(t, u) /\ u.mode = t.mode
      /\ u.field = t.field \/ (u.field = Cleared(t.field) /\ t.mode \notin FieldModes)
  BY AtReturnProperties
<1> HIDE DEF u
<1>2. t.error = "OK" => Told(u, evs, FALSE)
  BY <1>1 DEF Good, Told, InField, BetweenRecords, SameRecord
<1>3. Bounded(u, 0)
  <2>1. /\ u.field \in Field /\ First(u.field) \in Nat /\ u.field.len \in Nat
        /\ Reaches(u.field, 0) /\ Reaches(u.field, 0 - 1)
    BY <1>1, StreamFacts DEF First, Reaches, NoOffset
  <2>2. Bounded(t, p)
    BY DEF Good
  <2>3. CASE u.field = t.field
    BY <1>1, <2>1, <2>2, <2>3 DEF Bounded, SameRecord
  <2>4. CASE u.field = Cleared(t.field) /\ t.mode \notin FieldModes
    <3>1. FieldLen(u.field) = 0 /\ u.field.quoted = t.field.quoted /\ 0 < MaxFieldBytes
      BY <2>4, StreamFacts, ClearedField, ConstantFacts
    <3>2. t.mode # "UNQUOTED_FIELD" /\ t.mode # "QUOTED_FIELD" /\ t.mode # "QUOTE_IN_QUOTED"
      BY <2>4 DEF FieldModes
    <3> QED BY <1>1, <2>1, <2>2, <3>1, <3>2 DEF Bounded, SameRecord
  <2> QED BY <1>1, <2>3, <2>4
<1>4. Kept(t) => Kept(u)
  BY <1>1 DEF Kept
<1> QED BY <1>1, <1>2, <1>3, <1>4 DEF Good, u, SameRecord

LEMMA ReturnKeeps ==
  ASSUME Inv, pc # "idle", NEW t, NEW p \in 0..Len(chunk), Return(t), Typed(t, p),
         events' \in Seq(Events), UNCHANGED <<input, finished>>,
         aborted' = "no" => /\ Good(t, p, events', FALSE) /\ Kept(t)
                            /\ t.mode = "END" => t.error # "OK"
  PROVE  Inv'
<1> DEFINE u == AtReturn(t)
<1>1. /\ pc' = "idle" /\ s' = u /\ chunk' = <<>> /\ offset' = 0 /\ resumed' = FALSE
      /\ input' = input /\ finished' = finished
  BY DEF Return
<1>2. t \in Stream /\ Points(t.field)
  BY TypedPoints DEF Inv
<1>3. /\ u \in Stream /\ SameRecord(t, u) /\ u.mode = t.mode
      /\ u.field = t.field \/ u.field = Cleared(t.field)
  BY <1>2, AtReturnProperties
<1>4. aborted' = "no" => Good(u, 0, events', FALSE) /\ Kept(u)
  <2>1. p \in Nat
    BY LengthFacts DEF Inv
  <2> QED BY <1>2, <2>1, GoodAtReturn
<1> HIDE DEF u
<1>5. Len(input) \in Nat /\ input \in Seq(Bytes) /\ finished \in BOOLEAN
  BY LengthFacts DEF Inv, ControlOK
<1>6. <<>> \in Seq(Bytes) /\ Len(<<>>) = 0
  BY EmptySeq
<1>7. u.field.at + u.field.len + Waiting(u) <= Len(input)
  <2>1. t.field.at \in Nat /\ t.field.len \in Nat /\ p \in Nat /\ p <= Len(chunk)
    BY <1>2, StreamFacts, LengthFacts DEF Inv
  <2>2. t.field.at + t.field.len + Waiting(t) <= Len(input)
    BY <2>1, LengthFacts, SMTT(30) DEF Typed, Waiting, Inv
  <2>3. Waiting(u) = Waiting(t) /\ Waiting(t) \in Nat
    BY <1>3 DEF Waiting
  <2>4. CASE u.field = t.field
    BY <2>2, <2>3, <2>4
  <2>5. CASE u.field = Cleared(t.field)
    <3>1. u.field.at = 0 /\ u.field.len = 0
      BY <1>2, <2>5, StreamFacts, ClearedField
    <3> QED BY <1>5, <2>1, <2>2, <2>3, <3>1
  <2> QED BY <1>3, <2>4, <2>5
<1>8. ControlOK'
  <2>1. chunk' \in Seq(Bytes) /\ Len(chunk') = 0 /\ Len(input') \in Nat
    BY <1>1, <1>5, <1>6
  <2>2. offset' \in 0..Len(chunk') /\ offset' = Len(chunk') /\ Len(chunk') <= Len(input')
    BY <1>1, <2>1
  <2>3. resumed' \in BOOLEAN /\ finished' \in BOOLEAN
    BY <1>1, <1>5
  <2>4. pc' \in {"idle", "loop", "fall"} /\ input' \in Seq(Bytes) /\ chunk' = <<>>
        /\ pc' = "idle" /\ pc' # "fall"
    BY <1>1, <1>5
  <2> QED BY <2>1, <2>2, <2>3, <2>4 DEF ControlOK
<1>9. Typed(s, offset)'
  <2>1. Base' + offset' = Len(input)
    BY <1>1, <1>5, <1>6 DEF Base
  <2>2. Waiting(s)' = Waiting(u)
    BY <1>1 DEF Waiting
  <2> QED BY <1>1, <1>3, <1>7, <2>1, <2>2 DEF Typed
<1> QED
  BY <1>1, <1>3, <1>4, <1>8, <1>9 DEF Inv, Good, Told, Kept, Bounded, SameRecord, InLimits,
     InField, BetweenRecords, Chain, Follows

LEMMA ContinueKeeps ==
  ASSUME Inv, pc # "idle", NEW t, NEW p \in 0..Len(chunk), Continue(t, p),
         Ready(t, p, events', aborted'), UNCHANGED <<input, finished>>
  PROVE  Inv'
<1>1. p \in Nat /\ Len(chunk) \in Nat /\ p <= Len(chunk)
  BY LengthFacts DEF Inv
<1>2. CASE p < Len(chunk)
  <2>1. /\ pc' = "loop" /\ s' = t /\ offset' = p /\ chunk' = chunk /\ resumed' = resumed
        /\ input' = input /\ finished' = finished
    BY <1>2 DEF Continue
  <2>2. ControlOK'
    <3>1. /\ resumed \in BOOLEAN /\ finished \in BOOLEAN /\ chunk \in Seq(Bytes) /\ ~finished
          /\ input \in Seq(Bytes) /\ Len(chunk) <= Len(input)
      BY DEF Inv, ControlOK
    <3>2. resumed' \in BOOLEAN /\ finished' \in BOOLEAN /\ ~finished'
      BY <2>1, <3>1
    <3>3. /\ pc' \in {"idle", "loop", "fall"} /\ pc' # "idle" /\ pc' # "fall"
          /\ chunk' \in Seq(Bytes) /\ input' \in Seq(Bytes) /\ Len(chunk') <= Len(input')
          /\ offset' \in 0..Len(chunk') /\ offset' # Len(chunk')
      BY <1>1, <1>2, <2>1, <3>1
    <3> QED BY <3>2, <3>3 DEF ControlOK
  <2>3. Typed(s, offset)'
    BY <2>1 DEF Ready, Typed, Base
  <2>4. aborted' = "no" => Good(t, p, events', FALSE) /\ (t.mode = "END" => t.error # "OK")
    BY DEF Ready
  <2> QED
    BY <2>1, <2>2, <2>3, <2>4 DEF Ready, Inv, Good, Told, Kept, Bounded, InLimits,
       InField, BetweenRecords, Chain, Follows
<1>3. CASE ~(p < Len(chunk))
  <2>1. p = Len(chunk) /\ Return(t)
    BY <1>1, <1>3 DEF Continue
  <2> QED BY <2>1, ReturnKeeps DEF Ready
<1> QED BY <1>2, <1>3

LEMMA GoesKeeps ==
  ASSUME Inv, pc # "idle", NEW t, NEW p \in 0..Len(chunk), Goes(t, p),
         Ready(t, p, events, aborted), UNCHANGED <<input, finished>>
  PROVE  Inv'
<1>1. Continue(t, p) /\ events' = events /\ aborted' = aborted
  BY DEF Goes, Quietly
<1>2. Ready(t, p, events', aborted')
  BY <1>1
<1> QED BY <1>1, <1>2, ContinueKeeps

LEMMA StarvedKeeps ==
  ASSUME Inv, pc # "idle", NEW t, NEW p \in 0..Len(chunk), Typed(t, p), Starved(t),
         UNCHANGED <<input, finished>>
  PROVE  Inv'
<1>1. Return(t) /\ aborted' # "no" /\ events' = events
  BY DEF Starved
<1>2. events' \in Seq(Events)
  BY <1>1 DEF Inv
<1> QED BY <1>1, <1>2, ReturnKeeps

LEMMA BuffersKeeps ==
  ASSUME Inv, pc # "idle", NEW t, NEW old, NEW p \in 0..Len(chunk), Buffers(old, t, p),
         Ready(t, p, events, aborted), Typed(old, p), UNCHANGED <<input, finished>>
  PROVE  Inv'
BY GoesKeeps, StarvedKeeps DEF Buffers

LEMMA RefusedKeeps ==
  ASSUME Inv, pc # "idle", NEW t, NEW p \in 0..Len(chunk), Typed(t, p),
         NEW evs \in Seq(Events), Refused(t, evs), UNCHANGED <<input, finished>>
  PROVE  Inv'
<1>1. Return(t) /\ aborted' # "no" /\ events' = events \o evs
  BY DEF Refused
<1>2. events' \in Seq(Events)
  BY <1>1, ConcatProperties DEF Inv
<1> QED BY <1>1, <1>2, ReturnKeeps

LEMMA FailsKeeps ==
  ASSUME Inv, pc # "idle", NEW t, NEW p \in 0..Len(chunk), Typed(t, p),
         NEW code \in ErrorCodes \ {"OK"}, Fails(t, code), UNCHANGED <<input, finished>>
  PROVE  Inv'
<1> DEFINE u == [t EXCEPT !.mode = "END", !.error = code]
<1>1. Return(u) /\ aborted' = aborted /\ events' = events
  BY DEF Fails, Quietly
<1>2. /\ u \in Stream /\ u.mode = "END" /\ u.error = code /\ u.field = t.field
  <2>1. t \in Stream /\ "END" \in Modes /\ code \in ErrorCodes
    BY DEF Typed, Modes
  <2> QED BY <2>1 DEF Stream
<1> HIDE DEF u
<1>3. Typed(u, p)
  <2>1. p \in Nat
    BY LengthFacts DEF Inv
  <2> QED BY <1>2, <2>1, SameFieldLater DEF Inv
<1>4. aborted' = "no" => Good(u, p, events', FALSE) /\ Kept(u) /\ u.error # "OK"
  BY <1>1, <1>2 DEF Inv, Good, Kept, Bounded, FieldModes
<1>5. events' \in Seq(Events)
  BY <1>1 DEF Inv
<1> QED BY <1>1, <1>3, <1>4, <1>5, ReturnKeeps

\* The stream t is about to report a field.
Open(t) == aborted = "no" => /\ t.error = "OK" => Chain(events) /\ InField(t, events)
                             /\ t.fieldCount < MaxCols
                             /\ Len(Content(t.field)) <= MaxFieldBytes

LEMMA EndsFieldKeeps ==
  ASSUME Inv, pc # "idle", NEW t, NEW p \in 0..Len(chunk), p < Len(chunk), Typed(t, p),
         Open(t), EndsField(t, p), UNCHANGED <<input, finished>>
  PROVE  Inv'
<1>1. t \in Stream /\ Points(t.field) /\ ControlOK /\ events \in Seq(Events)
  BY TypedPoints DEF Inv
<1>2. FieldEvent(t) \in Events /\ Append(events, FieldEvent(t)) \in Seq(Events)
  BY <1>1, FieldTold
<1>3. CASE ~t.field.buffered /\ t.field.len > 0 /\ Starved(t)
  BY <1>3, StarvedKeeps
<1>4. CASE Refused(Emitted(t), <<FieldEvent(t)>>)
  <2>1. Typed(Emitted(t), p)
    BY <1>1, EmittedProperties DEF Typed, Waiting, SamePlace
  <2>2. <<FieldEvent(t)>> \in Seq(Events)
    BY <1>2
  <2> QED BY <1>4, <2>1, <2>2, RefusedKeeps
<1>5. ASSUME Continue(Advance([CountField(ClearField(t)) EXCEPT !.mode = "START_OF_FIELD"], 1), p + 1),
             events' = Append(events, FieldEvent(t)), aborted' = aborted
      PROVE  Inv'
  <2>1. PICK c \in Stream : /\ c = ClearField(t) /\ SameRecord(t, c)
                            /\ c.field = Cleared(t.field)
    BY <1>1, ClearFieldProperties
  <2>2. PICK d \in Stream : /\ d = CountField(c) /\ d.inRecord = t.inRecord
                            /\ d.fieldCount = t.fieldCount + 1 /\ d.rowCount = t.rowCount
                            /\ d.error = t.error /\ d.field = Cleared(t.field)
    BY <2>1, CountFieldProperties DEF SameRecord
  <2>3. PICK e \in Stream : /\ e = [d EXCEPT !.mode = "START_OF_FIELD"]
                            /\ SameRecord(d, e) /\ e.mode = "START_OF_FIELD" /\ e.field = d.field
    <3>1. "START_OF_FIELD" \in Modes
      BY DEF Modes
    <3> QED BY <3>1, ModeEdit
  <2>4. PICK u \in Stream : u = Advance(e, 1) /\ SameButCounts(e, u)
    BY <2>3, AdvanceProperties
  <2>5. /\ u.mode = "START_OF_FIELD" /\ u.inRecord = t.inRecord /\ u.rowCount = t.rowCount
        /\ u.fieldCount = t.fieldCount + 1 /\ u.error = t.error /\ u.field = Cleared(t.field)
    BY <2>2, <2>3, <2>4 DEF SameRecord, SameButCounts
  <2>6. Continue(u, p + 1)
    BY <1>5, <2>1, <2>2, <2>3, <2>4
  <2>7. p + 1 \in 0..Len(chunk) /\ Base + (p + 1) \in Nat
    BY <1>1, LengthFacts
  <2>8. Typed(u, p + 1)
    BY <1>1, <2>5, <2>7, StreamFacts, ClearedField DEF Typed, Waiting
  <2>9. aborted = "no" => Good(u, p + 1, events', FALSE) /\ Kept(u)
    <3>1. aborted = "no" => InLimits(events)
      BY DEF Inv, Good
    <3>2. t.fieldCount \in Nat
      BY <1>1, StreamFacts
    <3>3. aborted = "no" => InLimits(events')
      BY <1>1, <1>5, <3>1, FieldTold DEF Open
    <3>4. aborted = "no" /\ t.error = "OK" => Told(u, events', FALSE)
      BY <1>1, <1>5, <2>5, <3>2, FieldTold DEF Open, Told, InField
    <3> QED BY <2>5, <3>3, <3>4 DEF Good, Bounded, Kept, FieldModes
  <2>10. Ready(u, p + 1, events', aborted')
    BY <1>2, <1>5, <2>5, <2>8, <2>9 DEF Ready
  <2> QED BY <2>6, <2>7, <2>10, ContinueKeeps
<1> QED BY <1>3, <1>4, <1>5 DEF EndsField

\* A field and the end e of its record have been reported.
LEMMA RecordTold ==
  ASSUME Inv, NEW t \in Stream, Points(t.field), Open(t), NEW e \in Events,
         e.type = "RECORD_END", e.row = t.rowCount
  PROVE  LET evs == events \o <<FieldEvent(t), e>>
         IN  /\ <<FieldEvent(t)>> \in Seq(Events) /\ <<FieldEvent(t), e>> \in Seq(Events)
             /\ evs \in Seq(Events)
             /\ aborted = "no" => InLimits(evs)
             /\ aborted = "no" /\ t.error = "OK" =>
                  /\ Chain(evs) /\ evs # <<>>
                  /\ evs[Len(evs)].type = "RECORD_END" /\ evs[Len(evs)].row = t.rowCount
<1>1. ControlOK /\ events \in Seq(Events) /\ (aborted = "no" => InLimits(events))
  BY DEF Inv, Good
<1> DEFINE a == FieldEvent(t)
           more == Append(events, a)
<1>2. /\ a \in Events /\ more \in Seq(Events)
      /\ aborted = "no" => InLimits(more)
      /\ aborted = "no" /\ t.error = "OK" =>
           /\ Chain(more) /\ more # <<>> /\ more[Len(more)].type = "FIELD"
           /\ more[Len(more)].row = t.rowCount
  BY <1>1, FieldTold DEF Open
<1> HIDE DEF a, more
<1>3. events \o <<a, e>> = Append(more, e)
  BY <1>1, <1>2, AppendTwo DEF more
<1>4. /\ Append(more, e) \in Seq(Events) /\ Append(more, e) # <<>>
      /\ Append(more, e)[Len(Append(more, e))] = e
  BY <1>2, LastOfAppend
<1>5. aborted = "no" => InLimits(Append(more, e))
  BY <1>2, AppendInLimits
<1>6. aborted = "no" /\ t.error = "OK" => Chain(Append(more, e))
  BY <1>2, AppendChain DEF Follows
<1>7. <<a>> \in Seq(Events) /\ <<a, e>> \in Seq(Events)
  BY <1>2
<1> QED BY <1>3, <1>4, <1>5, <1>6, <1>7 DEF a

\* The stream after the end of a record.
LEMMA RecordEnded ==
  ASSUME Inv, pc # "idle", NEW t \in Stream, Points(t.field), Open(t),
         NEW e \in Events, e.type = "RECORD_END", e.row = t.rowCount,
         NEW p \in 0..Len(chunk), Continue(EndRecord(t), p),
         events' = events \o <<FieldEvent(t), e>>, aborted' = aborted,
         UNCHANGED <<input, finished>>
  PROVE  Inv'
<1> DEFINE u == EndRecord(t)
<1>1. /\ u \in Stream /\ u.error = t.error /\ u.field = Cleared(t.field)
      /\ u.mode = "START_OF_RECORD" /\ ~u.inRecord /\ u.rowCount = t.rowCount + 1
  BY EndRecordProperties
<1> HIDE DEF u
<1>2. t.rowCount \in Nat /\ t.rowCount < t.rowCount + 1
  BY StreamFacts
<1>3. /\ events' \in Seq(Events) /\ (aborted = "no" => InLimits(events'))
      /\ aborted = "no" /\ t.error = "OK" =>
           /\ Chain(events') /\ events' # <<>>
           /\ events'[Len(events')].type = "RECORD_END"
           /\ events'[Len(events')].row = t.rowCount
  BY RecordTold
<1>4. Typed(u, p)
  <2>1. Base + p \in Nat
    BY LengthFacts DEF Inv
  <2>2. u.field.at = 0 /\ u.field.len = 0
    BY <1>1, StreamFacts, ClearedField
  <2> QED BY <1>1, <2>1, <2>2 DEF Typed, Waiting
<1>5. aborted = "no" => Good(u, p, events', FALSE) /\ Kept(u)
  BY <1>1, <1>2, <1>3 DEF Good, Told, BetweenRecords, Bounded, Kept, FieldModes
<1>6. Ready(u, p, events', aborted')
  BY <1>1, <1>3, <1>4, <1>5 DEF Ready
<1> QED BY <1>6, ContinueKeeps DEF u

LEMMA EndsRecordKeeps ==
  ASSUME Inv, pc # "idle", NEW t, NEW q \in 0..Len(chunk), Typed(t, q), Open(t),
         NEW p \in 0..Len(chunk), EndsRecord(t, p), UNCHANGED <<input, finished>>
  PROVE  Inv'
<1>1. t \in Stream /\ Points(t.field) /\ ControlOK
  BY TypedPoints DEF Inv
<1> DEFINE done == CountField(Emitted(t))
           e    == Event("RECORD_END", done, <<>>)
<1>2. /\ Emitted(t) \in Stream /\ SameRecord(t, Emitted(t))
      /\ SamePlace(t.field, Emitted(t).field) /\ Emitted(t).mode = t.mode
  BY <1>1, EmittedProperties
<1>3. /\ done \in Stream /\ done.rowCount = t.rowCount /\ done.field = Emitted(t).field
      /\ done.mode = Emitted(t).mode
  BY <1>2, CountFieldProperties DEF SameRecord
<1>4. Typed(Emitted(t), q) /\ Typed(done, q)
  BY <1>2, <1>3 DEF Typed, Waiting, SamePlace
<1>5. e \in Events /\ e.type = "RECORD_END" /\ e.row = t.rowCount
  <2>1. <<>> \in Seq(Codes)
    BY EmptySeq
  <2> HIDE DEF done
  <2> QED BY <1>3, <2>1, EventProperties
<1>6. <<FieldEvent(t)>> \in Seq(Events) /\ <<FieldEvent(t), e>> \in Seq(Events)
  <2> HIDE DEF e
  <2> QED BY <1>1, <1>5, RecordTold
<1>7. CASE Continue(EndRecord(t), p) /\ events' = events \o <<FieldEvent(t), e>>
           /\ UNCHANGED aborted
  <2> HIDE DEF e
  <2> QED BY <1>1, <1>5, <1>7, RecordEnded
<1>8. CASE Refused(Emitted(t), <<FieldEvent(t)>>)
  BY <1>4, <1>6, <1>8, RefusedKeeps
<1>9. CASE Refused(done, <<FieldEvent(t), e>>)
  <2> HIDE DEF e, done
  <2> QED BY <1>4, <1>6, <1>9, RefusedKeeps
<1>10. CASE ~t.field.buffered /\ Starved(t)
  BY <1>10, StarvedKeeps
<1>11. <<FieldEvent(t), e>>[1] = FieldEvent(t)
  OBVIOUS
<1> HIDE DEF e, done
<1> QED
  <2>1. \/ Continue(EndRecord(t), p) /\ events' = events \o <<FieldEvent(t), e>>
           /\ UNCHANGED aborted
        \/ Refused(Emitted(t), <<<<FieldEvent(t), e>>[1]>>)
        \/ Refused(done, <<FieldEvent(t), e>>)
        \/ ~t.field.buffered /\ Starved(t)
    BY DEF EndsRecord, e, done
  <2> QED BY <1>7, <1>8, <1>9, <1>10, <1>11, <2>1

-----------------------------------------------------------------------------
(* What a handler finds, and what it may leave.                            *)

LEMMA NewlineProperties ==
  ASSUME ControlOK, NEW p \in 0..Len(chunk), p < Len(chunk)
  PROVE  NewlineAt(p) \in 0..2 /\ p + NewlineAt(p) \in 0..Len(chunk)
BY LengthFacts DEF NewlineAt

LEMMA HandlerFinds ==
  ASSUME Inv, NEW mode, Handling(mode)
  PROVE  /\ pc # "idle" /\ Now.mode = mode
         /\ Now \in Stream /\ Typed(Now, offset) /\ Points(Now.field)
         /\ offset \in 0..Len(chunk) /\ offset < Len(chunk) /\ offset \in Nat
         /\ offset + 1 \in 0..Len(chunk)
         /\ Newline \in Nat /\ Newline <= 2 /\ offset + Newline \in 0..Len(chunk)
         /\ Here \in Bytes
         /\ events \in Seq(Events)
         /\ aborted = "no" => /\ Bounded(Now, offset) /\ InLimits(events)
                              /\ Now.error = "OK" => Told(Now, events, pc = "fall")
<1>1. ControlOK /\ s \in Stream /\ Typed(s, offset) /\ s.mode = mode /\ pc # "idle"
  BY DEF Inv, Typed, Handling
<1>2. Now \in Stream /\ SameButCounts(s, Now)
  BY <1>1, NowProperties
<1>3. Now.mode = mode /\ Now.field = s.field
  BY <1>1, <1>2 DEF SameButCounts
<1>4. offset \in 0..Len(chunk) /\ offset < Len(chunk) /\ offset + 1 \in 0..Len(chunk)
      /\ offset \in Nat /\ offset + 1 \in 1..Len(chunk)
  BY <1>1, LengthFacts
<1>5. Typed(Now, offset)
  BY <1>1, <1>2, <1>3 DEF Typed, Waiting
<1>6. Points(Now.field)
  BY <1>1, <1>4, <1>5, TypedPoints
<1>7. Newline \in Nat /\ Newline <= 2 /\ offset + Newline \in 0..Len(chunk)
  BY <1>1, <1>4, NewlineProperties DEF Newline
<1>8. Here \in Bytes
  BY <1>1, <1>4, ElementOfSeq DEF Here, Byte, ControlOK
<1>9. aborted = "no" => Bounded(Now, offset)
  BY <1>2 DEF Inv, Good, Bounded, SameButCounts, SameRecord
<1>10. aborted = "no" /\ Now.error = "OK" => Told(Now, events, pc = "fall")
  BY <1>2 DEF Inv, Good, Told, SameButCounts, SameRecord, InField, BetweenRecords
<1>11. events \in Seq(Events) /\ (aborted = "no" => InLimits(events))
  BY DEF Inv, Good
<1> QED BY <1>1, <1>2, <1>3, <1>4, <1>5, <1>6, <1>7, <1>8, <1>9, <1>10, <1>11

WithinField == FieldModes \union {"ESCAPE_IN_QUOTED"}

\* A handler within a record leaves the field in progress ...
LEMMA StaysInField ==
  ASSUME Inv, NEW mode \in WithinField \union {"START_OF_FIELD"}, Handling(mode),
         NEW u, SameRecord(Now, u), u.mode \in WithinField,
         NEW p \in 0..Len(chunk), Typed(u, p),
         aborted = "no" => Bounded(u, p) /\ (p = Len(chunk) => Kept(u))
  PROVE  Ready(u, p, events, aborted)
<1>1. /\ Now.mode = mode /\ events \in Seq(Events)
      /\ aborted = "no" => /\ InLimits(events)
                           /\ Now.error = "OK" => Told(Now, events, pc = "fall")
  BY HandlerFinds
<1>2. mode \notin {"START_OF_RECORD", "COMMENT", "END"}
      /\ u.mode \notin {"START_OF_RECORD", "COMMENT", "END", "START_OF_FIELD"}
  BY DEF WithinField, FieldModes
<1>3. aborted = "no" /\ u.error = "OK" => Told(u, events, FALSE)
  BY <1>1, <1>2 DEF Told, InField, SameRecord
<1> QED BY <1>1, <1>2, <1>3 DEF Ready, Good

\* ... or ends it.
LEMMA MayEndField ==
  ASSUME Inv, NEW mode \in WithinField \union {"START_OF_FIELD"}, Handling(mode),
         NEW u, SameRecord(Now, u),
         aborted = "no" => /\ Now.fieldCount < MaxCols
                           /\ Len(Content(u.field)) <= MaxFieldBytes
  PROVE  Open(u)
<1>1. /\ Now.mode = mode
      /\ aborted = "no" /\ Now.error = "OK" => Told(Now, events, pc = "fall")
  BY HandlerFinds
<1>2. mode \notin {"START_OF_RECORD", "COMMENT", "END"}
  BY DEF WithinField, FieldModes
<1>3. aborted = "no" /\ u.error = "OK" => Chain(events) /\ InField(u, events)
  BY <1>1, <1>2 DEF Told, InField, SameRecord
<1> QED BY <1>3 DEF Open, SameRecord

\* A handler that fails.
LEMMA HandlerFails ==
  ASSUME Inv, NEW mode, Handling(mode), NEW code \in ErrorCodes \ {"OK"},
         Fails(Now, code), UNCHANGED <<input, finished>>
  PROVE  Inv'
BY HandlerFinds, FailsKeeps

-----------------------------------------------------------------------------
(* Between records.                                                        *)

LEMMA LimitExceededKeeps ==
  ASSUME Inv, LimitExceeded, UNCHANGED <<input, finished>>
  PROVE  Inv'
<1> DEFINE t == IF TotalReached THEN s ELSE Counted
<1>1. ControlOK /\ s \in Stream /\ Typed(s, offset) /\ pc # "idle" /\ offset \in 0..Len(chunk)
  BY DEF Inv, Typed, LimitExceeded, ControlOK
<1>2. Typed(t, offset)
  BY <1>1, NowProperties DEF Typed, Waiting, SameButCounts
<1>3. Fails(t, "LIMIT") /\ "LIMIT" \in ErrorCodes \ {"OK"}
  BY DEF LimitExceeded, ErrorCodes
<1> HIDE DEF t
<1> QED BY <1>1, <1>2, <1>3, FailsKeeps

LEMMA CommentKeeps ==
  ASSUME Inv, Comment, UNCHANGED <<input, finished>>
  PROVE  Inv'
<1>1. Handling("COMMENT")
  BY DEF Comment
<1>2. /\ pc # "idle" /\ Now.mode = "COMMENT" /\ Now \in Stream /\ Typed(Now, offset)
      /\ offset + 1 \in 0..Len(chunk) /\ Newline \in Nat /\ offset \in Nat
      /\ offset + Newline \in 0..Len(chunk) /\ events \in Seq(Events)
      /\ aborted = "no" => /\ InLimits(events)
                           /\ Now.error = "OK" => Told(Now, events, pc = "fall")
  BY <1>1, HandlerFinds
<1>3. CASE Newline > 0
  <2> DEFINE t == [PastNewline(Now, Newline) EXCEPT !.mode = "START_OF_RECORD",
                                                    !.rowCount = @ + 1]
  <2>1. PICK a \in Stream : a = PastNewline(Now, Newline) /\ SameButCounts(Now, a)
    BY <1>2, AdvanceProperties
  <2>2. PICK n \in Nat : n = a.rowCount + 1 /\ n > a.rowCount
    BY StreamFacts
  <2>3. t = [a EXCEPT !.mode = "START_OF_RECORD", !.rowCount = n]
    BY <2>1, <2>2
  <2>4. "START_OF_RECORD" \in Modes
    BY DEF Modes
  <2>5. /\ t \in Stream /\ t.mode = "START_OF_RECORD" /\ t.rowCount = n
        /\ t.inRecord = a.inRecord /\ t.field = a.field /\ t.error = a.error
    BY <2>3, <2>4 DEF Stream
  <2>6. Goes(t, offset + Newline)
    BY <1>3 DEF Comment
  <2> HIDE DEF t
  <2>7. /\ t.inRecord = Now.inRecord /\ t.field = Now.field /\ t.error = Now.error
        /\ t.rowCount > Now.rowCount /\ t.rowCount \in Nat /\ Now.rowCount \in Nat
    BY <1>2, <2>1, <2>2, <2>5, StreamFacts DEF SameButCounts, SameRecord
  <2>8. Typed(t, offset + Newline)
    BY <1>2, <2>5, <2>7, SameFieldLater DEF Inv
  <2>9. aborted = "no" /\ t.error = "OK" => Told(t, events, FALSE)
    <3>1. ASSUME aborted = "no", t.error = "OK" PROVE Told(t, events, FALSE)
      <4>1. Chain(events) /\ BetweenRecords(Now, events)
        BY <1>2, <2>7, <3>1 DEF Told
      <4>2. events # <<>> => events[Len(events)].row \in Nat
        BY <1>2, LastEvent
      <4>3. BetweenRecords(t, events)
        BY <2>7, <4>1, <4>2 DEF BetweenRecords
      <4> QED BY <2>5, <4>1, <4>3 DEF Told
    <3> QED BY <3>1
  <2>10. Ready(t, offset + Newline, events, aborted)
    BY <1>2, <2>5, <2>8, <2>9 DEF Ready, Good, Bounded, Kept, FieldModes
  <2> QED BY <1>2, <2>6, <2>10, GoesKeeps
<1>4. CASE ~(Newline > 0)
  <2>1. PICK t \in Stream : t = Advance(Now, 1) /\ SameButCounts(Now, t)
    BY <1>2, AdvanceProperties
  <2>2. Goes(t, offset + 1)
    BY <1>4, <2>1 DEF Comment
  <2>3. Typed(t, offset + 1)
    BY <1>2, <2>1, SameFieldLater DEF Inv, SameButCounts
  <2>4. t.mode = "COMMENT"
    BY <1>2, <2>1 DEF SameButCounts
  <2>5. aborted = "no" /\ t.error = "OK" => Told(t, events, FALSE)
    BY <1>2, <2>1, <2>4 DEF Told, BetweenRecords, SameButCounts, SameRecord
  <2>6. Ready(t, offset + 1, events, aborted)
    BY <1>2, <2>3, <2>4, <2>5 DEF Ready, Good, Bounded, Kept, FieldModes
  <2> QED BY <1>2, <2>2, <2>6, GoesKeeps
<1> QED BY <1>3, <1>4

\* A handler between records that stays there.
LEMMA StaysBetween ==
  ASSUME Inv, NEW mode \in {"START_OF_RECORD", "COMMENT"}, Handling(mode),
         NEW u \in Stream, SameRecord(Now, u), u.mode \in {"START_OF_RECORD", "COMMENT"},
         u.field = Now.field, NEW p \in 0..Len(chunk), offset <= p
  PROVE  Ready(u, p, events, aborted)
<1>1. /\ Now.mode = mode /\ Typed(Now, offset) /\ events \in Seq(Events) /\ offset \in Nat
      /\ aborted = "no" => /\ InLimits(events)
                           /\ Now.error = "OK" => Told(Now, events, pc = "fall")
  BY HandlerFinds
<1>2. p \in Nat /\ ControlOK
  BY LengthFacts DEF Inv
<1>3. Typed(u, p)
  BY <1>1, <1>2, SameFieldLater
<1>4. aborted = "no" /\ u.error = "OK" => Told(u, events, FALSE)
  BY <1>1 DEF Told, BetweenRecords, SameRecord
<1> QED BY <1>1, <1>3, <1>4 DEF Ready, Good, Bounded, Kept, FieldModes

LEMMA StartOfRecordKeeps ==
  ASSUME Inv, StartOfRecord, UNCHANGED <<input, finished>>
  PROVE  Inv'
<1>1. Handling("START_OF_RECORD")
  BY DEF StartOfRecord
<1>2. /\ pc # "idle" /\ Now.mode = "START_OF_RECORD" /\ Now \in Stream /\ Typed(Now, offset)
      /\ offset + 1 \in 0..Len(chunk) /\ Newline \in Nat /\ offset \in Nat
      /\ offset \in 0..Len(chunk) /\ offset < Len(chunk)
      /\ offset + Newline \in 0..Len(chunk) /\ events \in Seq(Events)
      /\ aborted = "no" => /\ InLimits(events)
                           /\ Now.error = "OK" => Told(Now, events, pc = "fall")
  BY <1>1, HandlerFinds
<1> DEFINE begun == [Now EXCEPT !.mode = "START_OF_FIELD", !.inRecord = TRUE,
                                !.recordBytes = 0, !.fieldCount = 0]
           begin == Event("RECORD_BEGIN", Now, <<>>)
<1>3. CASE Goes(Advance([Now EXCEPT !.mode = "COMMENT"], 1), offset + 1)
  <2>1. PICK a \in Stream : /\ a = [Now EXCEPT !.mode = "COMMENT"] /\ SameRecord(Now, a)
                            /\ a.mode = "COMMENT" /\ a.field = Now.field
    <3>1. "COMMENT" \in Modes
      BY DEF Modes
    <3> QED BY <1>2, <3>1, ModeEdit
  <2>2. PICK t \in Stream : t = Advance(a, 1) /\ SameButCounts(a, t)
    BY AdvanceProperties
  <2>3. Goes(t, offset + 1)
    BY <1>3, <2>1, <2>2
  <2>4. /\ SameRecord(Now, t) /\ t.mode \in {"START_OF_RECORD", "COMMENT"}
        /\ t.field = Now.field /\ offset <= offset + 1
    BY <1>2, <2>1, <2>2 DEF SameButCounts, SameRecord
  <2>5. Ready(t, offset + 1, events, aborted)
    BY <1>1, <1>2, <2>4, StaysBetween
  <2> QED BY <1>2, <2>3, <2>5, GoesKeeps
<1>4. CASE Goes(PastNewline(Now, Newline), offset + Newline)
  <2>1. PICK t \in Stream : t = PastNewline(Now, Newline) /\ SameButCounts(Now, t)
    BY <1>2, AdvanceProperties
  <2>2. Goes(t, offset + Newline)
    BY <1>4, <2>1
  <2>3. /\ SameRecord(Now, t) /\ t.mode \in {"START_OF_RECORD", "COMMENT"}
        /\ t.field = Now.field /\ offset <= offset + Newline
    BY <1>2, <2>1 DEF SameButCounts, SameRecord
  <2>4. Ready(t, offset + Newline, events, aborted)
    BY <1>1, <1>2, <2>3, StaysBetween
  <2> QED BY <1>2, <2>2, <2>4, GoesKeeps
<1>5. <<>> \in Seq(Codes)
  BY EmptySeq
<1>6. begin \in Events /\ begin.type = "RECORD_BEGIN" /\ begin.row = Now.rowCount
  BY ZenonT(60), <1>2, <1>5, EventProperties
<1>7. CASE Refused(Now, <<begin>>)
  <2> HIDE DEF begin
  <2>1. <<begin>> \in Seq(Events)
    BY <1>6
  <2> QED BY <1>2, <1>7, <2>1, RefusedKeeps
<1>8. ASSUME s' = begun, pc' = "fall", events' = Append(events, begin),
             UNCHANGED <<chunk, offset, resumed, aborted>>
      PROVE  Inv'
  <2>1. /\ begun \in Stream /\ begun.mode = "START_OF_FIELD" /\ begun.inRecord = TRUE
        /\ begun.fieldCount = 0 /\ begun.rowCount = Now.rowCount /\ begun.field = Now.field
        /\ begun.error = Now.error
    <3>1. PICK a \in Stream : /\ a = [Now EXCEPT !.mode = "START_OF_FIELD"]
                              /\ SameRecord(Now, a) /\ a.mode = "START_OF_FIELD"
                              /\ a.field = Now.field
      <4>1. "START_OF_FIELD" \in Modes
        BY DEF Modes
      <4> QED BY <1>2, <4>1, ModeEdit
    <3>2. begun = [a EXCEPT !.inRecord = TRUE, !.recordBytes = 0, !.fieldCount = 0]
      BY <3>1
    <3> HIDE DEF begun
    <3>3. /\ begun \in Stream /\ begun.mode = a.mode /\ begun.inRecord = TRUE
          /\ begun.fieldCount = 0 /\ begun.rowCount = a.rowCount /\ begun.field = a.field
          /\ begun.error = a.error
      BY <3>2 DEF Stream
    <3> QED BY <3>1, <3>3 DEF SameRecord
  <2> HIDE DEF begun, begin
  <2>2. ControlOK'
    <3>1. /\ resumed \in BOOLEAN /\ finished \in BOOLEAN /\ chunk \in Seq(Bytes) /\ ~finished
          /\ input \in Seq(Bytes) /\ Len(chunk) <= Len(input)
      BY <1>2 DEF Inv, ControlOK
    <3>2. resumed' \in BOOLEAN /\ finished' \in BOOLEAN /\ ~finished'
      BY <1>8, <3>1
    <3>3. /\ pc' \in {"idle", "loop", "fall"} /\ pc' # "idle" /\ s'.mode = "START_OF_FIELD"
          /\ chunk' \in Seq(Bytes) /\ input' \in Seq(Bytes) /\ Len(chunk') <= Len(input')
          /\ offset' \in 0..Len(chunk') /\ offset' # Len(chunk')
      BY <1>2, <1>8, <2>1, <3>1
    <3> QED BY <3>2, <3>3 DEF ControlOK
  <2>3. Typed(s, offset)'
    BY <1>2, <1>8, <2>1 DEF Typed, Waiting, Base
  <2>4. /\ events' \in Seq(Events) /\ events' # <<>> /\ events'[Len(events')] = begin
    BY <1>2, <1>6, <1>8, LastOfAppend
  <2>5. aborted = "no" => InLimits(events')
    BY <1>2, <1>6, <1>8, AppendInLimits
  <2>6. ASSUME aborted = "no", begun.error = "OK" PROVE Told(begun, events', TRUE)
    <3>1. Chain(events) /\ BetweenRecords(Now, events)
      BY <1>2, <2>1, <2>6 DEF Told
    <3>2. \/ events = <<>> /\ begin.type \in {"RECORD_BEGIN", "END"}
          \/ events # <<>> /\ Follows(events[Len(events)], begin)
      <4>1. events # <<>> => events[Len(events)].row \in Nat
        BY <1>2, LastEvent
      <4>2. Now.rowCount \in Nat
        BY <1>2, StreamFacts
      <4> QED BY <1>6, <3>1, <4>1, <4>2 DEF BetweenRecords, Follows
    <3>3. Chain(events')
      BY <1>2, <1>6, <1>8, <3>1, <3>2, AppendChain
    <3>4. InField(begun, events')
      BY <1>6, <2>1, <2>4 DEF InField
    <3> QED BY <2>1, <3>3, <3>4 DEF Told
  <2>7. aborted = "no" => Good(begun, offset, events', TRUE)
    BY <2>1, <2>5, <2>6 DEF Good, Bounded, FieldModes
  <2> QED
    BY <1>8, <2>1, <2>2, <2>3, <2>4, <2>7 DEF Inv, Good, Told, Bounded, InLimits,
       InField, BetweenRecords, Chain, Follows
<1> QED
  BY <1>3, <1>4, <1>7, <1>8 DEF StartOfRecord

-----------------------------------------------------------------------------
(* The start of a field.                                                   *)

LEMMA FreshProperties ==
  ASSUME Inv, Handling("START_OF_FIELD")
  PROVE  /\ Fresh \in Stream /\ SameRecord(Now, Fresh) /\ Fresh.mode = "START_OF_FIELD"
         /\ Fresh.field \in Field /\ ~Fresh.field.buffered /\ Fresh.field.len = 0
         /\ Fresh.field.at = Base + offset /\ Fresh.field.start = offset
         /\ Typed(Fresh, offset) /\ Points(Fresh.field) /\ FieldLen(Fresh.field) = 0
<1>1. /\ Now \in Stream /\ Now.mode = "START_OF_FIELD" /\ offset \in Nat
      /\ offset \in 0..Len(chunk) /\ ControlOK
  BY HandlerFinds DEF Inv
<1>2. Base + offset \in Nat
  BY <1>1, LengthFacts
<1>3. PICK c \in Stream : /\ c = ClearField(Now) /\ SameRecord(Now, c)
                          /\ c.mode = Now.mode /\ c.field = Cleared(Now.field)
  BY <1>1, ClearFieldProperties
<1>4. /\ c.field \in Field /\ ~c.field.buffered /\ c.field.len = 0
  BY <1>1, <1>3, StreamFacts, ClearedField
<1>5. PICK n \in Nat : n = Base + offset
  BY <1>2
<1> DEFINE f == [c.field EXCEPT !.at = n, !.start = offset, !.quoted = FALSE]
<1>6. /\ f \in Field /\ f.at = n /\ f.start = offset /\ f.len = 0 /\ f.buffered = FALSE
  <2>1. PICK g \in Field : g = c.field /\ g.len = 0 /\ g.buffered = FALSE
    BY <1>4 DEF Field
  <2>2. f = [g EXCEPT !.at = n, !.start = offset, !.quoted = FALSE]
    BY <2>1
  <2> HIDE DEF f
  <2> QED BY <1>1, <2>1, <2>2 DEF Field
<1>7. Fresh = [c EXCEPT !.field = f]
  BY <1>3, <1>5 DEF Fresh
<1> HIDE DEF f
<1>8. /\ Fresh \in Stream /\ SameRecord(c, Fresh) /\ Fresh.mode = c.mode /\ Fresh.field = f
  BY <1>6, <1>7, FieldEdit
<1>9. SameRecord(Now, Fresh) /\ Fresh.mode = "START_OF_FIELD"
  BY <1>1, <1>3, <1>8 DEF SameRecord
<1>10. Typed(Fresh, offset)
  BY <1>2, <1>5, <1>6, <1>8, <1>9 DEF Typed, Waiting
<1>11. Points(Fresh.field)
  BY <1>1, <1>10, TypedPoints
<1> QED BY <1>5, <1>6, <1>8, <1>9, <1>10, <1>11 DEF FieldLen

LEMMA TooManyColumnsKeeps ==
  ASSUME Inv, TooManyColumns, UNCHANGED <<input, finished>>
  PROVE  Inv'
BY HandlerFails DEF TooManyColumns, ErrorCodes

\* What the handlers of START_OF_FIELD find below the limit of columns.
LEMMA FieldStarts ==
  ASSUME Inv, NEW b, StartsField(b)
  PROVE  /\ Handling("START_OF_FIELD") /\ Now.fieldCount < MaxCols
         /\ "START_OF_FIELD" \in WithinField \union {"START_OF_FIELD"}
<1>1. Handling("START_OF_FIELD") /\ s.fieldCount < MaxCols /\ s \in Stream
  BY DEF StartsField, Inv, Typed
<1> QED BY <1>1, NowProperties DEF SameButCounts, SameRecord

LEMMA OpenQuoteKeeps ==
  ASSUME Inv, OpenQuote, UNCHANGED <<input, finished>>
  PROVE  Inv'
<1>1. Handling("START_OF_FIELD") /\ Now.fieldCount < MaxCols
  BY FieldStarts DEF OpenQuote
<1>2. /\ pc # "idle" /\ offset \in Nat /\ offset \in 0..Len(chunk) /\ offset < Len(chunk)
      /\ offset + 1 \in 0..Len(chunk) /\ ControlOK
  BY <1>1, HandlerFinds DEF Inv
<1>3. /\ Fresh \in Stream /\ SameRecord(Now, Fresh) /\ Fresh.field \in Field
      /\ ~Fresh.field.buffered /\ Fresh.field.len = 0
      /\ Fresh.field.at = Base + offset /\ Fresh.field.start = offset
  BY <1>1, FreshProperties
<1> DEFINE f == [Fresh.field EXCEPT !.quoted = TRUE, !.at = @ + 1, !.start = @ + 1]
           t == Advance([Fresh EXCEPT !.mode = "QUOTED_FIELD", !.field.quoted = TRUE,
                                      !.field.at = @ + 1, !.field.start = @ + 1], 1)
<1>4. PICK n \in Nat : n = Base + offset + 1
  BY <1>2, LengthFacts
<1>5. /\ f \in Field /\ f.at = n /\ f.start = offset + 1 /\ f.len = 0 /\ f.buffered = FALSE
      /\ f.quoted = TRUE
  <2>1. PICK g \in Field : g = Fresh.field /\ g.len = 0 /\ g.buffered = FALSE
    BY <1>3 DEF Field
  <2>2. PICK m \in Nat : m = offset + 1
    BY <1>2
  <2>3. f = [g EXCEPT !.quoted = TRUE, !.at = n, !.start = m]
    BY <1>3, <1>4, <2>1, <2>2
  <2> HIDE DEF f
  <2>4. f \in Field /\ f.at = n /\ f.start = m /\ f.len = g.len /\ f.buffered = g.buffered
        /\ f.quoted = TRUE
    BY <2>3 DEF Field
  <2> QED BY <2>1, <2>2, <2>4
<1>6. PICK u \in Stream : /\ u = t /\ SameRecord(Now, u) /\ u.mode = "QUOTED_FIELD"
                          /\ u.field = f
  <2>1. PICK a \in Stream : /\ a = [Fresh EXCEPT !.mode = "QUOTED_FIELD"]
                            /\ SameRecord(Fresh, a) /\ a.mode = "QUOTED_FIELD"
                            /\ a.field = Fresh.field
    <3>1. "QUOTED_FIELD" \in Modes
      BY DEF Modes, FieldModes
    <3> QED BY <1>3, <3>1, ModeEdit
  <2>2. [Fresh EXCEPT !.mode = "QUOTED_FIELD", !.field.quoted = TRUE,
                      !.field.at = @ + 1, !.field.start = @ + 1] = [a EXCEPT !.field = f]
    BY <1>3, <2>1 DEF Stream, Field
  <2> HIDE DEF f
  <2>3. PICK c \in Stream : /\ c = [a EXCEPT !.field = f] /\ SameRecord(a, c)
                            /\ c.field = f /\ c.mode = a.mode
    BY <1>5, <2>1, FieldEdit
  <2>4. t = Advance(c, 1)
    BY <2>2, <2>3
  <2> HIDE DEF t
  <2>5. t \in Stream /\ SameButCounts(c, t)
    BY <2>4, AdvanceProperties
  <2> QED BY <1>3, <2>1, <2>3, <2>5 DEF SameButCounts, SameRecord
<1>7. IF offset + 1 < Len(chunk) THEN Goes(u, offset + 1)
      ELSE Buffers(u, [u EXCEPT !.field = EnsureBuffered(@)], offset + 1)
  BY <1>6 DEF OpenQuote
<1> HIDE DEF f, t
<1>8. Typed(u, offset + 1)
  BY <1>2, <1>4, <1>5, <1>6, LengthFacts DEF Typed, Waiting
<1>9. Points(u.field)
  BY <1>2, <1>8, TypedPoints
<1>10. FieldLen(f) = 0 /\ First(f) = offset + 1 /\ 0 <= MaxFieldBytes + 1
  BY <1>2, <1>5, ConstantFacts DEF FieldLen, First, NoOffset
<1>11. "QUOTED_FIELD" \in WithinField /\ "START_OF_FIELD" \in WithinField \union {"START_OF_FIELD"}
       /\ "QUOTED_FIELD" \notin {"UNQUOTED_FIELD", "QUOTE_IN_QUOTED", "ESCAPE_IN_QUOTED"}
  BY DEF WithinField, FieldModes
<1>12. CASE offset + 1 < Len(chunk)
  <2>1. Goes(u, offset + 1)
    BY <1>7, <1>12
  <2>2. Bounded(u, offset + 1)
    BY <1>1, <1>2, <1>5, <1>6, <1>10, <1>11 DEF Bounded, Reaches, SameRecord
  <2>3. offset + 1 # Len(chunk)
    BY <1>2, <1>12, LengthFacts
  <2>4. Ready(u, offset + 1, events, aborted)
    BY <1>1, <1>2, <1>6, <1>8, <1>11, <2>2, <2>3, StaysInField
  <2> QED BY <1>2, <2>1, <2>4, GoesKeeps
<1>13. CASE ~(offset + 1 < Len(chunk))
  <2>1. PICK g \in Field : /\ g = EnsureBuffered(u.field) /\ SamePlace(u.field, g)
                           /\ g.buffered /\ FieldLen(g) = FieldLen(u.field)
    BY <1>2, <1>9, EnsureBufferedProperties
  <2>2. PICK w \in Stream : /\ w = [u EXCEPT !.field = g] /\ SameRecord(u, w)
                            /\ w.field = g /\ w.mode = u.mode
    BY <2>1, FieldEdit
  <2>3. Buffers(u, w, offset + 1)
    BY <1>7, <1>13, <2>1, <2>2
  <2>4. SameRecord(Now, w) /\ w.mode = "QUOTED_FIELD"
    BY <1>6, <2>2 DEF SameRecord
  <2>5. Typed(w, offset + 1)
    BY <1>8, <2>1, <2>2 DEF Typed, Waiting, SamePlace
  <2>6. Bounded(w, offset + 1) /\ Kept(w)
    BY <1>1, <1>5, <1>6, <1>10, <1>11, <2>1, <2>2, <2>4
       DEF Bounded, Reaches, SameRecord, SamePlace, Kept
  <2>7. Ready(w, offset + 1, events, aborted)
    BY <1>1, <1>2, <1>11, <2>4, <2>5, <2>6, StaysInField
  <2> QED BY <1>2, <1>8, <2>3, <2>7, BuffersKeeps
<1> QED BY <1>12, <1>13

LEMMA EmptyFieldAtDelimiterKeeps ==
  ASSUME Inv, EmptyFieldAtDelimiter, UNCHANGED <<input, finished>>
  PROVE  Inv'
<1>1. /\ Handling("START_OF_FIELD") /\ Now.fieldCount < MaxCols
      /\ "START_OF_FIELD" \in WithinField \union {"START_OF_FIELD"}
      /\ EndsField(Fresh, offset)
  BY FieldStarts DEF EmptyFieldAtDelimiter
<1>2. pc # "idle" /\ offset \in 0..Len(chunk) /\ offset < Len(chunk) /\ ControlOK
  BY <1>1, HandlerFinds DEF Inv
<1>3. /\ SameRecord(Now, Fresh) /\ Typed(Fresh, offset) /\ Points(Fresh.field)
      /\ FieldLen(Fresh.field) = 0
  BY <1>1, FreshProperties
<1>4. Len(Content(Fresh.field)) <= MaxFieldBytes
  BY <1>2, <1>3, RawProperties, ConstantFacts
<1>5. Open(Fresh)
  BY <1>1, <1>3, <1>4, MayEndField
<1> QED BY <1>1, <1>2, <1>3, <1>5, EndsFieldKeeps

LEMMA EmptyFieldAtNewlineKeeps ==
  ASSUME Inv, EmptyFieldAtNewline, UNCHANGED <<input, finished>>
  PROVE  Inv'
<1>1. /\ Handling("START_OF_FIELD") /\ Now.fieldCount < MaxCols
      /\ "START_OF_FIELD" \in WithinField \union {"START_OF_FIELD"}
  BY FieldStarts DEF EmptyFieldAtNewline
<1>2. /\ pc # "idle" /\ offset \in 0..Len(chunk) /\ ControlOK /\ Newline \in Nat
      /\ offset + Newline \in 0..Len(chunk)
  BY <1>1, HandlerFinds DEF Inv
<1>3. /\ Fresh \in Stream /\ SameRecord(Now, Fresh) /\ Typed(Fresh, offset)
      /\ Points(Fresh.field) /\ FieldLen(Fresh.field) = 0
  BY <1>1, FreshProperties
<1>4. PICK t \in Stream : t = PastNewline(Fresh, Newline) /\ SameButCounts(Fresh, t)
  BY <1>2, <1>3, AdvanceProperties
<1>5. /\ SameRecord(Now, t) /\ Typed(t, offset) /\ Points(t.field)
      /\ Len(Content(t.field)) <= MaxFieldBytes
  <2>1. SameRecord(Now, t) /\ t.field = Fresh.field /\ t.mode = Fresh.mode
    BY <1>3, <1>4 DEF SameRecord, SameButCounts
  <2>2. Len(Content(Fresh.field)) <= MaxFieldBytes
    BY <1>2, <1>3, RawProperties, ConstantFacts
  <2> QED BY <1>3, <2>1, <2>2 DEF Typed, Waiting
<1>6. Open(t)
  BY <1>1, <1>5, MayEndField
<1> DEFINE e == Event("RECORD_END", t, <<>>)
<1>7. e \in Events /\ e.type = "RECORD_END" /\ e.row = t.rowCount
  <2>1. <<>> \in Seq(Codes)
    BY EmptySeq
  <2> QED BY <2>1, EventProperties
<1>8. \/ /\ Continue(EndRecord(t), offset + Newline)
         /\ events' = events \o <<FieldEvent(t), e>> /\ UNCHANGED aborted
      \/ Refused(t, <<<<FieldEvent(t), e>>[1]>>)
      \/ Refused(t, <<FieldEvent(t), e>>)
  BY <1>4 DEF EmptyFieldAtNewline
<1> HIDE DEF e
<1>9. <<FieldEvent(t)>> \in Seq(Events) /\ <<FieldEvent(t), e>> \in Seq(Events)
  BY <1>5, <1>6, <1>7, RecordTold
<1>10. <<FieldEvent(t), e>>[1] = FieldEvent(t)
  OBVIOUS
<1>11. CASE /\ Continue(EndRecord(t), offset + Newline)
            /\ events' = events \o <<FieldEvent(t), e>> /\ UNCHANGED aborted
  BY <1>2, <1>5, <1>6, <1>7, <1>11, RecordEnded
<1>12. CASE Refused(t, <<FieldEvent(t)>>)
  BY <1>2, <1>5, <1>9, <1>12, RefusedKeeps
<1>13. CASE Refused(t, <<FieldEvent(t), e>>)
  BY <1>2, <1>5, <1>9, <1>13, RefusedKeeps
<1> QED BY <1>8, <1>10, <1>11, <1>12, <1>13

LEMMA OpenUnquotedKeeps ==
  ASSUME Inv, OpenUnquoted, UNCHANGED <<input, finished>>
  PROVE  Inv'
<1>1. /\ Handling("START_OF_FIELD") /\ Now.fieldCount < MaxCols
      /\ "START_OF_FIELD" \in WithinField \union {"START_OF_FIELD"}
  BY FieldStarts DEF OpenUnquoted
<1>2. /\ pc # "idle" /\ offset \in Nat /\ offset + 1 \in 0..Len(chunk) /\ ControlOK
  BY <1>1, HandlerFinds DEF Inv
<1>3. /\ Fresh \in Stream /\ SameRecord(Now, Fresh) /\ Fresh.field \in Field
      /\ ~Fresh.field.buffered /\ Fresh.field.at = Base + offset
  BY <1>1, FreshProperties
<1> DEFINE f == [Fresh.field EXCEPT !.len = 1]
           t == Advance([Fresh EXCEPT !.mode = "UNQUOTED_FIELD", !.field.len = 1], 1)
<1>4. f \in Field /\ f.at = Fresh.field.at /\ f.len = 1 /\ f.buffered = Fresh.field.buffered
  BY <1>3 DEF Field
<1>5. /\ t \in Stream /\ SameRecord(Now, t) /\ t.mode = "UNQUOTED_FIELD" /\ t.field = f
  <2>1. PICK a \in Stream : /\ a = [Fresh EXCEPT !.mode = "UNQUOTED_FIELD"]
                            /\ SameRecord(Fresh, a) /\ a.mode = "UNQUOTED_FIELD"
                            /\ a.field = Fresh.field
    <3>1. "UNQUOTED_FIELD" \in Modes
      BY DEF Modes, FieldModes
    <3> QED BY <1>3, <3>1, ModeEdit
  <2>2. [Fresh EXCEPT !.mode = "UNQUOTED_FIELD", !.field.len = 1] = [a EXCEPT !.field = f]
    BY <1>3, <2>1 DEF Stream, Field
  <2> HIDE DEF f
  <2>3. PICK c \in Stream : /\ c = [a EXCEPT !.field = f] /\ SameRecord(a, c)
                            /\ c.field = f /\ c.mode = a.mode
    BY <1>4, <2>1, FieldEdit
  <2>4. t = Advance(c, 1)
    BY <2>2, <2>3
  <2> HIDE DEF t
  <2>5. t \in Stream /\ SameButCounts(c, t)
    BY <2>4, AdvanceProperties
  <2> QED BY <1>3, <2>1, <2>3, <2>5 DEF SameButCounts, SameRecord
<1>6. Goes(t, offset + 1)
  BY DEF OpenUnquoted
<1> HIDE DEF f, t
<1>7. Typed(t, offset + 1)
  BY <1>2, <1>3, <1>4, <1>5, LengthFacts DEF Typed, Waiting
<1>8. Bounded(t, offset + 1) /\ Kept(t)
  <2>1. FieldLen(f) = 1 /\ 1 <= MaxFieldBytes
    BY <1>3, <1>4, ConstantFacts DEF FieldLen
  <2> QED BY <1>1, <1>4, <1>5, <2>1 DEF Bounded, SameRecord, Kept
<1>9. t.mode \in WithinField
  BY <1>5 DEF WithinField, FieldModes
<1>10. Ready(t, offset + 1, events, aborted)
  BY <1>1, <1>2, <1>5, <1>7, <1>8, <1>9, StaysInField
<1> QED BY <1>2, <1>6, <1>10, GoesKeeps

-----------------------------------------------------------------------------
(* An unquoted field.                                                      *)

\* What the handlers of a field in progress find.
LEMMA FieldGoesOn ==
  ASSUME Inv, NEW mode \in WithinField, Handling(mode)
  PROVE  /\ pc # "idle" /\ Now.mode = mode /\ Now \in Stream /\ Typed(Now, offset)
         /\ Now.field \in Field /\ Points(Now.field) /\ FieldLen(Now.field) \in Nat
         /\ offset \in Nat /\ offset \in 0..Len(chunk) /\ offset < Len(chunk)
         /\ offset + 1 \in 0..Len(chunk) /\ Len(chunk) \in Nat
         /\ Newline \in Nat /\ offset + Newline \in 0..Len(chunk)
         /\ Here \in Codes /\ ControlOK /\ mode \in WithinField \union {"START_OF_FIELD"}
         /\ aborted = "no" => Bounded(Now, offset) /\ Now.fieldCount < MaxCols
<1>1. /\ pc # "idle" /\ Now.mode = mode /\ Now \in Stream /\ Typed(Now, offset)
      /\ Points(Now.field) /\ offset \in Nat /\ offset \in 0..Len(chunk)
      /\ offset < Len(chunk) /\ offset + 1 \in 0..Len(chunk)
      /\ Newline \in Nat /\ offset + Newline \in 0..Len(chunk) /\ Here \in Bytes
      /\ aborted = "no" => Bounded(Now, offset)
  BY HandlerFinds
<1>2. ControlOK /\ Len(chunk) \in Nat
  BY LengthFacts DEF Inv
<1>3. Now.field \in Field /\ FieldLen(Now.field) \in Nat
  BY <1>1, <1>2, RawProperties, StreamFacts
<1>4. aborted = "no" => Now.fieldCount < MaxCols
  BY <1>1 DEF Bounded, WithinField
<1> QED BY <1>1, <1>2, <1>3, <1>4, ByteFacts

LEMMA UnquotedIsWithin == "UNQUOTED_FIELD" \in WithinField
BY DEF WithinField, FieldModes

LEMMA UnquotedTooLongKeeps ==
  ASSUME Inv, UnquotedTooLong, UNCHANGED <<input, finished>>
  PROVE  Inv'
BY HandlerFails DEF UnquotedTooLong, ErrorCodes

LEMMA UnquotedRejectedKeeps ==
  ASSUME Inv, UnquotedRejected, UNCHANGED <<input, finished>>
  PROVE  Inv'
BY HandlerFails DEF UnquotedRejected, Unquoted, InvalidCode, ErrorCodes

LEMMA UnquotedDelimiterKeeps ==
  ASSUME Inv, UnquotedDelimiter, UNCHANGED <<input, finished>>
  PROVE  Inv'
<1>1. Handling("UNQUOTED_FIELD") /\ FieldLen(Now.field) < MaxFieldBytes /\ EndsField(Now, offset)
  BY DEF UnquotedDelimiter, Unquoted
<1>2. /\ pc # "idle" /\ Typed(Now, offset) /\ Points(Now.field) /\ ControlOK
      /\ offset \in 0..Len(chunk) /\ offset < Len(chunk)
      /\ FieldLen(Now.field) \in Nat /\ (aborted = "no" => Now.fieldCount < MaxCols)
      /\ "UNQUOTED_FIELD" \in WithinField \union {"START_OF_FIELD"}
  BY <1>1, UnquotedIsWithin, FieldGoesOn
<1>3. Len(Content(Now.field)) <= MaxFieldBytes
  BY <1>1, <1>2, RawProperties, ConstantFacts
<1>4. Open(Now)
  BY <1>1, <1>2, <1>3, MayEndField DEF SameRecord
<1> QED BY <1>1, <1>2, <1>4, EndsFieldKeeps

LEMMA UnquotedNewlineKeeps ==
  ASSUME Inv, UnquotedNewline, UNCHANGED <<input, finished>>
  PROVE  Inv'
<1>1. Handling("UNQUOTED_FIELD") /\ FieldLen(Now.field) < MaxFieldBytes
  BY DEF UnquotedNewline, Unquoted
<1>2. /\ pc # "idle" /\ Now \in Stream /\ Typed(Now, offset) /\ Points(Now.field) /\ ControlOK
      /\ offset \in 0..Len(chunk) /\ Newline \in Nat /\ offset + Newline \in 0..Len(chunk)
      /\ FieldLen(Now.field) \in Nat /\ (aborted = "no" => Now.fieldCount < MaxCols)
      /\ "UNQUOTED_FIELD" \in WithinField \union {"START_OF_FIELD"}
  BY <1>1, UnquotedIsWithin, FieldGoesOn
<1>3. PICK a \in Stream : a = PastNewline(Now, Newline) /\ SameButCounts(Now, a)
  BY <1>2, AdvanceProperties
<1>4. PICK t \in Stream : t = PastNewline(a, Newline) /\ SameButCounts(a, t)
  BY <1>2, AdvanceProperties
<1>5. EndsRecord(t, offset + Newline)
  BY <1>3, <1>4 DEF UnquotedNewline
<1>6. SameRecord(Now, t) /\ t.field = Now.field /\ t.mode = Now.mode
  BY <1>3, <1>4 DEF SameButCounts, SameRecord
<1>7. Len(Content(t.field)) <= MaxFieldBytes
  BY <1>1, <1>2, <1>6, RawProperties, ConstantFacts
<1>8. Open(t)
  BY <1>1, <1>2, <1>6, <1>7, MayEndField
<1>9. Typed(t, offset)
  BY <1>2, <1>6 DEF Typed, Waiting
<1> QED BY <1>2, <1>5, <1>8, <1>9, EndsRecordKeeps

\* The bulk scan stops within the chunk.
LEMMA ScanStopProperties ==
  ASSUME ControlOK, NEW p \in Nat, p < Len(chunk)
  PROVE  ScanStop(p) \in Nat /\ p <= ScanStop(p) /\ ScanStop(p) <= Len(chunk)
<1> DEFINE S == {q \in p..(Len(chunk) - 1) : StopsScan(Byte(q))} \union {Len(chunk)}
<1>1. Len(chunk) \in Nat
  BY LengthFacts
<1>2. S \in SUBSET Nat /\ S # {} /\ \A q \in S : p <= q /\ q <= Len(chunk)
  BY <1>1
<1>3. ScanStop(p) = Min(S)
  BY DEF ScanStop
<1> HIDE DEF S
<1>4. Min(S) \in S
  BY <1>2, MinProperties
<1> QED BY <1>2, <1>3, <1>4

LEMMA ExtendedProperties ==
  ASSUME ControlOK, NEW f, Points(f), NEW n \in Nat, offset + n <= Len(chunk)
  PROVE  /\ Extended(f, n) \in Field /\ FieldLen(Extended(f, n)) = FieldLen(f) + n
         /\ Extended(f, n).at + Extended(f, n).len <= f.at + f.len + n
<1>1. /\ f \in Field /\ f.at \in Nat /\ f.len \in Nat /\ f.buffered \in BOOLEAN
      /\ offset \in Nat /\ Len(chunk) \in Nat /\ chunk \in Seq(Bytes)
  BY LengthFacts DEF Points, Field, ControlOK
<1>2. CASE f.buffered
  <2> DEFINE more == SubSeq(chunk, offset + 1, offset + n)
  <2>1. more \in Seq(Codes) /\ Len(more) = n
    <3>1. offset + 1 \in Nat \ {0} /\ offset + n \in Int
      BY <1>1
    <3>2. /\ more \in Seq(Codes)
          /\ Len(more) = IF offset + 1 <= offset + n THEN (offset + n) - (offset + 1) + 1 ELSE 0
      BY <1>1, <3>1, PartOfBytes
    <3> QED BY <1>1, <3>2
  <2>2. Extended(f, n) = Append2(f, more)
    BY <1>2 DEF Extended
  <2> HIDE DEF more
  <2>3. /\ Append2(f, more) \in Field /\ SamePlace(f, Append2(f, more))
        /\ FieldLen(Append2(f, more)) = FieldLen(f) + Len(more)
    BY <2>1, Append2Properties
  <2> QED BY <1>1, <2>1, <2>2, <2>3 DEF SamePlace
<1>3. CASE ~f.buffered
  <2>1. PICK k \in Nat : k = f.len + n
    BY <1>1
  <2>2. Extended(f, n) = [f EXCEPT !.len = k]
    BY <1>3, <2>1 DEF Extended
  <2>3. /\ Extended(f, n) \in Field /\ Extended(f, n).len = k /\ Extended(f, n).at = f.at
        /\ Extended(f, n).buffered = f.buffered
    BY <1>1, <2>2 DEF Field
  <2> QED BY <1>1, <1>3, <2>1, <2>3 DEF FieldLen
<1> QED BY <1>1, <1>2, <1>3

LEMMA UnquotedBulkKeeps ==
  ASSUME Inv, UnquotedBulk, UNCHANGED <<input, finished>>
  PROVE  Inv'
<1>1. Handling("UNQUOTED_FIELD") /\ FieldLen(Now.field) < MaxFieldBytes
  BY DEF UnquotedBulk, Unquoted
<1>2. /\ pc # "idle" /\ Now.mode = "UNQUOTED_FIELD" /\ Now \in Stream /\ Typed(Now, offset)
      /\ Points(Now.field) /\ FieldLen(Now.field) \in Nat
      /\ offset \in Nat /\ offset \in 0..Len(chunk) /\ offset < Len(chunk)
      /\ ControlOK /\ Len(chunk) \in Nat
      /\ "UNQUOTED_FIELD" \in WithinField \union {"START_OF_FIELD"}
      /\ aborted = "no" => Now.fieldCount < MaxCols
  BY <1>1, UnquotedIsWithin, FieldGoesOn
<1> DEFINE stop == ScanStop(offset)
           n    == IF stop - offset > Room THEN Room ELSE stop - offset
           p    == offset + n
           t    == Advance([Now EXCEPT !.field = Extended(@, n)], n)
           nl   == NewlineAt(p)
<1>3. stop \in Nat /\ offset <= stop /\ stop <= Len(chunk)
  BY <1>2, ScanStopProperties
<1>4. Room \in Nat /\ FieldLen(Now.field) + Room = MaxFieldBytes
  BY <1>1, <1>2, ConstantFacts DEF Room
<1>5. /\ n \in Nat /\ p \in Nat /\ p <= stop /\ p \in 0..Len(chunk) /\ offset + n <= Len(chunk)
      /\ FieldLen(Now.field) + n <= MaxFieldBytes /\ offset <= p
  BY <1>1, <1>2, <1>3, <1>4, ConstantFacts
<1>6. \/ p = Len(chunk) /\ Buffers(t, [t EXCEPT !.field = EnsureBuffered(@)], p)
      \/ p < stop /\ Goes(t, p)
      \/ /\ p = stop /\ p < Len(chunk)
         /\ \/ Byte(p) = "delim" /\ EndsField(t, p)
            \/ nl > 0 /\ EndsRecord(PastNewline(t, nl), p + nl)
            \/ /\ nl = 0 /\ UnquotedInvalid(Byte(p))
               /\ Fails(t, InvalidCode(Byte(p)))
      \/ Now.field.buffered /\ Starved(Now)
  BY DEF UnquotedBulk
<1>7. PICK f \in Field : /\ f = Extended(Now.field, n) /\ FieldLen(f) <= MaxFieldBytes
                         /\ f.at + f.len <= Now.field.at + Now.field.len + n
  BY <1>2, <1>5, ExtendedProperties
<1> HIDE DEF n, stop
<1>8. /\ t \in Stream /\ SameRecord(Now, t) /\ t.mode = "UNQUOTED_FIELD" /\ t.field = f
  <2>1. PICK a \in Stream : /\ a = [Now EXCEPT !.field = f] /\ SameRecord(Now, a)
                            /\ a.field = f /\ a.mode = Now.mode
    BY <1>2, FieldEdit
  <2>2. t = Advance(a, n)
    BY <1>7, <2>1
  <2> HIDE DEF t
  <2>3. t \in Stream /\ SameButCounts(a, t)
    BY <1>5, <2>2, AdvanceProperties
  <2> QED BY <1>2, <2>1, <2>3 DEF SameButCounts, SameRecord
<1> HIDE DEF t
<1>9. Typed(t, p)
  <2>1. p - offset = n
    BY <1>2, <1>5
  <2> HIDE DEF p
  <2> QED BY <1>2, <1>5, <1>7, <1>8, <2>1, TypedLater
<1>10. Points(t.field)
  BY <1>2, <1>5, <1>9, TypedPoints
<1>11. Open(t)
  <2>1. Len(Content(f)) <= MaxFieldBytes
    BY <1>2, <1>7, <1>8, <1>10, RawProperties, ConstantFacts
  <2> QED BY <1>1, <1>2, <1>8, <2>1, MayEndField
<1>12. aborted = "no" => Bounded(t, p)
  BY <1>2, <1>7, <1>8 DEF Bounded, SameRecord
<1> HIDE DEF p
<1>13. CASE p = Len(chunk) /\ Buffers(t, [t EXCEPT !.field = EnsureBuffered(@)], p)
  <2>1. PICK g \in Field : /\ g = EnsureBuffered(f) /\ SamePlace(f, g)
                           /\ g.buffered /\ FieldLen(g) = FieldLen(f)
    BY <1>2, <1>8, <1>10, EnsureBufferedProperties
  <2>2. PICK w \in Stream : /\ w = [t EXCEPT !.field = g] /\ SameRecord(t, w)
                            /\ w.field = g /\ w.mode = t.mode
    BY <1>8, FieldEdit
  <2>3. Buffers(t, w, p)
    BY <1>8, <1>13, <2>1, <2>2
  <2>4. SameRecord(Now, w) /\ w.mode = "UNQUOTED_FIELD"
    BY <1>8, <2>2 DEF SameRecord
  <2>5. Typed(w, p)
    BY <1>8, <1>9, <2>1, <2>2 DEF Typed, Waiting, SamePlace
  <2>6. aborted = "no" => Bounded(w, p) /\ Kept(w)
    BY <1>2, <1>7, <2>1, <2>2, <2>4 DEF Bounded, SameRecord, Kept
  <2>7. Ready(w, p, events, aborted)
    BY <1>1, <1>2, <1>5, <2>4, <2>5, <2>6, UnquotedIsWithin, StaysInField
  <2> QED BY <1>2, <1>5, <1>9, <2>3, <2>7, BuffersKeeps
<1>14. CASE p < stop /\ Goes(t, p)
  <2>1. p # Len(chunk)
    BY <1>2, <1>3, <1>5, <1>14
  <2>2. Ready(t, p, events, aborted)
    BY <1>1, <1>2, <1>5, <1>8, <1>9, <1>12, <2>1, UnquotedIsWithin, StaysInField
  <2> QED BY <1>2, <1>5, <1>14, <2>2, GoesKeeps
<1>15. CASE p < Len(chunk) /\ EndsField(t, p)
  BY <1>2, <1>5, <1>9, <1>11, <1>15, EndsFieldKeeps
<1>16. CASE p < Len(chunk) /\ EndsRecord(PastNewline(t, nl), p + nl)
  <2>1. nl \in Nat /\ p + nl \in 0..Len(chunk)
    <3>1. p \in 0..Len(chunk) /\ p < Len(chunk)
      BY <1>5, <1>16
    <3>2. NewlineAt(p) \in 0..2 /\ p + NewlineAt(p) \in 0..Len(chunk)
      BY <1>2, <3>1, NewlineProperties
    <3> QED BY <3>2 DEF nl
  <2> HIDE DEF nl
  <2>2. PICK u \in Stream : u = PastNewline(t, nl) /\ SameButCounts(t, u)
    BY <1>8, <2>1, AdvanceProperties
  <2>3. Typed(u, p) /\ Open(u)
    BY <1>9, <1>11, <2>2 DEF Typed, Waiting, Open, InField, SameButCounts, SameRecord
  <2> QED BY <1>2, <1>5, <1>16, <2>1, <2>2, <2>3, EndsRecordKeeps
<1>17. CASE Fails(t, InvalidCode(Byte(p)))
  <2>1. InvalidCode(Byte(p)) \in ErrorCodes \ {"OK"}
    BY DEF InvalidCode, ErrorCodes
  <2> QED BY <1>2, <1>5, <1>9, <1>17, <2>1, FailsKeeps
<1>18. CASE Now.field.buffered /\ Starved(Now)
  BY <1>2, <1>18, StarvedKeeps
<1> HIDE DEF nl
<1> QED BY <1>6, <1>13, <1>14, <1>15, <1>16, <1>17, <1>18

-----------------------------------------------------------------------------
(* A quoted field.                                                         *)

LEMMA QuotedAreWithin ==
  /\ {"QUOTED_FIELD", "QUOTE_IN_QUOTED", "ESCAPE_IN_QUOTED"} \subseteq WithinField
  /\ {"QUOTED_FIELD", "QUOTE_IN_QUOTED", "ESCAPE_IN_QUOTED"} \subseteq Modes
BY DEF WithinField, Modes, FieldModes

\* The two flags a handler of a quoted field sets.
LEMMA FlagEdit ==
  ASSUME NEW t \in Stream, NEW b \in BOOLEAN
  PROVE  /\ [t EXCEPT !.atBoundary = b] \in Stream
         /\ SameButCounts(t, [t EXCEPT !.atBoundary = b])
         /\ [t EXCEPT !.doubled = b] \in Stream
         /\ SameButCounts(t, [t EXCEPT !.doubled = b])
BY DEF Stream, SameButCounts, SameRecord

\* A handler goes on within the field ...
LEMMA GoesOnInField ==
  ASSUME Inv, NEW mode \in WithinField, Handling(mode), NEW u, SameRecord(Now, u),
         u.mode \in WithinField, NEW p \in 0..Len(chunk), Typed(u, p),
         aborted = "no" => Bounded(u, p) /\ (p = Len(chunk) => Kept(u)),
         Goes(u, p), UNCHANGED <<input, finished>>
  PROVE  Inv'
<1>1. Ready(u, p, events, aborted)
  BY StaysInField
<1> QED BY <1>1, HandlerFinds, GoesKeeps

\* ... or ends it, or its record, here.
LEMMA EndsFieldHere ==
  ASSUME Inv, NEW mode \in WithinField, Handling(mode), NEW u, SameRecord(Now, u),
         Typed(u, offset), aborted = "no" => Len(Content(u.field)) <= MaxFieldBytes,
         EndsField(u, offset), UNCHANGED <<input, finished>>
  PROVE  Inv'
BY FieldGoesOn, MayEndField, EndsFieldKeeps

LEMMA EndsRecordHere ==
  ASSUME Inv, NEW mode \in WithinField, Handling(mode), NEW u, SameRecord(Now, u),
         Typed(u, offset), aborted = "no" => Len(Content(u.field)) <= MaxFieldBytes,
         EndsRecord(u, offset + Newline), UNCHANGED <<input, finished>>
  PROVE  Inv'
BY FieldGoesOn, MayEndField, EndsRecordKeeps

LEMMA QuotedTooLongKeeps ==
  ASSUME Inv, QuotedTooLong, UNCHANGED <<input, finished>>
  PROVE  Inv'
BY HandlerFails DEF QuotedTooLong, ErrorCodes

\* What the handlers of QUOTED_FIELD find below the limit of the field.
LEMMA QuotedFinds ==
  ASSUME Inv, NEW b, Quoted(b)
  PROVE  /\ Handling("QUOTED_FIELD") /\ "QUOTED_FIELD" \in WithinField
         /\ FieldLen(Now.field) < MaxFieldBytes
         /\ aborted = "no" => Now.field.quoted /\ Reaches(Now.field, offset)
<1>1. Handling("QUOTED_FIELD") /\ "QUOTED_FIELD" \in WithinField
      /\ FieldLen(Now.field) < MaxFieldBytes
  BY QuotedAreWithin DEF Quoted
<1>2. Now.mode = "QUOTED_FIELD" /\ (aborted = "no" => Bounded(Now, offset))
  BY <1>1, FieldGoesOn
<1> QED BY <1>1, <1>2 DEF Bounded

LEMMA QuotedEndsAfterDoubledKeeps ==
  ASSUME Inv, QuotedEndsAfterDoubled, UNCHANGED <<input, finished>>
  PROVE  Inv'
<1>1. /\ Handling("QUOTED_FIELD") /\ "QUOTED_FIELD" \in WithinField
      /\ FieldLen(Now.field) < MaxFieldBytes
  BY QuotedFinds DEF QuotedEndsAfterDoubled
<1>2. /\ Now \in Stream /\ Typed(Now, offset) /\ Points(Now.field) /\ ControlOK
      /\ FieldLen(Now.field) \in Nat /\ Newline \in Nat
  BY <1>1, FieldGoesOn
<1>3. Len(Content(Now.field)) <= MaxFieldBytes
  BY <1>1, <1>2, RawProperties, ConstantFacts
<1>4. CASE EndsField(Now, offset)
  BY <1>1, <1>2, <1>3, <1>4, EndsFieldHere DEF SameRecord
<1>5. CASE EndsRecord(PastNewline(Now, Newline), offset + Newline)
  <2>1. PICK t \in Stream : t = PastNewline(Now, Newline) /\ SameButCounts(Now, t)
    BY <1>2, AdvanceProperties
  <2>2. Typed(t, offset) /\ Len(Content(t.field)) <= MaxFieldBytes
    BY <1>2, <1>3, <2>1 DEF Typed, Waiting, SameButCounts
  <2> QED BY <1>1, <1>5, <2>1, <2>2, EndsRecordHere DEF SameButCounts
<1> QED BY <1>4, <1>5 DEF QuotedEndsAfterDoubled

LEMMA QuotedBackslashKeeps ==
  ASSUME Inv, QuotedBackslash, UNCHANGED <<input, finished>>
  PROVE  Inv'
<1>1. /\ Handling("QUOTED_FIELD") /\ "QUOTED_FIELD" \in WithinField
      /\ FieldLen(Now.field) < MaxFieldBytes
      /\ aborted = "no" => Now.field.quoted /\ Reaches(Now.field, offset)
      /\ Goes(Advance([Now EXCEPT !.mode = "ESCAPE_IN_QUOTED"], 1), offset + 1)
  BY QuotedFinds DEF QuotedBackslash
<1>2. /\ Now \in Stream /\ Typed(Now, offset) /\ Now.mode = "QUOTED_FIELD"
      /\ offset \in Nat /\ offset + 1 \in 0..Len(chunk) /\ ControlOK
      /\ aborted = "no" => Now.fieldCount < MaxCols
  BY <1>1, FieldGoesOn
<1>3. PICK a \in Stream : /\ a = [Now EXCEPT !.mode = "ESCAPE_IN_QUOTED"]
                          /\ SameRecord(Now, a) /\ a.mode = "ESCAPE_IN_QUOTED"
                          /\ a.field = Now.field
  BY <1>2, ModeEdit, QuotedAreWithin
<1>4. PICK u \in Stream : u = Advance(a, 1) /\ SameButCounts(a, u)
  BY AdvanceProperties
<1>5. /\ SameRecord(Now, u) /\ u.mode = "ESCAPE_IN_QUOTED" /\ u.field = Now.field
      /\ Goes(u, offset + 1) /\ u.mode \in WithinField
  BY <1>1, <1>3, <1>4, QuotedAreWithin DEF SameButCounts, SameRecord
<1>6. Typed(u, offset + 1)
  <2>1. /\ Base \in Nat /\ u.field.at \in Nat /\ u.field.len \in Nat
        /\ u.field.at + u.field.len + 0 <= Base + offset
    BY <1>2, <1>5, LengthFacts, StreamFacts DEF Typed, Waiting
  <2> QED BY <1>2, <1>5, <2>1 DEF Typed, Waiting
<1>7. aborted = "no" => Bounded(u, offset + 1)
  <2>1. (offset + 1) - 1 = offset
    BY <1>2
  <2> QED BY <1>1, <1>2, <1>5, <2>1 DEF Bounded, SameRecord
<1>8. Kept(u)
  BY <1>5 DEF Kept, FieldModes
<1> QED BY <1>1, <1>2, <1>5, <1>6, <1>7, <1>8, GoesOnInField

LEMMA QuotedQuoteKeeps ==
  ASSUME Inv, QuotedQuote, UNCHANGED <<input, finished>>
  PROVE  Inv'
<1>1. /\ Handling("QUOTED_FIELD") /\ "QUOTED_FIELD" \in WithinField
      /\ FieldLen(Now.field) < MaxFieldBytes
      /\ aborted = "no" => Now.field.quoted /\ Reaches(Now.field, offset)
  BY QuotedFinds DEF QuotedQuote
<1>2. /\ Now \in Stream /\ Typed(Now, offset) /\ Now.mode = "QUOTED_FIELD"
      /\ Now.field \in Field /\ FieldLen(Now.field) \in Nat /\ pc # "idle"
      /\ offset \in Nat /\ offset + 1 \in 0..Len(chunk) /\ ControlOK /\ Len(chunk) \in Nat
      /\ "QUOTED_FIELD" \in WithinField \union {"START_OF_FIELD"}
      /\ aborted = "no" => Now.fieldCount < MaxCols
  BY <1>1, FieldGoesOn
<1>3. PICK a \in Stream : /\ a = [Now EXCEPT !.mode = "QUOTE_IN_QUOTED"]
                          /\ SameRecord(Now, a) /\ a.mode = "QUOTE_IN_QUOTED"
                          /\ a.field = Now.field
  BY <1>2, ModeEdit, QuotedAreWithin
<1>4. PICK t \in Stream : t = Advance(a, 1) /\ SameButCounts(a, t)
  BY AdvanceProperties
<1>5. /\ SameRecord(Now, t) /\ t.mode = "QUOTE_IN_QUOTED" /\ t.field = Now.field
      /\ t.mode \in WithinField
  BY <1>3, <1>4, QuotedAreWithin DEF SameButCounts, SameRecord
<1>6. IF offset + 1 < Len(chunk)
      THEN Goes([t EXCEPT !.atBoundary = FALSE], offset + 1)
      ELSE Buffers(t, [t EXCEPT !.field = EnsureFieldBuffered(@, offset),
                                !.atBoundary = TRUE], offset + 1)
  BY <1>3, <1>4 DEF QuotedQuote
<1>7. Typed(t, offset + 1) /\ (offset + 1) - 1 = offset
  BY <1>2, <1>5, SameFieldLater
<1>8. CASE offset + 1 < Len(chunk)
  <2>1. PICK u \in Stream : u = [t EXCEPT !.atBoundary = FALSE] /\ SameButCounts(t, u)
    BY FlagEdit
  <2>2. Goes(u, offset + 1) /\ offset + 1 # Len(chunk)
    BY <1>2, <1>6, <1>8, <2>1
  <2>3. /\ SameRecord(Now, u) /\ u.mode = "QUOTE_IN_QUOTED" /\ u.field = Now.field
        /\ u.mode \in WithinField
    BY <1>5, <2>1 DEF SameButCounts, SameRecord
  <2>4. Typed(u, offset + 1)
    BY <1>7, <2>1 DEF Typed, Waiting, SameButCounts
  <2>5. aborted = "no" => Bounded(u, offset + 1)
    BY <1>1, <1>2, <1>7, <2>3 DEF Bounded, SameRecord
  <2> QED BY <1>1, <1>2, <2>2, <2>3, <2>4, <2>5, GoesOnInField
<1>9. CASE ~(offset + 1 < Len(chunk))
  <2>1. PICK g \in Field : /\ g = EnsureFieldBuffered(Now.field, offset)
                           /\ SamePlace(Now.field, g) /\ g.buffered /\ FieldLen(g) \in Nat
                           /\ Reaches(Now.field, offset) => FieldLen(g) <= FieldLen(Now.field)
    <3>1. offset \in Int /\ offset <= Len(chunk)
      BY <1>2
    <3> QED BY <1>2, <3>1, EnsureFieldBufferedProperties
  <2>2. PICK c \in Stream : /\ c = [t EXCEPT !.field = g] /\ SameRecord(t, c)
                            /\ c.field = g /\ c.mode = t.mode
    BY FieldEdit
  <2>3. PICK u \in Stream : u = [c EXCEPT !.atBoundary = TRUE] /\ SameButCounts(c, u)
    BY FlagEdit
  <2>4. Buffers(t, u, offset + 1)
    BY <1>5, <1>6, <1>9, <2>1, <2>2, <2>3
  <2>5. SameRecord(Now, u) /\ u.mode = "QUOTE_IN_QUOTED" /\ u.field = g
    BY <1>5, <2>2, <2>3 DEF SameButCounts, SameRecord
  <2>6. Typed(u, offset + 1)
    BY <1>5, <1>7, <2>1, <2>5 DEF Typed, Waiting, SamePlace
  <2>7. aborted = "no" => Bounded(u, offset + 1) /\ Kept(u)
    <3>1. aborted = "no" => FieldLen(g) < MaxFieldBytes /\ g.quoted
      BY <1>1, <1>2, <2>1, ConstantFacts DEF SamePlace
    <3> QED BY <1>2, <2>1, <2>5, <3>1 DEF Bounded, SameRecord, Reaches, Kept
  <2>8. Ready(u, offset + 1, events, aborted)
    BY <1>1, <1>2, <1>5, <2>5, <2>6, <2>7, StaysInField
  <2> QED BY <1>2, <1>7, <2>4, <2>8, BuffersKeeps
<1> QED BY <1>8, <1>9

\* A copy of the field at the end of the chunk keeps it as long as it was.
LEMMA CopiedAtEnd ==
  ASSUME ControlOK, NEW t \in Stream, NEW p \in 0..Len(chunk), Typed(t, p),
         t.mode = "QUOTED_FIELD"
  PROVE  LET u == [t EXCEPT !.field = EnsureFieldBuffered(@, p)]
         IN  /\ Typed(u, p) /\ SameRecord(t, u) /\ u.mode = "QUOTED_FIELD" /\ Kept(u)
             /\ Bounded(t, p) => Bounded(u, p)
<1>1. p \in Int /\ p <= Len(chunk) /\ t.field \in Field
  BY LengthFacts, StreamFacts
<1>2. PICK g \in Field : /\ g = EnsureFieldBuffered(t.field, p)
                         /\ SamePlace(t.field, g) /\ g.buffered /\ FieldLen(g) \in Nat
                         /\ Reaches(t.field, p) => FieldLen(g) <= FieldLen(t.field)
  BY <1>1, EnsureFieldBufferedProperties
<1>3. PICK u \in Stream : /\ u = [t EXCEPT !.field = g] /\ SameRecord(t, u)
                          /\ u.field = g /\ u.mode = t.mode
  BY FieldEdit
<1>4. Typed(u, p)
  BY <1>2, <1>3 DEF Typed, Waiting, SamePlace
<1>5. ASSUME Bounded(t, p) PROVE Bounded(u, p)
  <2>1. /\ FieldLen(t.field) <= MaxFieldBytes + 1 /\ t.field.quoted /\ Reaches(t.field, p)
        /\ t.fieldCount < MaxCols
    BY <1>5, QuotedAreWithin DEF Bounded, WithinField
  <2>2. FieldLen(t.field) \in Nat
    BY <1>1, TypedPoints, RawProperties
  <2>3. FieldLen(g) <= MaxFieldBytes + 1 /\ g.quoted
    BY <1>2, <2>1, <2>2, ConstantFacts DEF SamePlace
  <2> QED BY <1>2, <1>3, <2>1, <2>3 DEF Bounded, SameRecord, Reaches
<1> QED BY <1>2, <1>3, <1>4, <1>5 DEF Kept

LEMMA QuotedByteKeeps ==
  ASSUME Inv, QuotedByte, UNCHANGED <<input, finished>>
  PROVE  Inv'
<1>1. /\ Handling("QUOTED_FIELD") /\ "QUOTED_FIELD" \in WithinField
      /\ FieldLen(Now.field) < MaxFieldBytes
      /\ aborted = "no" => Now.field.quoted /\ Reaches(Now.field, offset)
  BY QuotedFinds DEF QuotedByte
<1>2. /\ Now \in Stream /\ Typed(Now, offset) /\ Now.mode = "QUOTED_FIELD"
      /\ Now.field \in Field /\ Points(Now.field) /\ FieldLen(Now.field) \in Nat
      /\ pc # "idle" /\ offset \in Nat /\ offset \in 0..Len(chunk) /\ Here \in Codes
      /\ offset + 1 \in 0..Len(chunk) /\ ControlOK /\ Len(chunk) \in Nat
      /\ aborted = "no" => Now.fieldCount < MaxCols
  BY <1>1, FieldGoesOn
<1> DEFINE f == IF Now.field.buffered THEN Append2(Now.field, <<Here>>)
                ELSE [Now.field EXCEPT !.len = @ + 1]
           last == offset + 1 = Len(chunk)
<1>3. /\ f \in Field /\ f.quoted = Now.field.quoted /\ FieldLen(f) = FieldLen(Now.field) + 1
      /\ f.at + f.len <= Now.field.at + Now.field.len + 1
      /\ Reaches(Now.field, offset) => Reaches(f, offset + 1)
  <2>1. /\ Now.field.at \in Nat /\ Now.field.len \in Nat /\ Now.field.buffered \in BOOLEAN
        /\ First(Now.field) \in Nat
    BY <1>2 DEF Field, First, NoOffset
  <2>2. CASE Now.field.buffered
    <3>1. <<Here>> \in Seq(Codes) /\ Len(<<Here>>) = 1
      BY <1>2
    <3>2. PICK g \in Field : /\ g = Append2(Now.field, <<Here>>) /\ SamePlace(Now.field, g)
                             /\ g.buffered /\ FieldLen(g) = FieldLen(Now.field) + 1
      BY <1>2, <3>1, Append2Properties
    <3> QED BY <2>1, <2>2, <3>2 DEF SamePlace, Reaches
  <2>3. CASE ~Now.field.buffered
    <3>1. PICK n \in Nat : n = Now.field.len + 1
      BY <2>1
    <3>2. f = [Now.field EXCEPT !.len = n]
      BY <2>3, <3>1
    <3> HIDE DEF f
    <3>3. /\ f \in Field /\ f.len = n /\ f.at = Now.field.at /\ f.start = Now.field.start
          /\ f.quoted = Now.field.quoted /\ f.buffered = Now.field.buffered
      BY <1>2, <3>2 DEF Field
    <3>4. First(f) = First(Now.field)
      BY <3>3 DEF First
    <3> QED BY <1>2, <2>1, <2>3, <3>1, <3>3, <3>4 DEF FieldLen, Reaches
  <2> QED BY <2>1, <2>2, <2>3
<1> DEFINE t == Advance([Now EXCEPT !.field = f], 1)
<1>4. \/ Goes(IF last THEN [t EXCEPT !.field = EnsureFieldBuffered(f, offset + 1)]
              ELSE t, offset + 1)
      \/ Starved(Now)
      \/ Starved(t)
  BY DEF QuotedByte
<1> HIDE DEF f
<1>5. /\ t \in Stream /\ SameRecord(Now, t) /\ t.mode = "QUOTED_FIELD" /\ t.field = f
  <2>1. PICK a \in Stream : /\ a = [Now EXCEPT !.field = f] /\ SameRecord(Now, a)
                            /\ a.field = f /\ a.mode = Now.mode
    BY <1>2, <1>3, FieldEdit
  <2>2. Advance(a, 1) \in Stream /\ SameButCounts(a, Advance(a, 1))
    BY AdvanceProperties
  <2> QED BY <1>2, <2>1, <2>2 DEF SameButCounts, SameRecord
<1> HIDE DEF t
<1>6. Typed(t, offset + 1)
  <2>1. offset + 1 \in Nat /\ offset <= offset + 1 /\ (offset + 1) - offset = 1
    BY <1>2
  <2>2. t.mode # "ESCAPE_IN_QUOTED"
    BY <1>5
  <2> QED BY <1>2, <1>3, <1>5, <2>1, <2>2, TypedLater
<1>7. aborted = "no" => Bounded(t, offset + 1)
  <2>1. FieldLen(f) <= MaxFieldBytes + 1
    BY <1>1, <1>2, <1>3, ConstantFacts
  <2> QED BY <1>1, <1>2, <1>3, <1>5, <2>1 DEF Bounded, SameRecord
<1>8. CASE last /\ Goes([t EXCEPT !.field = EnsureFieldBuffered(f, offset + 1)], offset + 1)
  <2>1. PICK u : u = [t EXCEPT !.field = EnsureFieldBuffered(@, offset + 1)]
    OBVIOUS
  <2>2. /\ Typed(u, offset + 1) /\ SameRecord(t, u) /\ u.mode = "QUOTED_FIELD" /\ Kept(u)
        /\ aborted = "no" => Bounded(u, offset + 1)
    BY <1>2, <1>5, <1>6, <1>7, <2>1, CopiedAtEnd
  <2>3. Goes(u, offset + 1) /\ SameRecord(Now, u)
    BY <1>5, <1>8, <2>1, <2>2 DEF SameRecord
  <2> QED BY <1>1, <1>2, <2>2, <2>3, GoesOnInField
<1>9. CASE ~last /\ Goes(t, offset + 1)
  BY <1>1, <1>2, <1>5, <1>6, <1>7, <1>9, GoesOnInField
<1>10. CASE Starved(Now)
  BY <1>2, <1>10, StarvedKeeps
<1>11. CASE Starved(t)
  BY <1>2, <1>6, <1>11, StarvedKeeps
<1> HIDE DEF last
<1> QED
  <2>1. CASE last
    BY <1>4, <1>8, <1>10, <1>11, <2>1
  <2>2. CASE ~last
    BY <1>4, <1>9, <1>10, <1>11, <2>2
  <2> QED BY <2>1, <2>2

-----------------------------------------------------------------------------
(* The byte after a quote, and the one after a backslash.                  *)

LEMMA SecondByteFinds ==
  ASSUME Inv, NEW mode \in {"QUOTE_IN_QUOTED", "ESCAPE_IN_QUOTED"}, Handling(mode)
  PROVE  /\ mode \in WithinField
         /\ aborted = "no" => /\ FieldLen(Now.field) < MaxFieldBytes
                              /\ Now.field.quoted /\ Reaches(Now.field, offset - 1)
<1>1. mode \in WithinField
  BY QuotedAreWithin
<1>2. Now.mode = mode /\ (aborted = "no" => Bounded(Now, offset))
  BY <1>1, FieldGoesOn
<1> QED BY <1>1, <1>2 DEF Bounded

\* The field copied up to the quote.
LEMMA CopiedBeforeQuote ==
  ASSUME Inv, Handling("QUOTE_IN_QUOTED")
  PROVE  LET f == EnsureFieldBuffered(Now.field, offset - 1)
         IN  /\ f \in Field /\ Points(f) /\ SamePlace(Now.field, f) /\ f.buffered
             /\ FieldLen(f) \in Nat
             /\ aborted = "no" => FieldLen(f) < MaxFieldBytes
<1>1. /\ Now.field \in Field /\ Points(Now.field) /\ FieldLen(Now.field) \in Nat
      /\ offset \in Nat /\ offset < Len(chunk) /\ Len(chunk) \in Nat /\ ControlOK
      /\ aborted = "no" => /\ FieldLen(Now.field) < MaxFieldBytes
                           /\ Reaches(Now.field, offset - 1)
  BY SecondByteFinds, FieldGoesOn
<1>2. PICK f \in Field : /\ f = EnsureFieldBuffered(Now.field, offset - 1)
                         /\ SamePlace(Now.field, f) /\ f.buffered /\ FieldLen(f) \in Nat
                         /\ Reaches(Now.field, offset - 1) => FieldLen(f) <= FieldLen(Now.field)
  <2>1. offset - 1 \in Int /\ offset - 1 <= Len(chunk)
    BY <1>1
  <2> QED BY <1>1, <2>1, EnsureFieldBufferedProperties
<1>3. Points(f)
  BY <1>1, <1>2 DEF Points, SamePlace
<1> QED BY <1>1, <1>2, <1>3, ConstantFacts

LEMMA BothQuotesAreBytes ==
  /\ BothQuotes \in Seq(Bytes) /\ BothQuotes \in Seq(Codes) /\ Len(BothQuotes) = 2
<1>1. "quote" \in Bytes /\ "quote" \in Codes
  BY ByteFacts
<1> QED BY <1>1 DEF BothQuotes

LEMMA DoubledQuoteKeeps ==
  ASSUME Inv, DoubledQuote, UNCHANGED <<input, finished>>
  PROVE  Inv'
<1>1. Handling("QUOTE_IN_QUOTED") /\ "QUOTE_IN_QUOTED" \in WithinField
  BY QuotedAreWithin DEF DoubledQuote, AfterQuote
<1>2. /\ pc # "idle" /\ Now \in Stream /\ Typed(Now, offset) /\ ControlOK
      /\ Now.mode = "QUOTE_IN_QUOTED" /\ Len(chunk) \in Nat
      /\ offset \in Nat /\ offset \in 0..Len(chunk) /\ offset + 1 \in 0..Len(chunk)
      /\ aborted = "no" => Now.fieldCount < MaxCols
  BY <1>1, FieldGoesOn
<1>3. aborted = "no" => Now.field.quoted
  BY <1>1, SecondByteFinds
<1>4. PICK f \in Field : /\ f = EnsureFieldBuffered(Now.field, offset - 1) /\ Points(f)
                         /\ SamePlace(Now.field, f) /\ FieldLen(f) \in Nat
                         /\ aborted = "no" => FieldLen(f) < MaxFieldBytes
  BY <1>1, CopiedBeforeQuote
<1>5. \/ Goes(Advance([Now EXCEPT !.field = Append2(f, BothQuotes),
                                  !.mode = "QUOTED_FIELD", !.doubled = TRUE,
                                  !.atBoundary = FALSE], 1), offset + 1)
      \/ \E k \in 0..1 : Starved([Now EXCEPT !.field = Append2(f, SubSeq(BothQuotes, 1, k))])
      \/ Starved(Now)
  BY <1>4 DEF DoubledQuote
<1>6. CASE Goes(Advance([Now EXCEPT !.field = Append2(f, BothQuotes),
                                    !.mode = "QUOTED_FIELD", !.doubled = TRUE,
                                    !.atBoundary = FALSE], 1), offset + 1)
  <2>1. PICK g \in Field : /\ g = Append2(f, BothQuotes) /\ SamePlace(f, g) /\ g.buffered
                           /\ FieldLen(g) = FieldLen(f) + 2
    BY <1>2, <1>4, BothQuotesAreBytes, Append2Properties
  <2>2. PICK a \in Stream : /\ a = [Now EXCEPT !.field = g] /\ SameRecord(Now, a) /\ a.field = g
    BY <1>2, FieldEdit
  <2>3. PICK b \in Stream : /\ b = [a EXCEPT !.mode = "QUOTED_FIELD"] /\ SameRecord(a, b)
                            /\ b.mode = "QUOTED_FIELD" /\ b.field = a.field
    BY ZenonT(60), ModeEdit, QuotedAreWithin
  <2>4. PICK c \in Stream : c = [b EXCEPT !.doubled = TRUE] /\ SameButCounts(b, c)
    BY FlagEdit
  <2>5. PICK d \in Stream : d = [c EXCEPT !.atBoundary = FALSE] /\ SameButCounts(c, d)
    BY FlagEdit
  <2>6. PICK u \in Stream : u = Advance(d, 1) /\ SameButCounts(d, u)
    BY AdvanceProperties
  <2>7. d = [Now EXCEPT !.field = g, !.mode = "QUOTED_FIELD", !.doubled = TRUE,
                        !.atBoundary = FALSE]
    BY <2>2, <2>3, <2>4, <2>5
  <2>8. Goes(u, offset + 1)
    BY <1>6, <2>1, <2>6, <2>7
  <2>9. SameRecord(Now, u) /\ u.mode = "QUOTED_FIELD" /\ u.field = g
    BY <2>2, <2>3, <2>4, <2>5, <2>6 DEF SameButCounts, SameRecord
  <2>10. Typed(u, offset + 1)
    <3>1. /\ Base \in Nat /\ Now.field.at \in Nat /\ Now.field.len \in Nat
          /\ Now.field.at + Now.field.len + 0 <= Base + offset
      BY <1>2, LengthFacts, StreamFacts DEF Typed, Waiting
    <3>2. g.at = Now.field.at /\ g.len = Now.field.len
      BY <1>4, <2>1 DEF SamePlace
    <3> QED BY <1>2, <2>9, <3>1, <3>2 DEF Typed, Waiting
  <2>11. aborted = "no" => Bounded(u, offset + 1) /\ Kept(u)
    <3>1. aborted = "no" => FieldLen(g) <= MaxFieldBytes + 1 /\ g.quoted
      BY <1>3, <1>4, <2>1, ConstantFacts DEF SamePlace
    <3> QED BY <1>2, <2>1, <2>9, <3>1 DEF Bounded, SameRecord, Reaches, Kept
  <2>12. u.mode \in WithinField
    BY <2>9, QuotedAreWithin
  <2> QED BY <1>1, <1>2, <2>8, <2>9, <2>10, <2>11, <2>12, GoesOnInField
<1>7. ASSUME NEW k \in 0..1,
             Starved([Now EXCEPT !.field = Append2(f, SubSeq(BothQuotes, 1, k))])
      PROVE  Inv'
  <2>1. SubSeq(BothQuotes, 1, k) \in Seq(Codes)
    <3>1. 1 \in Nat \ {0} /\ k \in Int /\ k <= Len(BothQuotes)
      BY BothQuotesAreBytes
    <3> QED BY <3>1, BothQuotesAreBytes, PartOfBytes
  <2>2. PICK g \in Field : /\ g = Append2(f, SubSeq(BothQuotes, 1, k)) /\ SamePlace(f, g)
    BY <1>2, <1>4, <2>1, Append2Properties
  <2>3. PICK u \in Stream : /\ u = [Now EXCEPT !.field = g] /\ u.field = g /\ u.mode = Now.mode
    BY <1>2, FieldEdit
  <2>4. Typed(u, offset)
    BY <1>2, <1>4, <2>2, <2>3 DEF Typed, Waiting, SamePlace
  <2>5. Starved(u)
    BY <1>7, <2>2, <2>3
  <2> QED BY <1>2, <2>4, <2>5, StarvedKeeps
<1>8. CASE Starved(Now)
  BY <1>2, <1>8, StarvedKeeps
<1> QED BY <1>5, <1>6, <1>7, <1>8

LEMMA ClosesAtDelimiterKeeps ==
  ASSUME Inv, ClosesAtDelimiter, UNCHANGED <<input, finished>>
  PROVE  Inv'
<1>1. Handling("QUOTE_IN_QUOTED") /\ "QUOTE_IN_QUOTED" \in WithinField
  BY QuotedAreWithin DEF ClosesAtDelimiter, AfterQuote
<1>2. /\ pc # "idle" /\ Now \in Stream /\ Typed(Now, offset) /\ ControlOK
      /\ Now.field \in Field /\ Points(Now.field) /\ Now.mode = "QUOTE_IN_QUOTED"
      /\ offset \in 0..Len(chunk)
  BY <1>1, FieldGoesOn
<1>3. aborted = "no" => Now.field.quoted
  BY <1>1, SecondByteFinds
<1> DEFINE literal == Now.atBoundary /\ Escape = "doubled" /\ FieldLen(Now.field) = 0
           f == IF literal THEN Store(Now.field, BothQuotes)
                ELSE EnsureFieldBuffered(Now.field, offset - 1)
<1>4. /\ f \in Field /\ SamePlace(Now.field, f) /\ Points(f)
      /\ aborted = "no" => Len(Content(f)) <= MaxFieldBytes
  <2>1. CASE literal
    <3>1. PICK g \in Field : /\ g = Store(Now.field, BothQuotes) /\ SamePlace(Now.field, g)
                             /\ g.buffered /\ g.buf = BothQuotes
      BY <1>2, BothQuotesAreBytes, StoreProperties
    <3>2. aborted = "no" => Content(g) = Collapse(BothQuotes)
      BY <1>3, <2>1, <3>1 DEF Content, Raw, SamePlace
    <3>3. Points(g)
      BY <1>2, <3>1 DEF Points, SamePlace
    <3>4. aborted = "no" => Len(Content(g)) <= MaxFieldBytes
      <4>1. 1 <= MaxFieldBytes
        BY ConstantFacts
      <4> QED BY <3>2, <4>1, CollapseBothQuotes
    <3> HIDE DEF literal
    <3>5. f = g
      BY <2>1, <3>1
    <3> QED BY <3>1, <3>3, <3>4, <3>5
  <2>2. CASE ~literal
    <3>1. PICK g \in Field : /\ g = EnsureFieldBuffered(Now.field, offset - 1) /\ Points(g)
                             /\ SamePlace(Now.field, g) /\ FieldLen(g) \in Nat
                             /\ aborted = "no" => FieldLen(g) < MaxFieldBytes
      BY <1>1, CopiedBeforeQuote
    <3>2. Len(Content(g)) <= FieldLen(g) /\ Len(Content(g)) \in Nat
      BY <1>2, <3>1, RawProperties
    <3> HIDE DEF literal
    <3>3. f = g
      BY <2>2, <3>1
    <3> QED BY <3>1, <3>2, <3>3, ConstantFacts
  <2> QED BY <2>1, <2>2
<1>5. \/ EndsField([Now EXCEPT !.field = f, !.atBoundary = FALSE], offset)
      \/ Starved([Now EXCEPT !.atBoundary = FALSE])
  BY DEF ClosesAtDelimiter
<1> HIDE DEF f
<1>6. CASE EndsField([Now EXCEPT !.field = f, !.atBoundary = FALSE], offset)
  <2>1. PICK a \in Stream : /\ a = [Now EXCEPT !.field = f] /\ SameRecord(Now, a)
                            /\ a.field = f /\ a.mode = Now.mode
    BY <1>2, <1>4, FieldEdit
  <2>2. PICK u \in Stream : u = [a EXCEPT !.atBoundary = FALSE] /\ SameButCounts(a, u)
    BY FlagEdit
  <2>3. EndsField(u, offset)
    BY <1>6, <2>1, <2>2
  <2>4. SameRecord(Now, u) /\ u.field = f /\ u.mode = Now.mode
    BY <2>1, <2>2 DEF SameButCounts, SameRecord
  <2>5. Typed(u, offset)
    BY <1>2, <1>4, <2>4 DEF Typed, Waiting, SamePlace
  <2> QED BY <1>1, <1>4, <2>3, <2>4, <2>5, EndsFieldHere
<1>7. CASE Starved([Now EXCEPT !.atBoundary = FALSE])
  <2>1. PICK u \in Stream : u = [Now EXCEPT !.atBoundary = FALSE] /\ SameButCounts(Now, u)
    BY <1>2, FlagEdit
  <2>2. Typed(u, offset)
    BY <1>2, <2>1 DEF Typed, Waiting, SameButCounts
  <2> QED BY <1>2, <1>7, <2>1, <2>2, StarvedKeeps
<1> QED BY <1>5, <1>6, <1>7

LEMMA ClosesAtNewlineKeeps ==
  ASSUME Inv, ClosesAtNewline, UNCHANGED <<input, finished>>
  PROVE  Inv'
<1>1. Handling("QUOTE_IN_QUOTED") /\ "QUOTE_IN_QUOTED" \in WithinField
  BY QuotedAreWithin DEF ClosesAtNewline, AfterQuote
<1>2. /\ pc # "idle" /\ Now \in Stream /\ Typed(Now, offset) /\ ControlOK
      /\ offset \in 0..Len(chunk) /\ Newline \in Nat
  BY <1>1, FieldGoesOn
<1>3. PICK f \in Field : /\ f = EnsureFieldBuffered(Now.field, offset - 1) /\ Points(f)
                         /\ SamePlace(Now.field, f) /\ FieldLen(f) \in Nat
                         /\ aborted = "no" => FieldLen(f) < MaxFieldBytes
  BY <1>1, CopiedBeforeQuote
<1>4. aborted = "no" => Len(Content(f)) <= MaxFieldBytes
  BY <1>2, <1>3, RawProperties, ConstantFacts
<1>5. PICK t \in Stream : t = PastNewline(Now, Newline) /\ SameButCounts(Now, t)
  BY <1>2, AdvanceProperties
<1>6. PICK u \in Stream : /\ u = [t EXCEPT !.field = f] /\ SameRecord(t, u)
                          /\ u.field = f /\ u.mode = t.mode
  BY FieldEdit
<1>7. Typed(t, offset) /\ Typed(u, offset) /\ SameRecord(Now, u)
  BY <1>2, <1>3, <1>5, <1>6 DEF Typed, Waiting, SamePlace, SameButCounts, SameRecord
<1>8. EndsRecord(u, offset + Newline) \/ Starved(t)
  BY <1>3, <1>5, <1>6 DEF ClosesAtNewline, SameButCounts
<1>9. CASE EndsRecord(u, offset + Newline)
  BY <1>1, <1>4, <1>6, <1>7, <1>9, EndsRecordHere
<1>10. CASE Starved(t)
  BY <1>2, <1>7, <1>10, StarvedKeeps
<1> QED BY <1>8, <1>9, <1>10

LEMMA QuoteBeforeOtherNewlineKeeps ==
  ASSUME Inv, QuoteBeforeOtherNewline, UNCHANGED <<input, finished>>
  PROVE  Inv'
<1>1. /\ Handling("QUOTE_IN_QUOTED") /\ "QUOTE_IN_QUOTED" \in WithinField /\ Goes(Now, offset)
  BY QuotedAreWithin DEF QuoteBeforeOtherNewline, AfterQuote
<1>2. /\ Now.mode = "QUOTE_IN_QUOTED" /\ Typed(Now, offset) /\ offset \in 0..Len(chunk)
      /\ offset # Len(chunk) /\ (aborted = "no" => Bounded(Now, offset))
  BY <1>1, FieldGoesOn
<1> QED BY <1>1, <1>2, GoesOnInField DEF SameRecord

LEMMA QuoteMisplacedKeeps ==
  ASSUME Inv, QuoteMisplaced, UNCHANGED <<input, finished>>
  PROVE  Inv'
BY HandlerFails DEF QuoteMisplaced, AfterQuote, ErrorCodes

LEMMA EscapedProperties ==
  ASSUME Inv, Handling("ESCAPE_IN_QUOTED")
  PROVE  LET f == Escaped(Now.field)
         IN  /\ f \in Field /\ f.quoted = Now.field.quoted /\ FieldLen(f) \in Nat
             /\ FieldLen(f) <= FieldLen(Now.field) + 2
             /\ f.at + f.len <= Now.field.at + Now.field.len + 2
             /\ Reaches(Now.field, offset - 1) => Reaches(f, offset + 1)
<1>1. /\ Now.field \in Field /\ Points(Now.field) /\ FieldLen(Now.field) \in Nat
      /\ offset \in Nat /\ Here \in Codes /\ ControlOK
  BY QuotedAreWithin, FieldGoesOn
<1>2. /\ Now.field.at \in Nat /\ Now.field.len \in Nat /\ Now.field.buffered \in BOOLEAN
      /\ First(Now.field) \in Nat /\ Now.field.start \in Nat \union {NoOffset}
  BY <1>1 DEF Field, First, NoOffset
<1>3. CASE Now.field.buffered
  <2>1. Unescaped(Here) \in Codes
    BY <1>1, ByteFacts DEF Unescaped
  <2>2. <<Unescaped(Here)>> \in Seq(Codes) /\ Len(<<Unescaped(Here)>>) = 1
    BY <2>1
  <2>3. PICK g \in Field : /\ g = Append2(Now.field, <<Unescaped(Here)>>)
                           /\ SamePlace(Now.field, g) /\ g.buffered
                           /\ FieldLen(g) = FieldLen(Now.field) + 1
    BY <1>1, <2>2, Append2Properties
  <2>4. Escaped(Now.field) = g
    BY <1>3, <2>3 DEF Escaped
  <2> QED BY <1>1, <1>2, <2>3, <2>4 DEF SamePlace, Reaches
<1>4. CASE ~Now.field.buffered
  <2>1. PICK n \in Nat : n = Now.field.len + 2
    BY <1>2
  <2>2. PICK m \in Nat \union {NoOffset} :
           m = IF Now.field.start = NoOffset /\ offset > 0 THEN offset - 1 ELSE Now.field.start
    <3>1. CASE Now.field.start = NoOffset /\ offset > 0
      <4>1. offset - 1 \in Nat
        BY <1>1, <3>1
      <4> QED BY <3>1, <4>1
    <3>2. CASE ~(Now.field.start = NoOffset /\ offset > 0)
      BY <1>2, <3>2
    <3> QED BY <3>1, <3>2
  <2>3. PICK g : g = [Now.field EXCEPT !.len = n, !.start = m]
    OBVIOUS
  <2>4. Escaped(Now.field) = g
    BY <1>4, <2>1, <2>2, <2>3 DEF Escaped
  <2>5. /\ g \in Field /\ g.len = n /\ g.start = m /\ g.at = Now.field.at
        /\ g.quoted = Now.field.quoted /\ g.buffered = Now.field.buffered
    BY <1>1, <2>3 DEF Field
  <2>6. First(Now.field) <= First(g) /\ First(g) \in Nat
    BY <1>1, <1>2, <2>2, <2>5 DEF First, NoOffset
  <2> QED BY <1>1, <1>2, <1>4, <2>1, <2>4, <2>5, <2>6 DEF FieldLen, Reaches
<1> QED BY <1>2, <1>3, <1>4

LEMMA EscapeByteKeeps ==
  ASSUME Inv, EscapeByte, UNCHANGED <<input, finished>>
  PROVE  Inv'
<1>1. Handling("ESCAPE_IN_QUOTED") /\ "ESCAPE_IN_QUOTED" \in WithinField
      /\ "QUOTED_FIELD" \in WithinField
  BY QuotedAreWithin DEF EscapeByte
<1>2. /\ pc # "idle" /\ Now \in Stream /\ Typed(Now, offset) /\ ControlOK
      /\ Now.mode = "ESCAPE_IN_QUOTED" /\ FieldLen(Now.field) \in Nat
      /\ offset \in Nat /\ offset \in 0..Len(chunk) /\ offset + 1 \in 0..Len(chunk)
      /\ aborted = "no" => Now.fieldCount < MaxCols
  BY <1>1, FieldGoesOn
<1>3. aborted = "no" => /\ FieldLen(Now.field) < MaxFieldBytes
                        /\ Now.field.quoted /\ Reaches(Now.field, offset - 1)
  BY <1>1, SecondByteFinds
<1>4. PICK f \in Field : /\ f = Escaped(Now.field) /\ f.quoted = Now.field.quoted
                         /\ FieldLen(f) \in Nat /\ FieldLen(f) <= FieldLen(Now.field) + 2
                         /\ f.at + f.len <= Now.field.at + Now.field.len + 2
                         /\ Reaches(Now.field, offset - 1) => Reaches(f, offset + 1)
  BY <1>1, EscapedProperties
<1>5. PICK t \in Stream : /\ t = Advance([Now EXCEPT !.field = f, !.mode = "QUOTED_FIELD"], 1)
                          /\ SameRecord(Now, t) /\ t.mode = "QUOTED_FIELD" /\ t.field = f
  <2>1. PICK a \in Stream : /\ a = [Now EXCEPT !.field = f] /\ SameRecord(Now, a)
                            /\ a.field = f
    BY <1>2, FieldEdit
  <2>2. PICK c \in Stream : /\ c = [a EXCEPT !.mode = "QUOTED_FIELD"] /\ SameRecord(a, c)
                            /\ c.mode = "QUOTED_FIELD" /\ c.field = a.field
    <3>1. "QUOTED_FIELD" \in Modes
      BY QuotedAreWithin
    <3> QED BY <3>1, ModeEdit
  <2>3. Advance(c, 1) \in Stream /\ SameButCounts(c, Advance(c, 1))
    BY AdvanceProperties
  <2>4. c = [Now EXCEPT !.field = f, !.mode = "QUOTED_FIELD"]
    BY <2>1, <2>2
  <2> QED BY <2>1, <2>2, <2>3, <2>4 DEF SameButCounts, SameRecord
<1> DEFINE last == offset + 1 = Len(chunk)
<1>6. \/ Goes(IF last THEN [t EXCEPT !.field = EnsureFieldBuffered(f, offset + 1)]
              ELSE t, offset + 1)
      \/ Starved([Now EXCEPT !.mode = "QUOTED_FIELD"])
      \/ Starved(t)
  BY <1>4, <1>5 DEF EscapeByte
<1>7. /\ Base \in Nat /\ Now.field.at \in Nat /\ Now.field.len \in Nat
      /\ Now.field.at + Now.field.len + 1 <= Base + offset
  BY <1>2, LengthFacts, StreamFacts DEF Typed, Waiting
<1>8. Typed(t, offset + 1)
  <2>1. f.at \in Nat /\ f.len \in Nat
    BY DEF Field
  <2>2. f.at + f.len <= Base + (offset + 1)
    <3>1. f.at + f.len <= Now.field.at + Now.field.len + 2 /\ offset \in Nat
      BY <1>2, <1>4
    <3> QED BY <1>7, <2>1, <3>1
  <2>3. Waiting(t) = 0 /\ t.field = f
    BY <1>5 DEF Waiting
  <2> QED BY <2>1, <2>2, <2>3 DEF Typed
<1>9. aborted = "no" => Bounded(t, offset + 1)
  <2>1. aborted = "no" => FieldLen(f) <= MaxFieldBytes + 1
    BY <1>2, <1>3, <1>4, ConstantFacts
  <2> QED BY <1>2, <1>3, <1>4, <1>5, <2>1 DEF Bounded, SameRecord
<1>10. CASE last /\ Goes([t EXCEPT !.field = EnsureFieldBuffered(f, offset + 1)], offset + 1)
  <2>1. PICK u : u = [t EXCEPT !.field = EnsureFieldBuffered(@, offset + 1)]
    OBVIOUS
  <2>2. /\ Typed(u, offset + 1) /\ SameRecord(t, u) /\ u.mode = "QUOTED_FIELD" /\ Kept(u)
        /\ aborted = "no" => Bounded(u, offset + 1)
    BY <1>2, <1>5, <1>8, <1>9, <2>1, CopiedAtEnd
  <2>3. Goes(u, offset + 1) /\ SameRecord(Now, u)
    BY <1>5, <1>10, <2>1, <2>2 DEF SameRecord
  <2> QED BY <1>1, <1>2, <2>2, <2>3, GoesOnInField
<1>11. CASE ~last /\ Goes(t, offset + 1)
  BY <1>1, <1>2, <1>5, <1>8, <1>9, <1>11, GoesOnInField
<1>12. CASE Starved([Now EXCEPT !.mode = "QUOTED_FIELD"])
  <2>1. PICK u \in Stream : /\ u = [Now EXCEPT !.mode = "QUOTED_FIELD"]
                            /\ u.mode = "QUOTED_FIELD" /\ u.field = Now.field
    BY <1>2, ModeEdit, QuotedAreWithin
  <2>2. Typed(u, offset)
    BY <1>2, <1>7, <2>1 DEF Typed, Waiting
  <2> QED BY <1>2, <1>12, <2>1, <2>2, StarvedKeeps
<1>13. CASE Starved(t)
  BY <1>2, <1>8, <1>13, StarvedKeeps
<1> HIDE DEF last
<1> QED
  <2>1. CASE last
    BY <1>6, <1>10, <1>12, <1>13, <2>1
  <2>2. CASE ~last
    BY <1>6, <1>11, <1>12, <1>13, <2>2
  <2> QED BY <2>1, <2>2

LEMMA EscapeUnknownKeeps ==
  ASSUME Inv, EscapeUnknown, UNCHANGED <<input, finished>>
  PROVE  Inv'
BY HandlerFails DEF EscapeUnknown, ErrorCodes

\* A turn of the loop.
LEMMA TurnKeeps == Inv /\ Turn => Inv'
<1> SUFFICES ASSUME Inv, Turn PROVE Inv'
  OBVIOUS
<1>1. UNCHANGED <<input, finished>>
  BY DEF Turn
<1>2. CASE OnRecord
  BY <1>1, <1>2, LimitExceededKeeps, StartOfRecordKeeps, CommentKeeps DEF OnRecord
<1>3. CASE OnField
  BY <1>1, <1>3, TooManyColumnsKeeps, OpenQuoteKeeps, EmptyFieldAtDelimiterKeeps,
     EmptyFieldAtNewlineKeeps, OpenUnquotedKeeps DEF OnField
<1>4. CASE OnUnquoted
  BY <1>1, <1>4, UnquotedTooLongKeeps, UnquotedDelimiterKeeps, UnquotedNewlineKeeps,
     UnquotedRejectedKeeps, UnquotedBulkKeeps DEF OnUnquoted
<1>5. CASE OnQuoted
  BY <1>1, <1>5, QuotedTooLongKeeps, QuotedEndsAfterDoubledKeeps, QuotedBackslashKeeps,
     QuotedQuoteKeeps, QuotedByteKeeps DEF OnQuoted
<1>6. CASE OnQuote
  BY <1>1, <1>6, DoubledQuoteKeeps, ClosesAtDelimiterKeeps, ClosesAtNewlineKeeps,
     QuoteBeforeOtherNewlineKeeps, QuoteMisplacedKeeps DEF OnQuote
<1>7. CASE OnEscape
  BY <1>1, <1>7, EscapeByteKeeps, EscapeUnknownKeeps DEF OnEscape
<1> QED BY <1>2, <1>3, <1>4, <1>5, <1>6, <1>7 DEF Turn

-----------------------------------------------------------------------------
(* The calls.                                                              *)

\* The bytes of a chunk the caller feeds, and of what is left of it.
LEMMA FedProperties ==
  ASSUME NEW data \in Chunks
  PROVE  /\ data \in Seq(Bytes) /\ data # <<>>
         /\ StripBom(data) \in Seq(Bytes) /\ Len(StripBom(data)) <= Len(data)
<1>1. PICK k \in 1..ChunkBound : data \in [1..k -> Alphabet]
  BY DEF Chunks
<1>2. k \in Nat /\ k >= 1 /\ data \in [1..k -> Bytes]
  BY <1>1, LimitAssumption, DialectAssumption
<1>3. data \in Seq(Bytes) /\ Len(data) = k
  BY <1>2, TupleIsSeq
<1>4. data # <<>>
  BY <1>2, <1>3, EmptySeq
<1>5. ASSUME Len(data) >= 3
      PROVE  SubSeq(data, 4, Len(data)) \in Seq(Bytes)
             /\ Len(SubSeq(data, 4, Len(data))) <= Len(data)
  <2>1. \A i \in 4..k : data[i] \in Bytes
    BY <1>2
  <2>2. 4 \in Int /\ k \in Int
    BY <1>2
  <2>3. /\ SubSeq(data, 4, k) \in Seq(Bytes)
        /\ Len(SubSeq(data, 4, k)) = IF 4 <= k THEN k - 4 + 1 ELSE 0
    BY <2>1, <2>2, SubSeqProperties
  <2> QED BY <1>2, <1>3, <2>3
<1> QED BY <1>2, <1>3, <1>4, <1>5 DEF StripBom

\* Bytes are added to the input; those of a field stay where they are.
LEMMA FeedKeeps ==
  ASSUME Inv, NEW data \in Chunks, Feed(data)
  PROVE  Inv'
<1> DEFINE lost == s.mode = "QUOTE_IN_QUOTED" /\ ~s.field.buffered
           f    == IF lost THEN Store(s.field, <<>>) ELSE s.field
           rest == StripBom(data)
<1>1. /\ pc = "idle" /\ ~finished /\ s.mode # "END" /\ s' = [s EXCEPT !.field = f]
      /\ input' = input \o data /\ offset' = 0
      /\ events' = events /\ aborted' = aborted /\ finished' = finished
      /\ IF rest = <<>> THEN pc' = pc /\ chunk' = chunk /\ resumed' = resumed
         ELSE /\ pc' = "loop" /\ chunk' = rest
              /\ resumed' = (f.buffered /\ s.mode \in FieldModes)
  BY DEF Feed
<1>2. /\ ControlOK /\ chunk = <<>> /\ offset = 0 /\ Typed(s, offset) /\ s \in Stream
      /\ input \in Seq(Bytes) /\ resumed \in BOOLEAN /\ finished \in BOOLEAN
      /\ events \in Seq(Events)
  <2>1. ControlOK /\ chunk = <<>> /\ offset = Len(chunk) /\ Typed(s, offset)
    BY <1>1 DEF Inv, ControlOK
  <2> QED BY <2>1, EmptySeq DEF Inv, ControlOK, Typed
<1>3. /\ data \in Seq(Bytes) /\ rest \in Seq(Bytes) /\ Len(rest) <= Len(data)
      /\ rest # <<>> => Len(rest) # 0
  BY FedProperties, EmptySeq
<1>4. /\ f \in Field /\ f.at = s.field.at /\ f.len = s.field.len /\ f.quoted = s.field.quoted
      /\ lost => f.buffered /\ FieldLen(f) = 0
      /\ ~lost => f = s.field
  <2>1. <<>> \in Seq(Codes) /\ Len(<<>>) = 0 /\ s.field \in Field
    BY <1>2, EmptySeq, StreamFacts
  <2>2. PICK g \in Field : /\ g = Store(s.field, <<>>) /\ SamePlace(s.field, g)
                           /\ g.buffered /\ FieldLen(g) = 0
    BY <2>1, StoreProperties
  <2> QED BY <2>1, <2>2 DEF SamePlace
<1> HIDE DEF f, rest, lost
<1>5. /\ s' \in Stream /\ SameRecord(s, s') /\ s'.mode = s.mode /\ s'.field = f
  BY <1>1, <1>2, <1>4, FieldEdit
<1>6. /\ input' \in Seq(Bytes) /\ Len(input') = Len(input) + Len(data)
      /\ Len(input) \in Nat /\ Len(data) \in Nat /\ Len(rest) \in Nat
  BY <1>1, <1>2, <1>3, LenProperties, ConcatProperties
<1>7. ControlOK' /\ Base' >= Len(input) /\ Base' \in Nat
  <2>1. CASE rest = <<>>
    <3>1. chunk' = <<>> /\ Len(chunk') = 0 /\ <<>> \in Seq(Bytes)
      BY <1>1, <1>2, <2>1, EmptySeq
    <3>2. pc' = "idle" /\ resumed' = resumed /\ finished' = finished /\ offset' = 0
      BY <1>1, <2>1
    <3> QED BY <1>2, <1>6, <3>1, <3>2 DEF ControlOK, Base
  <2>2. CASE rest # <<>>
    <3>1. /\ chunk' = rest /\ pc' = "loop" /\ offset' = 0 /\ Len(rest) # 0
          /\ finished' = FALSE
      BY <1>1, <1>2, <1>3, <2>2
    <3>2. resumed' \in BOOLEAN /\ finished' \in BOOLEAN /\ ~finished'
      <4>1. resumed' = (f.buffered /\ s.mode \in FieldModes)
        BY <1>1, <2>2
      <4>2. resumed' \in BOOLEAN
        BY <4>1
      <4>3. finished' = finished /\ ~finished /\ finished \in BOOLEAN
        BY <1>1, <1>2
      <4> QED BY <4>2, <4>3
    <3>3. /\ offset' \in 0..Len(chunk') /\ offset' # Len(chunk') /\ Len(chunk') <= Len(input')
          /\ chunk' \in Seq(Bytes) /\ input' \in Seq(Bytes)
          /\ pc' \in {"idle", "loop", "fall"} /\ pc' # "idle" /\ pc' # "fall"
      BY <1>3, <1>6, <3>1
    <3>4. Base' >= Len(input) /\ Base' \in Nat
      BY <1>3, <1>6, <3>1 DEF Base
    <3>5. ControlOK'
      BY <3>2, <3>3 DEF ControlOK
    <3> QED BY <3>4, <3>5
  <2> QED BY <2>1, <2>2
<1>8. Typed(s, offset)'
  <2>1. /\ f.at \in Nat /\ f.len \in Nat /\ Waiting(s)' = Waiting(s) /\ Waiting(s) \in Nat
        /\ f.at + f.len + Waiting(s) <= Base + offset /\ Base + offset = Len(input)
    BY <1>2, <1>4, <1>5, LengthFacts, EmptySeq DEF Typed, Waiting, Field
  <2>2. Base' + offset' >= Len(input) /\ Base' + offset' \in Nat
    BY <1>1, <1>6, <1>7
  <2>3. s'.field.at + s'.field.len + Waiting(s') <= Base' + offset'
    BY <1>5, <1>6, <2>1, <2>2
  <2> QED BY <1>5, <2>3 DEF Typed
<1>9. ASSUME aborted = "no" PROVE Good(s', 0, events', FALSE) /\ Kept(s')
  <2>1. Good(s, 0, events, FALSE) /\ Kept(s)
    BY <1>1, <1>2, <1>9 DEF Inv
  <2>2. s'.error = "OK" => Told(s', events', FALSE)
    BY <1>1, <1>5, <2>1 DEF Good, Told, InField, BetweenRecords, SameRecord
  <2>3. InLimits(events')
    BY <1>1, <2>1 DEF Good
  <2>4. Bounded(s', 0)
    <3>1. Bounded(s, 0)
      BY <2>1 DEF Good
    <3>2. CASE lost
      <4>1. s.mode = "QUOTE_IN_QUOTED" /\ 0 < MaxFieldBytes
        BY <3>2, ConstantFacts DEF lost
      <4> QED BY <1>4, <1>5, <3>1, <3>2, <4>1 DEF Bounded, SameRecord, Reaches
    <3>3. CASE ~lost
      BY <1>4, <1>5, <3>1, <3>3 DEF Bounded, SameRecord
    <3> QED BY <3>2, <3>3
  <2>5. Kept(s')
    BY <1>4, <1>5, <2>1 DEF Kept
  <2> QED BY <2>2, <2>3, <2>4, <2>5 DEF Good
<1> QED
  BY <1>1, <1>2, <1>5, <1>7, <1>8, <1>9 DEF Inv, Good, Told, Kept, Bounded, InLimits,
     InField, BetweenRecords, Chain, Follows, SameRecord

\* What finish reports ends the records that have begun.
LEMMA LastEventsTold ==
  ASSUME Inv, pc = "idle", ~finished, ~UnterminatedQuote
  PROVE  /\ LastEvents \in Seq(Events) /\ LastEvents # <<>>
         /\ aborted = "no" => InLimits(events \o LastEvents)
         /\ aborted = "no" /\ s.error = "OK" => Chain(events \o LastEvents)
<1> DEFINE F == FieldEvent(s)
           R == Event("RECORD_END", s, <<>>)
           E == Event("END", s, <<>>)
           inField == s.mode = "UNQUOTED_FIELD" /\ s.inRecord
           first   == IF inField THEN <<F>> ELSE <<>>
           second  == IF s.inRecord THEN <<R>> ELSE <<>>
           evs1 == events \o first
           evs2 == evs1 \o second
<1>1. /\ ControlOK /\ events \in Seq(Events) /\ s \in Stream /\ Points(s.field)
      /\ offset \in 0..Len(chunk) /\ s.inRecord \in BOOLEAN
      /\ s.rowCount \in Nat /\ s.fieldCount \in Nat
  <2>1. ControlOK /\ offset \in 0..Len(chunk) /\ Typed(s, offset)
    BY DEF Inv, ControlOK
  <2> QED BY <2>1, TypedPoints, StreamFacts DEF Inv
<1>2. aborted = "no" => Good(s, offset, events, FALSE) /\ (s.mode = "END" => s.error # "OK")
  BY DEF Inv
<1>3. /\ R \in Events /\ R.type = "RECORD_END" /\ R.row = s.rowCount
      /\ E \in Events /\ E.type = "END" /\ F \in Events
  <2>1. <<>> \in Seq(Codes)
    BY EmptySeq
  <2> QED BY ZenonT(60), <1>1, <2>1, EventProperties, FieldTold
<1>4. /\ aborted = "no" => InLimits(events)
      /\ aborted = "no" /\ s.error = "OK" => Chain(events)
  BY <1>2 DEF Good, Told
<1>5. /\ evs1 \in Seq(Events) /\ first \in Seq(Events)
      /\ aborted = "no" => InLimits(evs1)
      /\ aborted = "no" /\ s.error = "OK" =>
           /\ Chain(evs1)
           /\ s.inRecord => /\ evs1 # <<>> /\ evs1[Len(evs1)].type = "FIELD"
                            /\ evs1[Len(evs1)].row = s.rowCount
           /\ ~s.inRecord => evs1 = <<>> \/ evs1[Len(evs1)].type = "RECORD_END"
  <2>1. CASE inField
    <3>1. evs1 = Append(events, F)
      BY <1>1, <1>3, <2>1, AppendIsConcat
    <3>2. <<F>> \in Seq(Events)
      BY <1>3
    <3>3. aborted = "no" => s.fieldCount < MaxCols /\ Len(Content(s.field)) <= MaxFieldBytes
      <4>1. aborted = "no" => s.fieldCount < MaxCols /\ FieldLen(s.field) <= MaxFieldBytes
        BY <1>2, <2>1 DEF Good, Bounded, FieldModes
      <4> QED BY <1>1, <4>1, RawProperties, ConstantFacts
    <3>4. aborted = "no" /\ s.error = "OK" => InField(s, events)
      BY <1>2, <2>1 DEF Good, Told
    <3>5. first = <<F>>
      BY <2>1
    <3>6. s.inRecord
      BY <2>1
    <3> HIDE DEF F, evs1, first, inField
    <3>7. /\ Append(events, F) \in Seq(Events)
          /\ aborted = "no" => InLimits(Append(events, F))
          /\ aborted = "no" /\ s.error = "OK" =>
               /\ Chain(Append(events, F)) /\ Append(events, F) # <<>>
               /\ Append(events, F)[Len(Append(events, F))].type = "FIELD"
               /\ Append(events, F)[Len(Append(events, F))].row = s.rowCount
      BY <1>1, <1>4, <3>3, <3>4, FieldTold DEF F
    <3> QED BY <3>1, <3>2, <3>5, <3>6, <3>7
  <2>2. CASE ~inField
    <3>1. evs1 = events /\ first = <<>> /\ first \in Seq(Events)
      BY <1>1, <2>2, EmptySeq, ConcatEmptySeq
    <3>2. aborted = "no" /\ s.error = "OK" /\ s.inRecord =>
             /\ events # <<>> /\ events[Len(events)].type = "FIELD"
             /\ events[Len(events)].row = s.rowCount
      <4>1. s.mode \in Modes
        BY <1>1, StreamFacts
      <4> QED BY <1>1, <1>2, <2>2, <4>1 DEF Good, Told, InField, BetweenRecords, Modes, FieldModes,
                 UnterminatedQuote
    <3>3. aborted = "no" /\ s.error = "OK" /\ ~s.inRecord =>
             events = <<>> \/ events[Len(events)].type = "RECORD_END"
      <4>1. s.mode \in Modes
        BY <1>1, StreamFacts
      <4> QED BY <1>1, <1>2, <4>1 DEF Good, Told, InField, BetweenRecords, Modes, FieldModes
    <3> HIDE DEF evs1, first, inField
    <3> QED BY <1>1, <1>4, <3>1, <3>2, <3>3
  <2> QED BY <2>1, <2>2
<1> HIDE DEF evs1, first, inField, R, E
<1>6. /\ evs2 \in Seq(Events) /\ second \in Seq(Events)
      /\ aborted = "no" => InLimits(evs2)
      /\ aborted = "no" /\ s.error = "OK" =>
           Chain(evs2) /\ (evs2 = <<>> \/ evs2[Len(evs2)].type = "RECORD_END")
  <2>1. CASE s.inRecord
    <3>1. evs2 = Append(evs1, R)
      BY <1>3, <1>5, <2>1, AppendIsConcat
    <3>2. second \in Seq(Events)
      BY <1>3, <2>1
    <3>3. /\ Append(evs1, R) \in Seq(Events) /\ Append(evs1, R) # <<>>
          /\ Append(evs1, R)[Len(Append(evs1, R))] = R
      BY <1>3, <1>5, LastOfAppend
    <3>4. aborted = "no" => InLimits(Append(evs1, R))
      BY <1>3, <1>5, AppendInLimits
    <3>5. aborted = "no" /\ s.error = "OK" => Chain(Append(evs1, R))
      BY <1>3, <1>5, <2>1, AppendChain DEF Follows
    <3> HIDE DEF evs2, second
    <3> QED BY <1>3, <3>1, <3>2, <3>3, <3>4, <3>5
  <2>2. CASE ~s.inRecord
    <3>1. evs2 = evs1 /\ second = <<>> /\ second \in Seq(Events)
      BY <1>5, <2>2, EmptySeq, ConcatEmptySeq
    <3> HIDE DEF evs2, second
    <3> QED BY <1>5, <2>2, <3>1
  <2> QED BY <1>1, <2>1, <2>2
<1>7. <<E>> \in Seq(Events) /\ Len(<<E>>) = 1
  BY <1>3
<1>8. LastEvents = (first \o second) \o <<E>>
  BY DEF LastEvents, first, inField, R, E
<1> HIDE DEF evs2, second
<1>9. first \o second \in Seq(Events)
  BY <1>5, <1>6, ConcatProperties
<1>10. LastEvents \in Seq(Events) /\ LastEvents # <<>>
  <2>1. LastEvents \in Seq(Events) /\ Len(LastEvents) = Len(first \o second) + 1
    BY <1>7, <1>8, <1>9, ConcatProperties
  <2>2. Len(first \o second) \in Nat
    BY <1>9, LenProperties
  <2> QED BY <2>1, <2>2, EmptySeq
<1>11. events \o LastEvents = Append(evs2, E)
  <2>1. events \o ((first \o second) \o <<E>>) = (events \o (first \o second)) \o <<E>>
    BY <1>1, <1>7, <1>9, ConcatAssociative
  <2>2. events \o (first \o second) = evs2
    <3>1. (events \o first) \o second = events \o (first \o second)
      <4>1. events \in Seq(Events) /\ first \in Seq(Events) /\ second \in Seq(Events)
        BY <1>1, <1>5, <1>6
      <4> QED BY <4>1, ConcatAssociative
    <3> QED BY <3>1 DEF evs1, evs2
  <2>3. Append(evs2, E) = evs2 \o <<E>>
    BY <1>3, <1>6, AppendIsConcat
  <2> QED BY <1>8, <2>1, <2>2, <2>3
<1>12. aborted = "no" => InLimits(Append(evs2, E))
  BY <1>3, <1>6, AppendInLimits
<1>13. aborted = "no" /\ s.error = "OK" => Chain(Append(evs2, E))
  BY <1>3, <1>6, AppendChain DEF Follows
<1> QED BY <1>10, <1>11, <1>12, <1>13

LEMMA FinishKeeps ==
  ASSUME Inv, Finish
  PROVE  Inv'
<1>1. /\ pc = "idle" /\ ~finished /\ finished' = TRUE
      /\ UNCHANGED <<pc, resumed, chunk, offset, input>>
  BY DEF Finish
<1>2. /\ s \in Stream /\ Typed(s, offset) /\ events \in Seq(Events) /\ ControlOK
      /\ Quit \in Stream /\ Quit.mode = "END" /\ SameRecord(s, Quit) /\ Quit.field = s.field
  <2>1. s \in Stream /\ Typed(s, offset) /\ events \in Seq(Events) /\ ControlOK
    BY DEF Inv, Typed
  <2>2. "END" \in Modes
    BY DEF Modes
  <2> QED BY <2>1, <2>2, ModeEdit DEF Quit
<1>3. ControlOK'
  BY <1>1, <1>2 DEF ControlOK
<1>4. Typed(Quit, offset)
  <2>1. /\ s.field.at \in Nat /\ s.field.len \in Nat /\ offset \in Nat
        /\ s.field.at + s.field.len + Waiting(s) <= Base + offset
        /\ Waiting(s) \in Nat /\ Waiting(Quit) = 0 /\ Base \in Nat
    BY <1>2, StreamFacts, LengthFacts DEF Typed, Waiting
  <2>2. s.field.at + s.field.len + 0 <= Base + offset
    BY <2>1
  <2> QED BY <1>2, <2>1, <2>2 DEF Typed
<1>5. CASE /\ UnterminatedQuote
           /\ s' = [Quit EXCEPT !.error = "UNTERMINATED_QUOTE"]
           /\ UNCHANGED <<events, aborted>>
  <2>1. /\ s' \in Stream /\ s'.mode = "END" /\ s'.field = Quit.field
        /\ s'.error = "UNTERMINATED_QUOTE"
    <3>1. "UNTERMINATED_QUOTE" \in ErrorCodes
      BY DEF ErrorCodes
    <3>2. PICK q \in Stream : q = Quit
      BY <1>2
    <3> QED BY <1>2, <1>5, <3>1, <3>2 DEF Stream
  <2>2. Typed(s, offset)'
    BY <1>1, <1>2, <1>4, <2>1 DEF Typed, Waiting, Base
  <2>3. aborted = "no" => InLimits(events)
    BY DEF Inv, Good
  <2> QED BY <1>1, <1>2, <1>3, <1>5, <2>1, <2>2, <2>3
      DEF Inv, Good, Bounded, Kept, FieldModes, InLimits
<1>6. ASSUME ~UnterminatedQuote, NEW n \in 0..Len(LastEvents),
             events' = events \o SubSeq(LastEvents, 1, n),
             s' = IF n = Len(LastEvents) THEN Quit ELSE s,
             aborted' \in IF n = Len(LastEvents) THEN {aborted, "refused"}
                          ELSE {IF n = 0 THEN "oom" ELSE "refused"}
      PROVE  Inv'
  <2>1. /\ LastEvents \in Seq(Events)
        /\ aborted = "no" => InLimits(events \o LastEvents)
        /\ aborted = "no" /\ s.error = "OK" => Chain(events \o LastEvents)
    BY <1>1, <1>6, LastEventsTold
  <2>2. events' \in Seq(Events)
    <3>1. /\ Len(LastEvents) \in Nat
          /\ \A i \in 1..n : LastEvents[i] \in Events
      <4>1. Len(LastEvents) \in Nat
        BY <2>1, LenProperties
      <4>2. \A i \in 1..n : i \in 1..Len(LastEvents)
        BY <1>6, <4>1
      <4> QED BY <2>1, <4>1, <4>2, ElementOfSeq
    <3>2. 1 \in Int /\ n \in Int
      BY <1>6
    <3>3. SubSeq(LastEvents, 1, n) \in Seq(Events)
      BY <3>1, <3>2, SubSeqProperties
    <3> QED BY <1>2, <1>6, <3>3, ConcatProperties
  <2>3. Typed(s, offset)'
    BY <1>1, <1>2, <1>4, <1>6 DEF Typed, Waiting, Base
  <2>4. CASE n = Len(LastEvents)
    <3>1. events' = events \o LastEvents
      BY <1>6, <2>1, <2>4, SubSeqFull
    <3>2. s' = Quit /\ (aborted' = "no" => aborted = "no")
      BY <1>6, <2>4
    <3> QED BY <1>1, <1>2, <1>3, <2>1, <2>2, <2>3, <3>1, <3>2
        DEF Inv, Good, Told, Bounded, Kept, FieldModes, InLimits, SameRecord, Chain, Follows
  <2>5. CASE n # Len(LastEvents)
    <3>1. aborted' # "no"
      BY <1>6, <2>5
    <3> QED BY <1>3, <2>2, <2>3, <3>1 DEF Inv
  <2> QED BY <2>4, <2>5
<1> QED BY <1>5, <1>6 DEF Finish

-----------------------------------------------------------------------------
(* The theorems.                                                           *)

LEMMA InitInv == Init => Inv
<1> SUFFICES ASSUME Init PROVE Inv
  OBVIOUS
<1>1. <<>> \in Seq(Bytes) /\ <<>> \in Seq(Codes) /\ <<>> \in Seq(Events) /\ Len(<<>>) = 0
  BY EmptySeq
<1>2. EmptyField \in Field
  BY <1>1 DEF EmptyField, Field, NoOffset
<1>3. s \in Stream
  BY <1>2 DEF Init, Stream, Modes, ErrorCodes
<1>4. ControlOK
  <2>1. resumed \in BOOLEAN /\ finished \in BOOLEAN /\ pc = "idle"
    BY DEF Init
  <2>2. /\ chunk = <<>> /\ chunk \in Seq(Bytes) /\ input \in Seq(Bytes)
        /\ Len(chunk) <= Len(input) /\ offset \in 0..Len(chunk) /\ offset = Len(chunk)
    BY <1>1 DEF Init
  <2> QED BY <2>1, <2>2 DEF ControlOK
<1>5. Typed(s, offset)
  BY <1>1, <1>3 DEF Init, Typed, Waiting, EmptyField, Base
<1>6. Chain(<<>>) /\ InLimits(<<>>)
  BY <1>1 DEF Chain, InLimits
<1> QED BY <1>1, <1>4, <1>5, <1>6
    DEF Init, Inv, Good, Told, BetweenRecords, Bounded, Kept, FieldModes

LEMMA NextKeeps == Inv /\ [Next]_vars => Inv'
<1> SUFFICES ASSUME Inv, [Next]_vars PROVE Inv'
  OBVIOUS
<1>1. ASSUME NEW data \in Chunks, Feed(data) PROVE Inv'
  BY <1>1, FeedKeeps
<1>2. CASE Turn
  BY <1>2, TurnKeeps
<1>3. CASE Finish
  BY <1>3, FinishKeeps
<1>4. CASE UNCHANGED vars
  <2>1. /\ s' = s /\ pc' = pc /\ resumed' = resumed /\ chunk' = chunk /\ offset' = offset
        /\ input' = input /\ events' = events /\ aborted' = aborted /\ finished' = finished
    BY <1>4 DEF vars
  <2>2. ControlOK'
    BY <2>1 DEF Inv, ControlOK
  <2>3. Typed(s, offset)' /\ events' \in Seq(Events)
    BY <2>1 DEF Inv, Typed, Waiting, Base
  <2>4. aborted = "no" => Good(s', offset', events', pc' = "fall")
    BY <2>1 DEF Inv
  <2> QED
    BY <2>1, <2>2, <2>3, <2>4 DEF Inv, Good, Told, Kept, Bounded, InLimits,
       InField, BetweenRecords, Chain, Follows
<1> QED BY <1>1, <1>2, <1>3, <1>4 DEF Next

\* The parser's state is sound, whatever the chunks and whatever fails: its
\* position lies in the chunk, what a field points to has been fed, and the
\* length of the field in progress is known.
THEOREM StreamSound == Spec => []Inv
BY InitInv, NextKeeps, PTL DEF Spec

\* The events reported are records of at least one field, in order, then one
\* END, for every dialect and every cutting of the input into chunks.
THEOREM EventsInOrder == Spec => []EventsWellFormed
<1>1. Inv => EventsWellFormed
  <2> SUFFICES ASSUME Inv, aborted = "no", s.error = "OK" PROVE Chain(events)
    BY DEF EventsWellFormed, Chain
  <2>1. Told(s, events, pc = "fall")
    BY DEF Inv, Good
  <2> QED BY <2>1 DEF Told
<1> QED BY <1>1, StreamSound, PTL

\* Between two calls a field in progress is in the parser's own buffer, but for
\* the two places HeldFieldBuffered names.
THEOREM HeldFieldIsBuffered == Spec => []HeldFieldBuffered
<1>1. Inv => HeldFieldBuffered
  BY DEF Inv, Kept, HeldFieldBuffered, BetweenCalls, FieldModes
<1> QED BY <1>1, StreamSound, PTL

\* No field reported is longer than max_field_bytes and no record has more
\* fields than max_cols, whichever way the field was gathered.
THEOREM LimitsAreKept == Spec => []LimitsHold
<1>1. Inv => LimitsHold
  BY DEF Inv, Good, InLimits, LimitsHold
<1> QED BY <1>1, StreamSound, PTL

-----------------------------------------------------------------------------
(* What is heard, what a text means and what a field contains, element by  *)
(* element.                                                                *)

Records  == Seq(Seq(Seq(Codes)))
Hearings == [rows : Records, row : Seq(Seq(Codes))]
Unheard  == [rows |-> <<>>, row |-> <<>>]
HeardIn(evs) == FoldLeft(HearEvent, Unheard, evs)
HearStep == [x \in Hearings \X Events |-> HearEvent(x[1], x[2])]

LEMMA HearStepProperties ==
  ASSUME NEW r \in Hearings, NEW e \in Events
  PROVE  HearEvent(r, e) \in Hearings
<1>1. r.rows \in Records /\ r.row \in Seq(Seq(Codes)) /\ e.data \in Seq(Codes)
  BY DEF Hearings, Events
<1>2. PICK row \in Seq(Seq(Codes)) : row = Append(r.row, e.data)
  BY <1>1, AppendProperties
<1>3. PICK rows \in Records : rows = Append(r.rows, r.row)
  BY <1>1, AppendProperties DEF Records
<1>4. <<>> \in Seq(Seq(Codes))
  BY EmptySeq
<1>5. [r EXCEPT !.row = row] \in Hearings /\ [rows |-> rows, row |-> <<>>] \in Hearings
  BY <1>4 DEF Hearings
<1>6. CASE e.type = "FIELD"
  <2>1. HearEvent(r, e) = [r EXCEPT !.row = row]
    BY <1>2, <1>6 DEF HearEvent
  <2> QED BY <1>5, <2>1
<1>7. CASE e.type = "RECORD_END"
  <2>1. HearEvent(r, e) = [rows |-> rows, row |-> <<>>]
    BY <1>3, <1>7 DEF HearEvent
  <2> QED BY <1>5, <2>1
<1>8. CASE e.type # "FIELD" /\ e.type # "RECORD_END"
  BY <1>8 DEF HearEvent
<1> QED BY <1>6, <1>7, <1>8

LEMMA HearSteps ==
  /\ Unheard \in Hearings /\ HearStep \in [Hearings \X Events -> Hearings]
  /\ \A r \in Hearings, b \in Events : HearStep[<<r, b>>] = HearEvent(r, b)
<1>1. Unheard \in Hearings
  BY EmptySeq DEF Unheard, Hearings, Records
<1>2. \A x \in Hearings \X Events : HearEvent(x[1], x[2]) \in Hearings
  BY HearStepProperties
<1> QED BY <1>1, <1>2 DEF HearStep

LEMMA HearFolded ==
  ASSUME NEW seq \in Seq(Events)
  PROVE  Folded(Hearings, HearStep, Unheard, seq, HeardIn(seq))
<1> DEFINE N == Len(seq)
           e(g, T) == IF T = {} THEN Unheard ELSE HearEvent(g[T \ {Max(T)}], seq[Max(T)])
           d(g, T) == IF T = {} THEN Unheard ELSE HearStep[<<g[T \ {Max(T)}], seq[Max(T)]>>]
           Iter(g) == g = [T \in SUBSET (1..N) |-> e(g, T)]
<1>1. N \in Nat /\ (\A k \in 1..N : seq[k] \in Events) /\ DOMAIN seq = 1..N
  BY LenProperties, ElementOfSeq
<1>2. /\ Unheard \in Hearings /\ HearStep \in [Hearings \X Events -> Hearings]
      /\ \A r \in Hearings, b \in Events : HearStep[<<r, b>>] = HearEvent(r, b)
  BY HearSteps
<1>3. ASSUME NEW g, NEW T \in SUBSET (1..N), T # {} => g[T \ {Max(T)}] \in Hearings
      PROVE  d(g, T) = e(g, T)
  <2>1. CASE T # {}
    <3>1. Max(T) \in 1..N
      BY <1>1, <2>1, MaxIsIn
    <3>2. g[T \ {Max(T)}] \in Hearings /\ seq[Max(T)] \in Events
      BY <1>1, <1>3, <2>1, <3>1
    <3> QED BY <1>2, <2>1, <3>2
  <2> QED BY <2>1
<1>4. \E g : Iter(g)
  <2>1. PICK g : FoldIs(g, HearStep, Unheard, seq) /\ \A T \in SUBSET (1..N) : g[T] \in Hearings
    BY <1>2, FoldExists
  <2>2. g = [T \in SUBSET (1..N) |-> d(g, T)]
    BY <2>1 DEF FoldIs
  <2>3. \A T \in SUBSET (1..N) : d(g, T) = e(g, T)
    <3> SUFFICES ASSUME NEW T \in SUBSET (1..N) PROVE d(g, T) = e(g, T)
      OBVIOUS
    <3>1. T \ {Max(T)} \in SUBSET (1..N)
      OBVIOUS
    <3>2. g[T \ {Max(T)}] \in Hearings
      BY <2>1, <3>1
    <3> HIDE DEF d, e
    <3> QED BY <1>3, <3>2
  <2> HIDE DEF d, e
  <2>4. Iter(g)
    BY <2>2, <2>3
  <2> QED BY <2>4
<1> DEFINE g == CHOOSE g : Iter(g)
<1>5. Iter(g)
  BY <1>4
<1>6. HeardIn(seq) = g[1..N]
  BY <1>1 DEF HeardIn, FoldLeft, MapThenFoldSet
<1> HIDE DEF g
<1>7. g[{}] = Unheard
  <2>1. {} \in SUBSET (1..N)
    OBVIOUS
  <2> QED BY <1>5, <2>1
<1>8. ASSUME NEW T \in SUBSET (1..N), T # {}, g[T \ {Max(T)}] \in Hearings
      PROVE  g[T] = HearStep[<<g[T \ {Max(T)}], seq[Max(T)]>>]
  <2>1. g[T] = e(g, T)
    BY <1>5
  <2>2. d(g, T) = e(g, T)
    BY <1>3, <1>8
  <2> QED BY <1>8, <2>1, <2>2
<1>9. \A T \in SUBSET (1..Len(seq)) : T # {} /\ g[T \ {Max(T)}] \in Hearings =>
         g[T] = HearStep[<<g[T \ {Max(T)}], seq[Max(T)]>>]
  BY <1>8
<1>10. Folded(Hearings, HearStep, Unheard, seq, g[1..Len(seq)])
  BY <1>2, <1>7, <1>9, FoldedBySets
<1> QED BY <1>6, <1>10

LEMMA HearOneMore ==
  ASSUME NEW seq \in Seq(Events), NEW b \in Events
  PROVE  /\ HeardIn(seq) \in Hearings /\ HeardIn(<<>>) = Unheard
         /\ HeardIn(Append(seq, b)) = HearEvent(HeardIn(seq), b)
         /\ HeardIn(Append(seq, b)) \in Hearings
<1>1. Append(seq, b) \in Seq(Events) /\ <<>> \in Seq(Events)
  BY AppendProperties, EmptySeq
<1>2. /\ Unheard \in Hearings /\ HearStep \in [Hearings \X Events -> Hearings]
      /\ \A r \in Hearings, x \in Events : HearStep[<<r, x>>] = HearEvent(r, x)
  BY HearSteps
<1>3. /\ Folded(Hearings, HearStep, Unheard, seq, HeardIn(seq))
      /\ Folded(Hearings, HearStep, Unheard, <<>>, HeardIn(<<>>))
      /\ Folded(Hearings, HearStep, Unheard, Append(seq, b), HeardIn(Append(seq, b)))
  BY <1>1, HearFolded
<1>4. PICK r : r = HeardIn(seq)
  OBVIOUS
<1>5. PICK q : q = HeardIn(Append(seq, b))
  OBVIOUS
<1>6. r \in Hearings /\ q = HearStep[<<r, b>>]
  <2>1. Folded(Hearings, HearStep, Unheard, seq, r) /\ Folded(Hearings, HearStep, Unheard, Append(seq, b), q)
    BY <1>3, <1>4, <1>5
  <2> QED BY <2>1, FoldedOneMore
<1>7. q = HearEvent(r, b) /\ q \in Hearings
  <2>1. <<r, b>> \in Hearings \X Events
    BY <1>6
  <2> QED BY <1>2, <1>6, <2>1
<1>8. HeardIn(<<>>) = Unheard
  BY <1>3, FoldedNothing
<1> QED BY <1>4, <1>5, <1>6, <1>7, <1>8

\* A text read so far.
Places   == {"record", "field", "plain", "quoted", "closed", "escaped", "comment", "bad"}
Readings == [at : Places, rows : Records, row : Seq(Seq(Codes)), cur : Seq(Codes),
             emptyQuoted : BOOLEAN, quoteThenEnd : BOOLEAN]
ReadStep == [x \in Readings \X Bytes |-> ShapedByte(x[1], x[2])]

\* The readings after one more byte, apart from the two marks.
LEMMA AddByteProperties ==
  ASSUME NEW r \in Readings, NEW b \in Bytes, NEW where \in Places
  PROVE  /\ AddByte(r, b, where) \in Readings
         /\ CloseField(r) \in Readings /\ CloseRow(r) \in Readings
         /\ [r EXCEPT !.at = where] \in Readings
<1>1. /\ r.rows \in Records /\ r.row \in Seq(Seq(Codes)) /\ r.cur \in Seq(Codes)
      /\ b \in Codes /\ r.at \in Places
  BY ByteFacts DEF Readings
<1>2. PICK cur \in Seq(Codes) : cur = Append(r.cur, b)
  BY <1>1, AppendProperties
<1>3. PICK row \in Seq(Seq(Codes)) : row = Append(r.row, r.cur)
  BY <1>1, AppendProperties
<1>4. PICK rows \in Records : rows = Append(r.rows, row)
  BY <1>1, AppendProperties DEF Records
<1>5. PICK none \in Seq(Codes) : none = <<>>
  BY EmptySeq
<1>6. PICK empty \in Seq(Seq(Codes)) : empty = <<>>
  BY EmptySeq
<1>7. "field" \in Places /\ "record" \in Places
  BY DEF Places
<1>8. [r EXCEPT !.cur = cur, !.at = where] \in Readings
  BY DEF Readings
<1>9. [r EXCEPT !.row = row, !.cur = none, !.at = "field"] \in Readings
  <2>1. PICK q \in Readings : q = [r EXCEPT !.row = row, !.cur = none]
    BY DEF Readings
  <2>2. [q EXCEPT !.at = "field"] \in Readings
    BY <1>7 DEF Readings
  <2> QED BY <2>1, <2>2
<1>10. [r EXCEPT !.rows = rows, !.row = empty, !.cur = none, !.at = "record"] \in Readings
  <2>1. PICK q \in Readings : q = [r EXCEPT !.rows = rows, !.row = empty]
    BY DEF Readings
  <2>2. [q EXCEPT !.cur = none, !.at = "record"] \in Readings
    BY <1>7 DEF Readings
  <2> QED BY <2>1, <2>2
<1>11. [r EXCEPT !.at = where] \in Readings
  BY DEF Readings
<1>12. AddByte(r, b, where) = [r EXCEPT !.cur = cur, !.at = where]
  BY <1>2 DEF AddByte
<1>13. CloseField(r) = [r EXCEPT !.row = row, !.cur = none, !.at = "field"]
  BY <1>3, <1>5 DEF CloseField
<1>14. CloseRow(r) = [r EXCEPT !.rows = rows, !.row = empty, !.cur = none, !.at = "record"]
  BY <1>3, <1>4, <1>5, <1>6 DEF CloseRow
<1> QED BY <1>8, <1>9, <1>10, <1>11, <1>12, <1>13, <1>14

LEMMA ReadByteForms ==
  ASSUME NEW r, NEW b
  PROVE  \/ ReadByte(r, b) = r
         \/ \E where \in Places : ReadByte(r, b) = [r EXCEPT !.at = where]
         \/ \E x \in {b, EscapedByte(b)}, where \in Places : ReadByte(r, b) = AddByte(r, x, where)
         \/ ReadByte(r, b) = CloseField(r)
         \/ ReadByte(r, b) = CloseRow(r)
<1> DEFINE Form(m) == \/ m = r
                      \/ \E where \in Places : m = [r EXCEPT !.at = where]
                      \/ \E x \in {b, EscapedByte(b)}, where \in Places : m = AddByte(r, x, where)
                      \/ m = CloseField(r)
                      \/ m = CloseRow(r)
<1>1. /\ "quoted" \in Places /\ "closed" \in Places /\ "escaped" \in Places
      /\ "comment" \in Places /\ "plain" \in Places /\ "bad" \in Places /\ "record" \in Places
  BY DEF Places
<1>2. /\ \A where \in Places : Form([r EXCEPT !.at = where])
      /\ \A where \in Places : Form(AddByte(r, b, where)) /\ Form(AddByte(r, EscapedByte(b), where))
      /\ Form(r) /\ Form(CloseField(r)) /\ Form(CloseRow(r))
  OBVIOUS
<1> HIDE DEF Form
<1>3. Form(ReadOutside(r, b))
  <2>1. [r EXCEPT !.at = IF r.at = "plain" THEN "bad" ELSE "quoted"] \in
          {[r EXCEPT !.at = "bad"], [r EXCEPT !.at = "quoted"]}
    OBVIOUS
  <2>2. Form([r EXCEPT !.at = IF r.at = "plain" THEN "bad" ELSE "quoted"])
    BY <1>1, <1>2, <2>1
  <2> QED BY <1>1, <1>2, <2>2 DEF ReadOutside
<1>4. Form(ReadInside(r, b)) /\ Form(ReadEscaped(r, b))
  BY <1>1, <1>2 DEF ReadInside, ReadEscaped
<1>5. Form(ReadClosed(r, b))
  BY <1>1, <1>2, <1>3 DEF ReadClosed
<1>6. Form(ReadByte(r, b))
  BY <1>1, <1>2, <1>3, <1>4, <1>5 DEF ReadByte
<1> QED BY <1>6 DEF Form

\* Reading a byte does not touch the marks.
LEMMA ReadByteProperties ==
  ASSUME NEW r \in Readings, NEW b \in Bytes
  PROVE  LET m == ReadByte(r, b)
         IN  /\ m \in Readings
             /\ m.emptyQuoted = r.emptyQuoted /\ m.quoteThenEnd = r.quoteThenEnd
<1> DEFINE Fine(m) == /\ m \in Readings
                       /\ m.emptyQuoted = r.emptyQuoted /\ m.quoteThenEnd = r.quoteThenEnd
<1>1. /\ "quoted" \in Places /\ "closed" \in Places /\ "escaped" \in Places
      /\ "comment" \in Places /\ "plain" \in Places /\ "bad" \in Places /\ "record" \in Places
  BY DEF Places
<1>2. PICK x \in Bytes : x = EscapedByte(b)
  BY ByteFacts DEF EscapedByte
<1>3. Fine(CloseField(r)) /\ Fine(CloseRow(r))
  <2>1. CloseField(r) \in Readings /\ CloseRow(r) \in Readings
    BY <1>1, AddByteProperties
  <2> QED BY <2>1 DEF CloseField, CloseRow, Readings
<1>4. ASSUME NEW where \in Places
      PROVE  Fine([r EXCEPT !.at = where]) /\ Fine(AddByte(r, b, where)) /\ Fine(AddByte(r, x, where))
  <2>1. [r EXCEPT !.at = where] \in Readings /\ AddByte(r, b, where) \in Readings
        /\ AddByte(r, x, where) \in Readings
    BY AddByteProperties
  <2> QED BY <2>1 DEF AddByte, Readings
<1>5. Fine(r)
  OBVIOUS
<1> HIDE DEF Fine
<1>6. Fine(ReadByte(r, b))
  BY <1>1, <1>2, <1>3, <1>4, <1>5, ReadByteForms
<1> QED BY <1>6 DEF Fine

LEMMA ShapedByteProperties ==
  ASSUME NEW r \in Readings, NEW b \in Bytes
  PROVE  LET q == ShapedByte(r, b)
             m == ReadByte(r, b)
         IN  /\ q \in Readings
             /\ q.at = m.at /\ q.rows = m.rows /\ q.row = m.row /\ q.cur = m.cur
             /\ q.emptyQuoted = (r.emptyQuoted \/ EmptyQuoted(r, b))
             /\ q.quoteThenEnd = (r.quoteThenEnd \/ QuoteThenEnd(r, b))
<1>1. PICK m \in Readings : m = ReadByte(r, b)
  BY ReadByteProperties
<1>2. m.emptyQuoted = r.emptyQuoted /\ m.quoteThenEnd = r.quoteThenEnd
  BY <1>1, ReadByteProperties
<1>3. PICK x \in BOOLEAN : x = (m.emptyQuoted \/ EmptyQuoted(r, b))
  OBVIOUS
<1>4. PICK y \in BOOLEAN : y = (m.quoteThenEnd \/ QuoteThenEnd(r, b))
  OBVIOUS
<1>5. ShapedByte(r, b) = [m EXCEPT !.emptyQuoted = x, !.quoteThenEnd = y]
  BY <1>1, <1>3, <1>4 DEF ShapedByte
<1>6. PICK q : q = [m EXCEPT !.emptyQuoted = x, !.quoteThenEnd = y]
  OBVIOUS
<1>7. /\ q \in Readings /\ q.emptyQuoted = x /\ q.quoteThenEnd = y
      /\ q.at = m.at /\ q.rows = m.rows /\ q.row = m.row /\ q.cur = m.cur
  BY <1>6 DEF Readings
<1> QED BY <1>1, <1>2, <1>3, <1>4, <1>5, <1>6, <1>7

LEMMA ReadSteps ==
  /\ NotShaped \in Readings /\ ReadStep \in [Readings \X Bytes -> Readings]
  /\ \A r \in Readings, b \in Bytes : ReadStep[<<r, b>>] = ShapedByte(r, b)
<1>1. NotShaped \in Readings
  BY EmptySeq DEF NotShaped, Readings, Records, Places
<1>2. \A x \in Readings \X Bytes : ShapedByte(x[1], x[2]) \in Readings
  BY ShapedByteProperties
<1> QED BY <1>1, <1>2 DEF ReadStep

LEMMA ReadFolded ==
  ASSUME NEW seq \in Seq(Bytes)
  PROVE  Folded(Readings, ReadStep, NotShaped, seq, Shaped(seq))
<1> DEFINE N == Len(seq)
           e(g, T) == IF T = {} THEN NotShaped ELSE ShapedByte(g[T \ {Max(T)}], seq[Max(T)])
           d(g, T) == IF T = {} THEN NotShaped ELSE ReadStep[<<g[T \ {Max(T)}], seq[Max(T)]>>]
           Iter(g) == g = [T \in SUBSET (1..N) |-> e(g, T)]
<1>1. N \in Nat /\ (\A k \in 1..N : seq[k] \in Bytes) /\ DOMAIN seq = 1..N
  BY LenProperties, ElementOfSeq
<1>2. /\ NotShaped \in Readings /\ ReadStep \in [Readings \X Bytes -> Readings]
      /\ \A r \in Readings, b \in Bytes : ReadStep[<<r, b>>] = ShapedByte(r, b)
  BY ReadSteps
<1>3. ASSUME NEW g, NEW T \in SUBSET (1..N), T # {} => g[T \ {Max(T)}] \in Readings
      PROVE  d(g, T) = e(g, T)
  <2>1. CASE T # {}
    <3>1. Max(T) \in 1..N
      BY <1>1, <2>1, MaxIsIn
    <3>2. g[T \ {Max(T)}] \in Readings /\ seq[Max(T)] \in Bytes
      BY <1>1, <1>3, <2>1, <3>1
    <3> QED BY <1>2, <2>1, <3>2
  <2> QED BY <2>1
<1>4. \E g : Iter(g)
  <2>1. PICK g : FoldIs(g, ReadStep, NotShaped, seq) /\ \A T \in SUBSET (1..N) : g[T] \in Readings
    BY <1>2, FoldExists
  <2>2. g = [T \in SUBSET (1..N) |-> d(g, T)]
    BY <2>1 DEF FoldIs
  <2>3. \A T \in SUBSET (1..N) : d(g, T) = e(g, T)
    <3> SUFFICES ASSUME NEW T \in SUBSET (1..N) PROVE d(g, T) = e(g, T)
      OBVIOUS
    <3>1. T \ {Max(T)} \in SUBSET (1..N)
      OBVIOUS
    <3>2. g[T \ {Max(T)}] \in Readings
      BY <2>1, <3>1
    <3> HIDE DEF d, e
    <3> QED BY <1>3, <3>2
  <2> HIDE DEF d, e
  <2>4. Iter(g)
    BY <2>2, <2>3
  <2> QED BY <2>4
<1> DEFINE g == CHOOSE g : Iter(g)
<1>5. Iter(g)
  BY <1>4
<1>6. Shaped(seq) = g[1..N]
  BY <1>1 DEF Shaped, FoldLeft, MapThenFoldSet
<1> HIDE DEF g
<1>7. g[{}] = NotShaped
  <2>1. {} \in SUBSET (1..N)
    OBVIOUS
  <2> QED BY <1>5, <2>1
<1>8. ASSUME NEW T \in SUBSET (1..N), T # {}, g[T \ {Max(T)}] \in Readings
      PROVE  g[T] = ReadStep[<<g[T \ {Max(T)}], seq[Max(T)]>>]
  <2>1. g[T] = e(g, T)
    BY <1>5
  <2>2. d(g, T) = e(g, T)
    BY <1>3, <1>8
  <2> QED BY <1>8, <2>1, <2>2
<1>9. \A T \in SUBSET (1..Len(seq)) : T # {} /\ g[T \ {Max(T)}] \in Readings =>
         g[T] = ReadStep[<<g[T \ {Max(T)}], seq[Max(T)]>>]
  BY <1>8
<1>10. Folded(Readings, ReadStep, NotShaped, seq, g[1..Len(seq)])
  BY <1>2, <1>7, <1>9, FoldedBySets
<1> QED BY <1>6, <1>10

LEMMA ReadOneMore ==
  ASSUME NEW seq \in Seq(Bytes), NEW b \in Bytes
  PROVE  /\ Shaped(seq) \in Readings /\ Shaped(<<>>) = NotShaped
         /\ Shaped(Append(seq, b)) = ShapedByte(Shaped(seq), b)
         /\ Shaped(Append(seq, b)) \in Readings
<1>1. Append(seq, b) \in Seq(Bytes) /\ <<>> \in Seq(Bytes)
  BY AppendProperties, EmptySeq
<1>2. /\ NotShaped \in Readings /\ ReadStep \in [Readings \X Bytes -> Readings]
      /\ \A r \in Readings, x \in Bytes : ReadStep[<<r, x>>] = ShapedByte(r, x)
  BY ReadSteps
<1>3. /\ Folded(Readings, ReadStep, NotShaped, seq, Shaped(seq))
      /\ Folded(Readings, ReadStep, NotShaped, <<>>, Shaped(<<>>))
      /\ Folded(Readings, ReadStep, NotShaped, Append(seq, b), Shaped(Append(seq, b)))
  BY <1>1, ReadFolded
<1>4. PICK r : r = Shaped(seq)
  OBVIOUS
<1>5. PICK q : q = Shaped(Append(seq, b))
  OBVIOUS
<1>6. r \in Readings /\ q = ReadStep[<<r, b>>]
  <2>1. Folded(Readings, ReadStep, NotShaped, seq, r) /\ Folded(Readings, ReadStep, NotShaped, Append(seq, b), q)
    BY <1>3, <1>4, <1>5
  <2> QED BY <2>1, FoldedOneMore
<1>7. q = ShapedByte(r, b) /\ q \in Readings
  <2>1. <<r, b>> \in Readings \X Bytes
    BY <1>6
  <2> QED BY <1>2, <1>6, <2>1
<1>8. Shaped(<<>>) = NotShaped
  BY <1>3, FoldedNothing
<1> QED BY <1>4, <1>5, <1>6, <1>7, <1>8

\* The content of a quoted field.
Halved(bytes) == FoldLeft(CollapseByte, NoHalf, bytes)
UnquoteStep == [x \in Halves(Codes) \X Codes |-> CollapseByte(x[1], x[2])]

LEMMA UnquoteSteps ==
  /\ NoHalf \in Halves(Codes) /\ UnquoteStep \in [Halves(Codes) \X Codes -> Halves(Codes)]
  /\ \A r \in Halves(Codes), b \in Codes : UnquoteStep[<<r, b>>] = CollapseByte(r, b)
<1>1. NoHalf \in Halves(Codes)
  BY EmptySeq DEF NoHalf, Halves
<1>2. \A x \in Halves(Codes) \X Codes : CollapseByte(x[1], x[2]) \in Halves(Codes)
  BY CollapseByteProperties
<1> QED BY <1>1, <1>2 DEF UnquoteStep

LEMMA UnquoteFolded ==
  ASSUME NEW seq \in Seq(Codes)
  PROVE  Folded(Halves(Codes), UnquoteStep, NoHalf, seq, Halved(seq))
<1> DEFINE N == Len(seq)
           e(g, T) == IF T = {} THEN NoHalf ELSE CollapseByte(g[T \ {Max(T)}], seq[Max(T)])
           d(g, T) == IF T = {} THEN NoHalf ELSE UnquoteStep[<<g[T \ {Max(T)}], seq[Max(T)]>>]
           Iter(g) == g = [T \in SUBSET (1..N) |-> e(g, T)]
<1>1. N \in Nat /\ (\A k \in 1..N : seq[k] \in Codes) /\ DOMAIN seq = 1..N
  BY LenProperties, ElementOfSeq
<1>2. /\ NoHalf \in Halves(Codes) /\ UnquoteStep \in [Halves(Codes) \X Codes -> Halves(Codes)]
      /\ \A r \in Halves(Codes), b \in Codes : UnquoteStep[<<r, b>>] = CollapseByte(r, b)
  BY UnquoteSteps
<1>3. ASSUME NEW g, NEW T \in SUBSET (1..N), T # {} => g[T \ {Max(T)}] \in Halves(Codes)
      PROVE  d(g, T) = e(g, T)
  <2>1. CASE T # {}
    <3>1. Max(T) \in 1..N
      BY <1>1, <2>1, MaxIsIn
    <3>2. g[T \ {Max(T)}] \in Halves(Codes) /\ seq[Max(T)] \in Codes
      BY <1>1, <1>3, <2>1, <3>1
    <3> QED BY <1>2, <2>1, <3>2
  <2> QED BY <2>1
<1>4. \E g : Iter(g)
  <2>1. PICK g : FoldIs(g, UnquoteStep, NoHalf, seq) /\ \A T \in SUBSET (1..N) : g[T] \in Halves(Codes)
    BY <1>2, FoldExists
  <2>2. g = [T \in SUBSET (1..N) |-> d(g, T)]
    BY <2>1 DEF FoldIs
  <2>3. \A T \in SUBSET (1..N) : d(g, T) = e(g, T)
    <3> SUFFICES ASSUME NEW T \in SUBSET (1..N) PROVE d(g, T) = e(g, T)
      OBVIOUS
    <3>1. T \ {Max(T)} \in SUBSET (1..N)
      OBVIOUS
    <3>2. g[T \ {Max(T)}] \in Halves(Codes)
      BY <2>1, <3>1
    <3> HIDE DEF d, e
    <3> QED BY <1>3, <3>2
  <2> HIDE DEF d, e
  <2>4. Iter(g)
    BY <2>2, <2>3
  <2> QED BY <2>4
<1> DEFINE g == CHOOSE g : Iter(g)
<1>5. Iter(g)
  BY <1>4
<1>6. Halved(seq) = g[1..N]
  BY <1>1 DEF Halved, FoldLeft, MapThenFoldSet
<1> HIDE DEF g
<1>7. g[{}] = NoHalf
  <2>1. {} \in SUBSET (1..N)
    OBVIOUS
  <2> QED BY <1>5, <2>1
<1>8. ASSUME NEW T \in SUBSET (1..N), T # {}, g[T \ {Max(T)}] \in Halves(Codes)
      PROVE  g[T] = UnquoteStep[<<g[T \ {Max(T)}], seq[Max(T)]>>]
  <2>1. g[T] = e(g, T)
    BY <1>5
  <2>2. d(g, T) = e(g, T)
    BY <1>3, <1>8
  <2> QED BY <1>8, <2>1, <2>2
<1>9. \A T \in SUBSET (1..Len(seq)) : T # {} /\ g[T \ {Max(T)}] \in Halves(Codes) =>
         g[T] = UnquoteStep[<<g[T \ {Max(T)}], seq[Max(T)]>>]
  BY <1>8
<1>10. Folded(Halves(Codes), UnquoteStep, NoHalf, seq, g[1..Len(seq)])
  BY <1>2, <1>7, <1>9, FoldedBySets
<1> QED BY <1>6, <1>10

LEMMA UnquoteOneMore ==
  ASSUME NEW seq \in Seq(Codes), NEW b \in Codes
  PROVE  /\ Halved(seq) \in Halves(Codes) /\ Halved(<<>>) = NoHalf
         /\ Halved(Append(seq, b)) = CollapseByte(Halved(seq), b)
         /\ Halved(Append(seq, b)) \in Halves(Codes)
<1>1. Append(seq, b) \in Seq(Codes) /\ <<>> \in Seq(Codes)
  BY AppendProperties, EmptySeq
<1>2. /\ NoHalf \in Halves(Codes) /\ UnquoteStep \in [Halves(Codes) \X Codes -> Halves(Codes)]
      /\ \A r \in Halves(Codes), x \in Codes : UnquoteStep[<<r, x>>] = CollapseByte(r, x)
  BY UnquoteSteps
<1>3. /\ Folded(Halves(Codes), UnquoteStep, NoHalf, seq, Halved(seq))
      /\ Folded(Halves(Codes), UnquoteStep, NoHalf, <<>>, Halved(<<>>))
      /\ Folded(Halves(Codes), UnquoteStep, NoHalf, Append(seq, b), Halved(Append(seq, b)))
  BY <1>1, UnquoteFolded
<1>4. PICK r : r = Halved(seq)
  OBVIOUS
<1>5. PICK q : q = Halved(Append(seq, b))
  OBVIOUS
<1>6. r \in Halves(Codes) /\ q = UnquoteStep[<<r, b>>]
  <2>1. Folded(Halves(Codes), UnquoteStep, NoHalf, seq, r) /\ Folded(Halves(Codes), UnquoteStep, NoHalf, Append(seq, b), q)
    BY <1>3, <1>4, <1>5
  <2> QED BY <2>1, FoldedOneMore
<1>7. q = CollapseByte(r, b) /\ q \in Halves(Codes)
  <2>1. <<r, b>> \in Halves(Codes) \X Codes
    BY <1>6
  <2> QED BY <1>2, <1>6, <2>1
<1>8. Halved(<<>>) = NoHalf
  BY <1>3, FoldedNothing
<1> QED BY <1>4, <1>5, <1>6, <1>7, <1>8

-----------------------------------------------------------------------------
(* Reading on.                                                             *)

\* What the first k bytes of a text mean.
ReadUpTo(text, k) == Shaped(SubSeq(text, 1, k))
Odd(m) == m.emptyQuoted \/ m.quoteThenEnd

LEMMA ReadUpToStep ==
  ASSUME NEW text \in Seq(Bytes), NEW k \in 1..Len(text)
  PROVE  /\ ReadUpTo(text, k) = ShapedByte(ReadUpTo(text, k - 1), text[k])
         /\ ReadUpTo(text, k - 1) \in Readings /\ ReadUpTo(text, k) \in Readings
         /\ text[k] \in Bytes
<1>1. Len(text) \in Nat /\ text[k] \in Bytes /\ 1 \in 1..Len(text) /\ k \in 1..Len(text)
  BY LenProperties, ElementOfSeq
<1>2. PICK part \in Seq(Bytes) : part = SubSeq(text, 1, k - 1)
  <2>1. \A i \in 1..(k - 1) : text[i] \in Bytes
    BY <1>1, ElementOfSeq
  <2>2. 1 \in Int /\ k - 1 \in Int
    BY <1>1
  <2> QED BY <2>1, <2>2, SubSeqProperties
<1>3. SubSeq(text, 1, k) = part \o <<text[k]>>
  BY <1>1, <1>2, SubSeqRecursiveSecond
<1>4. SubSeq(text, 1, k) = Append(part, text[k])
  BY <1>1, <1>3, AppendIsConcat
<1> QED BY <1>1, <1>2, <1>4, ReadOneMore DEF ReadUpTo

LEMMA ReadUpToType ==
  ASSUME NEW text \in Seq(Bytes), NEW k \in 0..Len(text)
  PROVE  ReadUpTo(text, k) \in Readings
<1>1. CASE k = 0
  <2>1. SubSeq(text, 1, 0) = <<>>
    BY SubSeqEmpty
  <2>2. NotShaped \in Readings
    BY ReadSteps
  <2>3. Shaped(<<>>) = NotShaped
    <3>1. <<>> \in Seq(Bytes) /\ "lf" \in Bytes
      BY EmptySeq, ByteFacts
    <3> QED BY <3>1, ReadOneMore
  <2> QED BY <1>1, <2>1, <2>2, <2>3 DEF ReadUpTo
<1>2. CASE k # 0
  <2>1. k \in 1..Len(text)
    BY <1>2, LenProperties
  <2> QED BY <2>1, ReadUpToStep
<1> QED BY <1>1, <1>2

LEMMA ReadNothing ==
  ASSUME NEW text \in Seq(Bytes)
  PROVE  ReadUpTo(text, 0) = NotShaped
<1>1. SubSeq(text, 1, 0) = <<>>
  BY SubSeqEmpty
<1>2. <<>> \in Seq(Bytes) /\ "lf" \in Bytes
  BY EmptySeq, ByteFacts
<1> QED BY <1>1, <1>2, ReadOneMore DEF ReadUpTo

LEMMA ReadAll ==
  ASSUME NEW text \in Seq(Bytes)
  PROVE  ReadUpTo(text, Len(text)) = Shaped(text)
BY SubSeqFull DEF ReadUpTo

\* A text that goes on means at k what it meant.
LEMMA ReadPrefix ==
  ASSUME NEW text \in Seq(Bytes), NEW more \in Seq(Bytes), NEW k \in 0..Len(text)
  PROVE  ReadUpTo(text \o more, k) = ReadUpTo(text, k)
<1>1. Len(text) \in Nat
  BY LenProperties
<1>2. CASE k = 0
  <2>1. SubSeq(text, 1, 0) = <<>> /\ SubSeq(text \o more, 1, 0) = <<>>
    BY SubSeqEmpty
  <2> QED BY <1>2, <2>1 DEF ReadUpTo
<1>3. CASE k # 0
  <2>1. 1 \in 1..Len(text) /\ k \in 1..Len(text)
    BY <1>1, <1>3
  <2>2. SubSeq(text \o more, 1, k) = SubSeq(text, 1, k)
    BY <2>1, SubSeqOfConcat1
  <2> QED BY <2>2 DEF ReadUpTo
<1> QED BY <1>2, <1>3

\* What the reading of a byte does where the parser may be.
SameMarks(q, r) == q.emptyQuoted = r.emptyQuoted /\ q.quoteThenEnd = r.quoteThenEnd

LEMMA BadStays ==
  ASSUME NEW r \in Readings, NEW b \in Bytes, r.at = "bad"
  PROVE  LET q == ShapedByte(r, b)
         IN  q.at = "bad" /\ q.rows = r.rows /\ q.row = r.row /\ SameMarks(q, r)
<1>1. ReadByte(r, b) = r
  BY DEF ReadByte
<1>2. ~EmptyQuoted(r, b) /\ ~QuoteThenEnd(r, b)
  BY DEF EmptyQuoted, QuoteThenEnd
<1>3. r.emptyQuoted \in BOOLEAN /\ r.quoteThenEnd \in BOOLEAN
  BY DEF Readings
<1> QED BY <1>1, <1>2, <1>3, ShapedByteProperties DEF SameMarks

LEMMA OddStays ==
  ASSUME NEW r \in Readings, NEW b \in Bytes, Odd(r)
  PROVE  Odd(ShapedByte(r, b))
BY ShapedByteProperties DEF Odd

LEMMA ReadsDelimiter ==
  ASSUME NEW r \in Readings,
         \/ r.at \in {"field", "plain", "closed"}
         \/ r.at = "record" /\ CommentPrefix # <<"delim">>
  PROVE  LET q == ShapedByte(r, "delim")
         IN  q.at = "field" /\ q.cur = <<>> /\ q.rows = r.rows /\ q.row = Append(r.row, r.cur)
<1>1. "delim" \in Bytes
  BY DEF Bytes
<1>2. ReadOutside(r, "delim") = CloseField(r)
  BY DEF ReadOutside
<1>3. ReadByte(r, "delim") = CloseField(r)
  BY <1>2 DEF ReadByte, ReadClosed
<1>4. CloseField(r).at = "field" /\ CloseField(r).cur = <<>> /\ CloseField(r).rows = r.rows
      /\ CloseField(r).row = Append(r.row, r.cur)
  BY DEF CloseField, Readings
<1> QED BY <1>1, <1>3, <1>4, ShapedByteProperties

LEMMA ReadsNewline ==
  ASSUME NEW r \in Readings, r.at \in {"field", "plain", "closed"}
  PROVE  LET q == ShapedByte(r, "lf")
         IN  /\ q.at = "record" /\ q.cur = <<>> /\ q.row = <<>>
             /\ q.rows = Append(r.rows, Append(r.row, r.cur))
<1>1. ReadOutside(r, "lf") = CloseRow(r)
  BY DEF ReadOutside
<1>2. ReadByte(r, "lf") = CloseRow(r)
  BY <1>1 DEF ReadByte, ReadClosed
<1>3. CloseRow(r).at = "record" /\ CloseRow(r).cur = <<>> /\ CloseRow(r).row = <<>>
      /\ CloseRow(r).rows = Append(r.rows, Append(r.row, r.cur))
  BY DEF CloseRow, Readings
<1> QED BY <1>2, <1>3, ByteFacts, ShapedByteProperties

\* Where only the place changes.
LEMMA ReadsPlace ==
  ASSUME NEW r \in Readings, NEW b \in Bytes, NEW where \in Places,
         ReadByte(r, b) = [r EXCEPT !.at = where]
  PROVE  LET q == ShapedByte(r, b)
         IN  q.at = where /\ q.cur = r.cur /\ q.rows = r.rows /\ q.row = r.row
<1>1. PICK m : m = ReadByte(r, b)
  OBVIOUS
<1>2. m.at = where /\ m.cur = r.cur /\ m.rows = r.rows /\ m.row = r.row
  BY <1>1 DEF Readings
<1> QED BY <1>1, <1>2, ShapedByteProperties

\* Where the byte belongs to the field.
LEMMA ReadsByte ==
  ASSUME NEW r \in Readings, NEW b \in Bytes, NEW where \in Places,
         ReadByte(r, b) = AddByte(r, b, where)
  PROVE  LET q == ShapedByte(r, b)
         IN  q.at = where /\ q.cur = Append(r.cur, b) /\ q.rows = r.rows /\ q.row = r.row
<1>1. PICK m : m = ReadByte(r, b)
  OBVIOUS
<1>2. m.at = where /\ m.cur = Append(r.cur, b) /\ m.rows = r.rows /\ m.row = r.row
  BY <1>1 DEF Readings, AddByte
<1> QED BY <1>1, <1>2, ShapedByteProperties

\* A text that is malformed, or has one of the two shapes, stays so.
LEMMA ReadOn ==
  ASSUME NEW text \in Seq(Bytes), NEW j \in 0..Len(text), NEW k \in j..Len(text)
  PROVE  LET r == ReadUpTo(text, j)
             q == ReadUpTo(text, k)
         IN  /\ Odd(r) => Odd(q)
             /\ r.at = "bad" => q.at = "bad" /\ q.rows = r.rows /\ q.row = r.row
<1> DEFINE Stays(i) == LET r == ReadUpTo(text, j)
                           q == ReadUpTo(text, i)
                       IN  /\ Odd(r) => Odd(q)
                           /\ r.at = "bad" => q.at = "bad" /\ q.rows = r.rows /\ q.row = r.row
           Still == {n \in Nat : j + n <= Len(text) => Stays(j + n)}
<1>1. j \in Nat /\ Len(text) \in Nat /\ k \in Nat /\ j <= k
  BY LenProperties
<1>2. 0 \in Still
  <2>1. Stays(j)
    OBVIOUS
  <2>2. j + 0 = j
    BY <1>1
  <2> QED BY <2>1, <2>2
<1>3. ASSUME NEW n \in Nat, n \in Still PROVE n + 1 \in Still
  <2>1. CASE j + (n + 1) <= Len(text)
    <3>1. PICK i : i = j + (n + 1) /\ i \in 1..Len(text) /\ i - 1 = j + n /\ j + n <= Len(text)
      BY <1>1, <2>1
    <3>2. Stays(i - 1)
      BY <1>3, <3>1
    <3>3. PICK b \in Bytes : b = text[i]
      BY <3>1, ElementOfSeq
    <3>4. PICK q \in Readings : q = ReadUpTo(text, i - 1)
      BY <3>1, ReadUpToStep
    <3>5. ReadUpTo(text, i) = ShapedByte(q, b)
      BY <3>1, <3>3, <3>4, ReadUpToStep
    <3>6. Stays(i)
      BY <3>2, <3>4, <3>5, BadStays, OddStays
    <3> HIDE DEF Stays
    <3> QED BY <3>1, <3>6
  <2>2. CASE ~(j + (n + 1) <= Len(text))
    BY <2>2
  <2> QED BY <2>1, <2>2
<1> HIDE DEF Stays
<1>4. Nat \subseteq Still
  <2> HIDE DEF Still
  <2> QED BY <1>2, <1>3, NatSetInduction
<1>5. k - j \in Nat /\ j + (k - j) = k /\ k <= Len(text)
  BY <1>1
<1>6. Stays(k)
  BY <1>4, <1>5
<1> QED BY <1>6 DEF Stays

\* A run of plain bytes in an unquoted field.
PlainByte(b) == b \notin {"delim", "lf", "quote"}

LEMMA OneByte ==
  ASSUME NEW b \in Codes
  PROVE  <<b>> \in Seq(Codes)
OBVIOUS

LEMMA PlainRun ==
  ASSUME NEW text \in Seq(Bytes), NEW j \in 0..Len(text), NEW k \in j..Len(text),
         ReadUpTo(text, j).at = "plain",
         \A i \in (j + 1)..k : PlainByte(text[i])
  PROVE  LET r == ReadUpTo(text, j)
             q == ReadUpTo(text, k)
         IN  /\ q.at = "plain" /\ q.rows = r.rows /\ q.row = r.row
             /\ q.cur = r.cur \o SubSeq(text, j + 1, k)
<1> DEFINE Runs(i) == LET r == ReadUpTo(text, j)
                          q == ReadUpTo(text, i)
                      IN  /\ q.at = "plain" /\ q.rows = r.rows /\ q.row = r.row
                          /\ q.cur = r.cur \o SubSeq(text, j + 1, i)
           Still == {n \in Nat : j + n <= k => Runs(j + n)}
<1>1. j \in Nat /\ Len(text) \in Nat /\ k \in Nat /\ j <= k /\ k <= Len(text)
  BY LenProperties
<1>2. PICK r \in Readings : r = ReadUpTo(text, j)
  BY ReadUpToType
<1>3. r.cur \in Seq(Codes) /\ r.cur \o <<>> = r.cur
  BY ConcatEmptySeq DEF Readings
<1>4. 0 \in Still
  <2>1. SubSeq(text, j + 1, j) = <<>> /\ j + 0 = j
    BY <1>1, SubSeqEmpty
  <2> QED BY <1>2, <1>3, <2>1
<1>5. ASSUME NEW n \in Nat, n \in Still PROVE n + 1 \in Still
  <2>1. CASE j + (n + 1) <= k
    <3>1. PICK i : /\ i = j + (n + 1) /\ i \in 1..Len(text) /\ i - 1 = j + n /\ j + n <= k
                   /\ i \in (j + 1)..k /\ i \in Nat /\ i \in (j + 1)..Len(text)
                   /\ j + 1 \in 1..Len(text) /\ i - 1 >= j
      BY <1>1, <2>1
    <3>2. Runs(i - 1)
      BY <1>5, <3>1
    <3>3. PICK b \in Bytes : b = text[i] /\ PlainByte(b)
      BY <3>1, ElementOfSeq
    <3>4. PICK q \in Readings : q = ReadUpTo(text, i - 1)
      BY <3>1, ReadUpToStep
    <3>5. PICK m : m = ReadUpTo(text, i) /\ m = ShapedByte(q, b)
      BY <3>1, <3>3, <3>4, ReadUpToStep
    <3>6. q.at = "plain" /\ q.rows = r.rows /\ q.row = r.row /\ q.cur = r.cur \o SubSeq(text, j + 1, i - 1)
      BY <1>2, <3>2, <3>4
    <3>7. m.at = "plain" /\ m.cur = Append(q.cur, b) /\ m.rows = q.rows /\ m.row = q.row
      <4>1. ReadByte(q, b) = AddByte(q, b, "plain")
        BY <3>3, <3>6 DEF ReadByte, ReadOutside, PlainByte
      <4>2. "plain" \in Places
        BY DEF Places
      <4> QED BY <3>5, <4>1, <4>2, ReadsByte
    <3>8. m.cur = r.cur \o SubSeq(text, j + 1, i)
      <4>1. PICK part \in Seq(Codes) : part = SubSeq(text, j + 1, i - 1)
        <5>1. j + 1 \in Nat \ {0} /\ i - 1 \in Int /\ i - 1 <= Len(text)
          BY <1>1, <3>1
        <5> QED BY <5>1, PartOfBytes
      <4>2. b \in Codes
        BY ByteFacts
      <4>3. PICK one \in Seq(Codes) : one = <<b>>
        BY <4>2, OneByte
      <4>4. SubSeq(text, j + 1, i) = part \o one
        BY <3>1, <3>3, <4>1, <4>3, SubSeqRecursiveSecond
      <4>5. q.cur \in Seq(Codes) /\ Append(q.cur, b) = q.cur \o one
        BY <4>2, <4>3, AppendIsConcat DEF Readings
      <4>6. PICK x \in Seq(Codes) : x = r.cur
        BY <1>3
      <4>7. (x \o part) \o one = x \o (part \o one)
        BY ConcatAssociative
      <4> QED BY <3>6, <3>7, <4>1, <4>4, <4>5, <4>6, <4>7
    <3>9. Runs(i)
      BY <1>2, <3>5, <3>6, <3>7, <3>8
    <3> HIDE DEF Runs
    <3> QED BY <3>1, <3>9
  <2>2. CASE ~(j + (n + 1) <= k)
    <3> HIDE DEF Runs
    <3> QED BY <2>2
  <2> QED BY <2>1, <2>2
<1> HIDE DEF Runs
<1>6. Nat \subseteq Still
  <2> HIDE DEF Still
  <2> QED BY <1>4, <1>5, NatSetInduction
<1>7. k - j \in Nat /\ j + (k - j) = k
  BY <1>1
<1>8. Runs(k)
  BY <1>6, <1>7
<1> QED BY <1>8 DEF Runs

-----------------------------------------------------------------------------
(* The invariant.                                                          *)

\* The dialect of CsvText, and a caller that keeps the whole input in place.
PlainDialect ==
    /\ Escape = "doubled" /\ AcceptLf /\ ~AllowUnquotedQuotes /\ ~AllowUnquotedNewlines
    /\ "cr" \notin Alphabet /\ (KeepBom \/ Bom[1] \notin Alphabet)
    /\ Len(CommentPrefix) <= 1 /\ CommentPrefix # <<"lf">>
    /\ KeepInput = TRUE

\* The limits, as long as none was found exceeded.
InLimit(t) == t.error \notin {"LIMIT", "TOO_MANY_COLS"}

\* The chunk is what was fed last.
Fed == /\ \A i \in 1..Len(input) : input[i] \in Alphabet
       /\ \A q \in 1..Len(chunk) : chunk[q] = input[Base + q]

\* What the text means up to the position p of the chunk.
At(p) == ReadUpTo(input, Base + p)

HasQuote(bytes) == \E i \in DOMAIN bytes : bytes[i] = "quote"

\* A field in progress ends at p, and a quoted one lies in the chunk.
Placed(f, p) == ~f.buffered => f.at + f.len = Base + p
Copyable(f)  == ~f.buffered => f.start # NoOffset /\ f.at = Base + f.start
InQuotes(t, m, p) ==
    /\ t.field.quoted /\ Halved(Raw(t.field)) = [out |-> m.cur, half |-> FALSE]
    /\ t.doubled => HasQuote(m.cur)
    /\ Copyable(t.field) /\ Placed(t.field, p)
Begins(p) == Byte(p) # "lf" /\ CommentPrefix # <<Byte(p)>>

\* The stream t at p is where the text is (m), and its field is the text's.
Held(t, m, p, fall) ==
    /\ t.mode \notin {"ESCAPE_IN_QUOTED", "END"}
    /\ t.mode = "START_OF_RECORD" => m.at = "record" /\ m.cur = <<>> /\ t.fieldCount = 0
    /\ t.mode = "COMMENT"         => m.at = "comment" /\ m.cur = <<>> /\ t.fieldCount = 0
    /\ t.mode = "START_OF_FIELD"  => /\ m.cur = <<>>
                                     /\ m.at = "field" \/ (fall /\ m.at = "record" /\ Begins(p))
    /\ t.mode = "UNQUOTED_FIELD"  => /\ m.at = "plain" /\ ~t.field.quoted
                                     /\ m.cur = Raw(t.field) /\ Placed(t.field, p)
    /\ t.mode = "QUOTED_FIELD"    => m.at = "quoted" /\ InQuotes(t, m, p)
    /\ t.mode = "QUOTE_IN_QUOTED" => m.at = "closed" /\ InQuotes(t, m, p - 1)

\* The records and fields evs report are those of the text.
Reported(evs, m) == HeardIn(evs) = [rows |-> m.rows, row |-> m.row]
Follow(t, m, evs, p, fall) ==
    IF InLimit(t) THEN ~Odd(m) => /\ Reported(evs, m)
                                  /\ IF t.error = "OK" THEN Held(t, m, p, fall)
                                     ELSE t.mode = "END" /\ m.at = "bad"
    ELSE t.mode = "END"

Matches ==
    /\ Fed
    /\ ~finished /\ aborted = "no" => Follow(s, At(offset), events, offset, pc = "fall")
    /\ finished /\ InLimit(s) => FinishCompletesText

-----------------------------------------------------------------------------
(* The bytes of the chunk.                                                 *)

LEMMA AtType ==
  ASSUME ControlOK, NEW p \in 0..Len(chunk)
  PROVE  At(p) \in Readings /\ Base + p \in 0..Len(input)
<1>1. Base + p \in 0..Len(input) /\ input \in Seq(Bytes)
  BY LengthFacts DEF ControlOK
<1> QED BY <1>1, ReadUpToType DEF At

LEMMA NextByte ==
  ASSUME ControlOK, Fed, NEW p \in 0..Len(chunk), p < Len(chunk)
  PROVE  /\ Byte(p) \in Bytes /\ Byte(p) \in Alphabet /\ Byte(p) = input[Base + p + 1]
         /\ At(p + 1) = ShapedByte(At(p), Byte(p))
<1>1. PICK k : /\ k = Base + p + 1 /\ k \in 1..Len(input) /\ k - 1 = Base + p
               /\ k = Base + (p + 1) /\ p + 1 \in 1..Len(chunk)
  BY LengthFacts
<1>2. input \in Seq(Bytes)
  BY DEF ControlOK
<1>3. Byte(p) = input[k] /\ input[k] \in Alphabet
  BY <1>1 DEF Fed, Byte
<1>4. At(p) = ReadUpTo(input, k - 1) /\ At(p + 1) = ReadUpTo(input, k)
  BY <1>1 DEF At
<1> QED BY <1>1, <1>2, <1>3, <1>4, ReadUpToStep

LEMMA PlainNewline ==
  ASSUME PlainDialect, ControlOK, Fed, NEW p \in 0..Len(chunk), p < Len(chunk)
  PROVE  NewlineAt(p) = (IF Byte(p) = "lf" THEN 1 ELSE 0)
<1>1. Byte(p) \in Alphabet /\ "cr" \notin Alphabet /\ AcceptLf
  BY NextByte DEF PlainDialect
<1>2. Byte(p) # "cr"
  BY <1>1
<1> QED BY <1>1, <1>2 DEF NewlineAt

LEMMA AtLater ==
  ASSUME ControlOK, NEW p \in 0..Len(chunk), NEW q \in p..Len(chunk)
  PROVE  /\ Odd(At(p)) => Odd(At(q))
         /\ At(p).at = "bad" => At(q).at = "bad" /\ At(q).rows = At(p).rows /\ At(q).row = At(p).row
<1>1. PICK j \in 0..Len(input) : j = Base + p
  BY AtType
<1>2. PICK k \in j..Len(input) : k = Base + q
  BY <1>1, LengthFacts
<1>3. input \in Seq(Bytes)
  BY DEF ControlOK
<1> QED BY <1>1, <1>2, <1>3, ReadOn DEF At

LEMMA HeardMore ==
  ASSUME NEW evs \in Seq(Events), NEW e \in Events
  PROVE  HeardIn(Append(evs, e)) = HearEvent(HeardIn(evs), e) /\ HeardIn(evs) \in Hearings
BY HearOneMore

-----------------------------------------------------------------------------
(* The endings of a handler.                                               *)

LEMMA ReturnMatches ==
  ASSUME PlainDialect, Inv, Inv', Matches, pc # "idle", NEW t \in Stream, Return(t),
         UNCHANGED <<input, finished>>,
         aborted' = "no" => Follow(t, At(Len(chunk)), events', Len(chunk), FALSE)
  PROVE  Matches'
<1> DEFINE u == AtReturn(t)
<1>1. /\ pc' = "idle" /\ s' = u /\ chunk' = <<>> /\ offset' = 0
      /\ input' = input /\ finished' = finished
  BY DEF Return
<1>2. /\ u \in Stream /\ u.error = t.error /\ u.mode = t.mode /\ u.fieldCount = t.fieldCount
      /\ u.field = t.field \/ t.mode \notin FieldModes
  BY AtReturnProperties DEF SameRecord
<1>3. u.doubled = t.doubled
  BY DEF AtReturn, Stream
<1>4. aborted' = "no" => Kept(u)
  BY <1>1 DEF Inv, Kept
<1> HIDE DEF u
<1>5. ~finished /\ ~finished'
  BY <1>1 DEF Inv, ControlOK
<1>6. Len(chunk') = 0 /\ Base' = Len(input) /\ Base + Len(chunk) = Len(input)
      /\ Len(input) \in Nat
  <2>1. Len(<<>>) = 0
    BY EmptySeq
  <2>2. Base + Len(chunk) = Len(input) /\ Len(input) \in Nat
    BY LengthFacts DEF Inv
  <2> QED BY <1>1, <2>1, <2>2 DEF Base
<1>7. Fed'
  <2>1. \A q \in 1..0 : FALSE
    OBVIOUS
  <2> QED BY <1>1, <1>6, <2>1 DEF Matches, Fed
<1>8. PICK m : m = At(Len(chunk))
  OBVIOUS
<1>9. At(offset)' = m
  BY <1>1, <1>6, <1>8 DEF At
<1>10. Raw(s.field)' = Raw(u.field)
  BY <1>1 DEF Raw, Pointed, PlainDialect
<1>11. ASSUME aborted' = "no", InLimit(s)', ~Odd(m)
       PROVE  Reported(events, m)' /\ (IF u.error = "OK" THEN Held(s, m, offset, FALSE)'
                                          ELSE u.mode = "END" /\ m.at = "bad")
  <2>1. InLimit(t)
    BY <1>1, <1>2, <1>11 DEF InLimit
  <2>2. Reported(events', m) /\ (IF t.error = "OK" THEN Held(t, m, Len(chunk), FALSE)
                                        ELSE t.mode = "END" /\ m.at = "bad")
    BY <1>8, <1>11, <2>1 DEF Follow
  <2>3. ASSUME t.error = "OK" PROVE Held(s, m, offset, FALSE)'
    <3>1. Held(t, m, Len(chunk), FALSE)
      BY <2>2, <2>3
    <3>2. t.mode = "UNQUOTED_FIELD" =>
            u.field = t.field /\ (~u.field.buffered => u.field.at + u.field.len = Len(input))
      <4>1. t.mode = "UNQUOTED_FIELD" => t.mode \in FieldModes
        BY DEF FieldModes
      <4>2. t.field.at \in Nat /\ t.field.len \in Nat
        BY StreamFacts
      <4> QED BY <1>2, <1>6, <3>1, <4>1, <4>2 DEF Held, Placed
    <3>3. t.mode \in {"QUOTED_FIELD", "QUOTE_IN_QUOTED"} => u.field = t.field /\ u.field.buffered
      <4>1. t.mode \in {"QUOTED_FIELD", "QUOTE_IN_QUOTED"} => t.mode \in FieldModes
        BY DEF FieldModes
      <4> QED BY <1>2, <1>4, <1>11, <4>1 DEF Kept
    <3>4. t.mode = "UNQUOTED_FIELD" =>
            m.at = "plain" /\ ~u.field.quoted /\ m.cur = Raw(u.field)
      BY <3>1, <3>2 DEF Held
    <3>5. t.mode \in {"QUOTED_FIELD", "QUOTE_IN_QUOTED"} =>
            /\ u.field.quoted /\ Halved(Raw(u.field)) = [out |-> m.cur, half |-> FALSE]
            /\ u.doubled => HasQuote(m.cur)
            /\ u.field.buffered
            /\ m.at = IF t.mode = "QUOTED_FIELD" THEN "quoted" ELSE "closed"
      BY <1>3, <3>1, <3>3 DEF Held, InQuotes
    <3>6. t.mode \in {"QUOTED_FIELD", "QUOTE_IN_QUOTED"} =>
            InQuotes(s, m, offset)' /\ InQuotes(s, m, offset - 1)'
      BY <1>1, <1>10, <3>5 DEF InQuotes, Copyable, Placed
    <3>7. /\ u.mode \notin {"ESCAPE_IN_QUOTED", "END"}
          /\ u.mode = "START_OF_RECORD" => m.at = "record" /\ m.cur = <<>> /\ u.fieldCount = 0
          /\ u.mode = "COMMENT"         => m.at = "comment" /\ m.cur = <<>> /\ u.fieldCount = 0
          /\ u.mode = "START_OF_FIELD"  => m.cur = <<>> /\ m.at = "field"
      BY <1>2, <3>1 DEF Held
    <3>8. u.mode = "UNQUOTED_FIELD"  => /\ m.at = "plain" /\ ~u.field.quoted
                                        /\ m.cur = Raw(s.field)' /\ Placed(s.field, offset)'
      <4>1. Placed(s.field, offset)' <=> (~u.field.buffered => u.field.at + u.field.len = Len(input) + 0)
        BY <1>1, <1>6 DEF Placed
      <4>2. Len(input) + 0 = Len(input)
        BY <1>6
      <4> QED BY <1>2, <1>10, <3>2, <3>4, <4>1, <4>2
    <3> QED BY <1>1, <1>2, <3>5, <3>6, <3>7, <3>8 DEF Held
  <2>4. Reported(events, m)'
    BY <2>2 DEF Reported
  <2> QED BY <1>2, <2>2, <2>3, <2>4
<1>12. aborted' = "no" => Follow(s, m, events, offset, FALSE)'
  <2>1. aborted' = "no" /\ ~InLimit(t) => t.mode = "END"
    BY DEF Follow
  <2>2. InLimit(s)' <=> InLimit(t)
    BY <1>1, <1>2 DEF InLimit
  <2> QED BY <1>1, <1>2, <1>11, <2>1, <2>2 DEF Follow
<1>13. (pc = "fall")' = FALSE
  BY <1>1
<1> QED BY <1>5, <1>7, <1>9, <1>12, <1>13 DEF Matches, Follow

LEMMA ContinueMatches ==
  ASSUME PlainDialect, Inv, Inv', Matches, pc # "idle", NEW t \in Stream,
         NEW p \in 0..Len(chunk), Continue(t, p), UNCHANGED <<input, finished>>,
         aborted' = "no" => Follow(t, At(p), events', p, FALSE)
  PROVE  Matches'
<1>1. p \in Nat /\ Len(chunk) \in Nat /\ p <= Len(chunk)
  BY LengthFacts DEF Inv
<1>2. CASE p < Len(chunk)
  <2>1. /\ pc' = "loop" /\ s' = t /\ offset' = p /\ chunk' = chunk
        /\ input' = input /\ finished' = finished
    BY <1>2 DEF Continue
  <2>2. ~finished'
    BY <2>1 DEF Inv, ControlOK
  <2>3. Fed'
    BY <2>1 DEF Matches, Fed, Base
  <2>4. At(offset)' = At(p)
    BY <2>1 DEF At, Base
  <2>5. \A m : Held(s, m, offset, FALSE)' <=> Held(t, m, p, FALSE)
    BY <2>1 DEF Held, InQuotes, Placed, Copyable, Raw, Pointed, Base, Begins, Byte
  <2>6. Follow(s, At(offset), events, offset, FALSE)' <=> Follow(t, At(p), events', p, FALSE)
    BY <2>1, <2>4, <2>5 DEF Follow, Reported, InLimit
  <2>7. (pc = "fall")' = FALSE
    BY <2>1
  <2> QED BY <2>2, <2>3, <2>6, <2>7 DEF Matches
<1>3. CASE ~(p < Len(chunk))
  <2>1. p = Len(chunk) /\ Return(t)
    BY <1>1, <1>3 DEF Continue
  <2> QED BY <2>1, ReturnMatches
<1> QED BY <1>2, <1>3

LEMMA GoesMatches ==
  ASSUME PlainDialect, Inv, Inv', Matches, pc # "idle", NEW t \in Stream,
         NEW p \in 0..Len(chunk), Goes(t, p), UNCHANGED <<input, finished>>,
         aborted = "no" => Follow(t, At(p), events, p, FALSE)
  PROVE  Matches'
<1>1. Continue(t, p) /\ events' = events /\ aborted' = aborted
  BY DEF Goes, Quietly
<1>2. aborted' = "no" => Follow(t, At(p), events', p, FALSE)
  BY <1>1
<1> QED BY <1>1, <1>2, ContinueMatches

\* After a refusal, or without memory, nothing is claimed.
LEMMA AbortMatches ==
  ASSUME PlainDialect, Inv, Inv', Matches, pc # "idle", NEW t \in Stream,
         Starved(t) \/ \E evs : Refused(t, evs), UNCHANGED <<input, finished>>
  PROVE  Matches'
<1>1. Return(t) /\ aborted' # "no"
  BY DEF Starved, Refused
<1> QED BY <1>1, ReturnMatches

LEMMA BuffersMatches ==
  ASSUME PlainDialect, Inv, Inv', Matches, pc # "idle", NEW t \in Stream, NEW old \in Stream,
         NEW p \in 0..Len(chunk), Buffers(old, t, p), UNCHANGED <<input, finished>>,
         aborted = "no" => Follow(t, At(p), events, p, FALSE)
  PROVE  Matches'
BY GoesMatches, AbortMatches DEF Buffers

\* The parser gives up where the text up to q is malformed.
LEMMA FailsMatches ==
  ASSUME PlainDialect, Inv, Inv', Matches, pc # "idle", NEW t \in Stream,
         NEW code \in ErrorCodes \ {"OK"}, Fails(t, code), UNCHANGED <<input, finished>>,
         NEW q \in 0..Len(chunk),
         aborted = "no" /\ code \notin {"LIMIT", "TOO_MANY_COLS"} /\ ~Odd(At(q)) =>
            Reported(events, At(q)) /\ At(q).at = "bad"
  PROVE  Matches'
<1> DEFINE u == [t EXCEPT !.mode = "END", !.error = code]
<1>1. Return(u) /\ aborted' = aborted /\ events' = events
  BY DEF Fails, Quietly
<1>2. u \in Stream /\ u.error = code /\ u.mode = "END"
  <2>1. "END" \in Modes /\ code \in ErrorCodes
    BY DEF Modes
  <2> QED BY <2>1 DEF Stream
<1> HIDE DEF u
<1>3. Len(chunk) \in q..Len(chunk) /\ ControlOK
  BY LengthFacts DEF Inv
<1>4. aborted' = "no" => Follow(u, At(Len(chunk)), events', Len(chunk), FALSE)
  <2> SUFFICES ASSUME aborted = "no", code \notin {"LIMIT", "TOO_MANY_COLS"}, ~Odd(At(Len(chunk)))
               PROVE  Reported(events, At(Len(chunk))) /\ At(Len(chunk)).at = "bad"
    BY <1>1, <1>2 DEF Follow, InLimit
  <2>1. Reported(events, At(q)) /\ At(q).at = "bad"
    BY <1>3, AtLater
  <2> QED BY <1>3, <2>1, AtLater DEF Reported
<1> QED BY <1>1, <1>2, <1>4, ReturnMatches

\* The stream t ends its field, which the text does at q.
Closing(t, q) ==
    /\ t.error = "OK" /\ Reported(events, At(q)) /\ At(q).cur = Content(t.field)
    /\ At(q).at \in {"field", "plain", "closed"} \/ (At(q).at = "record" /\ Begins(q))

LEMMA HeardField ==
  ASSUME NEW evs \in Seq(Events), NEW e \in Events, NEW m, NEW q,
         Reported(evs, m), e.type = "FIELD", q.rows = m.rows, q.row = Append(m.row, e.data)
  PROVE  Reported(Append(evs, e), q)
<1>1. PICK r : r = HeardIn(evs) /\ r = [rows |-> m.rows, row |-> m.row]
  BY DEF Reported
<1>2. HeardIn(Append(evs, e)) = HearEvent(r, e)
  BY <1>1, HeardMore
<1>3. HearEvent(r, e) = [r EXCEPT !.row = Append(r.row, e.data)]
  BY DEF HearEvent
<1>4. r.row = m.row /\ r.rows = q.rows
  BY <1>1
<1>5. PICK row : row = q.row /\ HearEvent(r, e) = [r EXCEPT !.row = row]
  BY <1>3, <1>4
<1>6. HearEvent(r, e) = [rows |-> q.rows, row |-> row]
  BY <1>1, <1>4, <1>5
<1> QED BY <1>2, <1>5, <1>6 DEF Reported

LEMMA HeardRecordEnd ==
  ASSUME NEW evs \in Seq(Events), NEW e \in Events, NEW m, NEW q,
         Reported(evs, m), e.type = "RECORD_END", q.rows = Append(m.rows, m.row), q.row = <<>>
  PROVE  Reported(Append(evs, e), q)
<1>1. PICK r : r = HeardIn(evs) /\ r = [rows |-> m.rows, row |-> m.row]
  BY DEF Reported
<1>2. HeardIn(Append(evs, e)) = HearEvent(r, e)
  BY <1>1, HeardMore
<1>3. HearEvent(r, e) = [rows |-> Append(r.rows, r.row), row |-> <<>>]
  BY DEF HearEvent
<1>4. HearEvent(r, e) = [rows |-> q.rows, row |-> q.row]
  BY <1>1, <1>3
<1> QED BY <1>2, <1>4 DEF Reported

LEMMA EndsFieldMatches ==
  ASSUME PlainDialect, Inv, Inv', Matches, pc # "idle", NEW t \in Stream,
         NEW p \in 0..Len(chunk), p < Len(chunk), Points(t.field), EndsField(t, p),
         UNCHANGED <<input, finished>>, Byte(p) = "delim",
         aborted = "no" => InLimit(t) /\ (~Odd(At(p + 1)) => Closing(t, p))
  PROVE  Matches'
<1> DEFINE e == FieldEvent(t)
<1>1. ControlOK /\ events \in Seq(Events) /\ p + 1 \in 0..Len(chunk) /\ p \in Nat
  BY LengthFacts DEF Inv
<1>2. e \in Events /\ e.type = "FIELD" /\ e.data = Content(t.field)
  BY <1>1, RawProperties, EventProperties DEF FieldEvent
<1> HIDE DEF e
<1>3. CASE ~t.field.buffered /\ t.field.len > 0 /\ Starved(t)
  BY <1>3, AbortMatches
<1>4. CASE Refused(Emitted(t), <<e>>)
  <2>1. Emitted(t) \in Stream
    BY <1>1, EmittedProperties
  <2> QED BY <1>4, <2>1, AbortMatches
<1>5. CASE /\ Continue(Advance([CountField(ClearField(t)) EXCEPT !.mode = "START_OF_FIELD"], 1), p + 1)
           /\ events' = Append(events, e)
           /\ UNCHANGED aborted
  <2>1. PICK c \in Stream : c = ClearField(t) /\ c.error = t.error
    BY ClearFieldProperties DEF SameRecord
  <2>2. PICK d \in Stream : d = CountField(c) /\ d.error = c.error
    BY CountFieldProperties
  <2>3. PICK f \in Stream : f = [d EXCEPT !.mode = "START_OF_FIELD"] /\ f.error = d.error
                            /\ f.mode = "START_OF_FIELD"
    <3>1. "START_OF_FIELD" \in Modes
      BY DEF Modes
    <3> QED BY <3>1, ModeEdit DEF SameRecord
  <2>4. PICK u \in Stream : u = Advance(f, 1) /\ u.error = f.error /\ u.mode = f.mode
    BY AdvanceProperties DEF SameButCounts, SameRecord
  <2>5. Continue(u, p + 1) /\ events' = Append(events, e) /\ aborted' = aborted
    BY <1>5, <2>1, <2>2, <2>3, <2>4
  <2>6. PICK m \in Readings : m = At(p) /\ At(p + 1) = ShapedByte(m, "delim")
    BY <1>1, AtType, NextByte DEF Matches
  <2>7. ASSUME aborted' = "no", ~Odd(At(p + 1))
        PROVE  /\ Reported(events', At(p + 1)) /\ u.error = "OK"
               /\ Held(u, At(p + 1), p + 1, FALSE)
    <3>1. Closing(t, p)
      BY <2>5, <2>7
    <3>2. \/ m.at \in {"field", "plain", "closed"}
          \/ m.at = "record" /\ CommentPrefix # <<"delim">>
      BY <2>6, <3>1 DEF Closing, Begins
    <3>3. PICK q : /\ q = At(p + 1)
                   /\ q.at = "field" /\ q.cur = <<>> /\ q.rows = m.rows /\ q.row = Append(m.row, m.cur)
      BY <2>6, <3>2, ReadsDelimiter
    <3>4. u.error = "OK" /\ Reported(events, m) /\ m.cur = Content(t.field)
      BY <2>1, <2>2, <2>3, <2>4, <2>6, <3>1 DEF Closing
    <3>5. Reported(events', q)
      BY <1>1, <1>2, <2>5, <3>3, <3>4, HeardField
    <3>6. Held(u, q, p + 1, FALSE)
      BY <2>3, <2>4, <3>3 DEF Held
    <3> QED BY <3>3, <3>4, <3>5, <3>6
  <2>8. aborted' = "no" => Follow(u, At(p + 1), events', p + 1, FALSE)
    <3>1. aborted' = "no" => InLimit(u)
      BY <2>1, <2>2, <2>3, <2>4, <2>5 DEF InLimit
    <3> QED BY <2>7, <3>1 DEF Follow
  <2> QED BY <1>1, <2>5, <2>8, ContinueMatches
<1> QED BY <1>3, <1>4, <1>5 DEF EndsField, e

LEMMA EndRecordStarts ==
  ASSUME NEW t \in Stream
  PROVE  EndRecord(t).fieldCount = 0
<1>1. PICK c \in Stream : c = ClearField(t)
  BY ClearFieldProperties
<1>2. EndRecord(t) = [c EXCEPT !.fieldCount = 0, !.mode = "START_OF_RECORD",
                               !.inRecord = FALSE, !.rowCount = c.rowCount + 1]
  BY <1>1 DEF EndRecord
<1> QED BY <1>2 DEF Stream

\* After a newline at q, which ends the field and the record of t.
LEMMA RecordMatches ==
  ASSUME PlainDialect, Inv, Inv', Matches, pc # "idle", NEW t \in Stream,
         NEW q \in 0..Len(chunk), q < Len(chunk), Byte(q) = "lf", Points(t.field),
         Continue(EndRecord(t), q + 1), UNCHANGED <<input, finished, aborted>>,
         NEW e \in Events, e.type = "RECORD_END", events' = events \o <<FieldEvent(t), e>>,
         aborted = "no" => InLimit(t) /\ (~Odd(At(q + 1)) => Closing(t, q))
  PROVE  Matches'
<1> DEFINE f == FieldEvent(t)
<1>1. ControlOK /\ events \in Seq(Events) /\ q + 1 \in 0..Len(chunk) /\ q \in Nat
  BY LengthFacts DEF Inv
<1>2. f \in Events /\ f.type = "FIELD" /\ f.data = Content(t.field)
  BY <1>1, RawProperties, EventProperties DEF FieldEvent
<1>3. events' = events \o <<f, e>>
  OBVIOUS
<1> HIDE DEF f
<1>4. PICK evs \in Seq(Events) : evs = Append(events, f)
  BY <1>1, <1>2, AppendProperties
<1>5. events' = Append(evs, e)
  BY <1>1, <1>2, <1>3, <1>4, AppendTwo
<1>6. PICK u \in Stream : /\ u = EndRecord(t) /\ u.error = t.error
                          /\ u.mode = "START_OF_RECORD" /\ u.fieldCount = 0
  BY EndRecordProperties, EndRecordStarts
<1>7. PICK m \in Readings : m = At(q) /\ At(q + 1) = ShapedByte(m, "lf")
  BY <1>1, AtType, NextByte DEF Matches
<1>8. ASSUME aborted = "no", ~Odd(At(q + 1))
      PROVE  /\ Reported(events', At(q + 1)) /\ u.error = "OK"
             /\ Held(u, At(q + 1), q + 1, FALSE)
  <2>1. Closing(t, q)
    BY <1>8
  <2>2. m.at \in {"field", "plain", "closed"}
    BY <1>7, <2>1 DEF Closing, Begins
  <2>3. PICK n : /\ n = At(q + 1) /\ n.at = "record" /\ n.cur = <<>> /\ n.row = <<>>
                 /\ n.rows = Append(m.rows, Append(m.row, m.cur))
    BY <1>7, <2>2, ReadsNewline
  <2>4. u.error = "OK" /\ Reported(events, m) /\ m.cur = Content(t.field)
    BY <1>6, <1>7, <2>1 DEF Closing
  <2>5. PICK h : h.rows = m.rows /\ h.row = Append(m.row, f.data)
    <3> DEFINE x == [rows |-> m.rows, row |-> Append(m.row, f.data)]
    <3>1. x.rows = m.rows /\ x.row = Append(m.row, f.data)
      OBVIOUS
    <3> HIDE DEF x
    <3> QED BY <3>1
  <2>6. Reported(evs, h)
    BY <1>1, <1>2, <1>4, <2>4, <2>5, HeardField
  <2>7. Reported(events', n)
    BY <1>2, <1>5, <2>3, <2>4, <2>5, <2>6, HeardRecordEnd
  <2>8. Held(u, n, q + 1, FALSE)
    BY <1>6, <2>3 DEF Held
  <2> QED BY <2>3, <2>4, <2>7, <2>8
<1>9. aborted' = "no" => Follow(u, At(q + 1), events', q + 1, FALSE)
  <2>1. aborted' = "no" => InLimit(u)
    BY <1>6 DEF InLimit
  <2> QED BY <1>8, <2>1 DEF Follow
<1>10. Continue(u, q + 1)
  BY <1>6
<1> QED BY <1>1, <1>9, <1>10, ContinueMatches

LEMMA EndsRecordMatches ==
  ASSUME PlainDialect, Inv, Inv', Matches, pc # "idle", NEW t \in Stream, Points(t.field),
         NEW q \in 0..Len(chunk), q < Len(chunk), Byte(q) = "lf",
         EndsRecord(t, q + 1), UNCHANGED <<input, finished>>,
         aborted = "no" => InLimit(t) /\ (~Odd(At(q + 1)) => Closing(t, q))
  PROVE  Matches'
<1> DEFINE done == CountField(Emitted(t))
           e    == Event("RECORD_END", done, <<>>)
           evs  == <<FieldEvent(t), e>>
<1>1. ControlOK
  BY DEF Inv
<1>2. Emitted(t) \in Stream
  BY <1>1, EmittedProperties
<1>3. done \in Stream
  BY <1>2, CountFieldProperties
<1>4. e \in Events /\ e.type = "RECORD_END"
  <2>1. <<>> \in Seq(Codes)
    BY EmptySeq
  <2> QED BY <1>3, <2>1, EventProperties
<1>5. \/ Continue(EndRecord(t), q + 1) /\ events' = events \o <<FieldEvent(t), e>> /\ UNCHANGED aborted
      \/ Refused(Emitted(t), <<FieldEvent(t)>>)
      \/ Refused(done, evs)
      \/ Starved(t)
  BY DEF EndsRecord
<1> HIDE DEF done, e, evs
<1>6. CASE Continue(EndRecord(t), q + 1) /\ events' = events \o <<FieldEvent(t), e>> /\ UNCHANGED aborted
  BY <1>4, <1>6, RecordMatches
<1>7. CASE Refused(Emitted(t), <<FieldEvent(t)>>) \/ Refused(done, evs) \/ Starved(t)
  BY <1>2, <1>3, <1>7, AbortMatches
<1> QED BY <1>5, <1>6, <1>7

-----------------------------------------------------------------------------
(* The bytes of a field.                                                   *)

LEMMA SplitAt ==
  ASSUME NEW S, NEW seq \in Seq(S), NEW a \in Nat, NEW b \in Nat, NEW c \in Nat,
         a <= b, b <= c, c <= Len(seq)
  PROVE  SubSeq(seq, a + 1, c) = SubSeq(seq, a + 1, b) \o SubSeq(seq, b + 1, c)
<1>1. Len(seq) \in Nat
  BY LenProperties
<1>2. a + 1 \in 1..(Len(seq) + 1) /\ b \in (a + 1 - 1)..Len(seq) /\ c \in b..Len(seq)
  BY <1>1
<1> QED BY <1>2, ConcatAdjacentSubSeq

\* Bytes of the chunk are bytes of the input.
LEMMA ChunkPart ==
  ASSUME ControlOK, Fed, NEW a \in 0..Len(chunk), NEW b \in Int, b <= Len(chunk)
  PROVE  SubSeq(chunk, a + 1, b) = SubSeq(input, Base + a + 1, Base + b)
<1>1. /\ a \in Nat /\ Len(chunk) \in Nat /\ Len(input) \in Nat /\ Base \in Nat
      /\ chunk \in Seq(Bytes) /\ input \in Seq(Bytes) /\ Base + Len(chunk) = Len(input)
  BY LengthFacts DEF ControlOK
<1>2. CASE b < a + 1
  <2>1. SubSeq(chunk, a + 1, b) = <<>>
    BY <1>1, <1>2, SubSeqEmpty
  <2>2. Base + b < Base + a + 1 /\ Base + b \in Int /\ Base + a + 1 \in Int
    BY <1>1, <1>2
  <2>3. SubSeq(input, Base + a + 1, Base + b) = <<>>
    BY <2>2, SubSeqEmpty
  <2> QED BY <2>1, <2>3
<1>3. CASE a + 1 <= b
  <2>1. PICK m \in Int : m = Base + a + 1
    BY <1>1
  <2>2. PICK n \in Int : n = Base + b
    BY <1>1
  <2>3. b - (a + 1) + 1 = n - m + 1 /\ m <= n /\ b - (a + 1) + 1 \in Nat
    BY <1>1, <1>3, <2>1, <2>2
  <2>4. \A i \in (a + 1)..b : chunk[i] \in Bytes
    BY <1>1, ElementOfSeq
  <2>5. /\ SubSeq(chunk, a + 1, b) \in Seq(Bytes)
        /\ Len(SubSeq(chunk, a + 1, b)) = b - (a + 1) + 1
        /\ \A i \in 1..(b - (a + 1) + 1) : SubSeq(chunk, a + 1, b)[i] = chunk[a + 1 + i - 1]
    <3>1. a + 1 \in Int
      BY <1>1
    <3> QED BY <1>3, <2>4, <3>1, SubSeqProperties
  <2>6. \A i \in m..n : input[i] \in Bytes
    BY <1>1, <2>1, <2>2, ElementOfSeq
  <2>7. /\ SubSeq(input, m, n) \in Seq(Bytes)
        /\ Len(SubSeq(input, m, n)) = n - m + 1
        /\ \A i \in 1..(n - m + 1) : SubSeq(input, m, n)[i] = input[m + i - 1]
    BY <2>3, <2>6, SubSeqProperties
  <2>8. ASSUME NEW i \in 1..(n - m + 1)
        PROVE  chunk[a + 1 + i - 1] = input[m + i - 1]
    <3>1. PICK q : q = a + 1 + i - 1 /\ q \in 1..Len(chunk) /\ Base + q = m + i - 1
      BY <1>1, <2>1, <2>2
    <3>2. chunk[q] = input[Base + q]
      BY <3>1 DEF Fed
    <3> QED BY <3>1, <3>2
  <2>9. PICK x \in Seq(Bytes) : x = SubSeq(chunk, a + 1, b)
    BY <2>5
  <2>10. PICK y \in Seq(Bytes) : y = SubSeq(input, m, n)
    BY <2>7
  <2>11. Len(x) = Len(y) /\ \A i \in 1..Len(x) : x[i] = y[i]
    BY <2>3, <2>5, <2>7, <2>8, <2>9, <2>10
  <2> QED BY <2>1, <2>2, <2>9, <2>10, <2>11, SeqEqual
<1> QED BY <1>1, <1>2, <1>3

\* A part of the input that grows at its end.
LEMMA GrownPart ==
  ASSUME NEW seq \in Seq(Bytes), NEW a \in Nat, NEW l \in Nat, NEW n \in Nat, a + l + n <= Len(seq)
  PROVE  SubSeq(seq, a + 1, a + (l + n)) =
           SubSeq(seq, a + 1, a + l) \o SubSeq(seq, a + l + 1, a + l + n)
<1>1. PICK b \in Nat : b = a + l
  OBVIOUS
<1>2. PICK c \in Nat : c = b + n
  OBVIOUS
<1>3. c = a + (l + n) /\ c = a + l + n
  BY <1>1, <1>2
<1>4. a <= b /\ b <= c /\ c <= Len(seq)
  BY <1>1, <1>2, <1>3
<1>5. SubSeq(seq, a + 1, c) = SubSeq(seq, a + 1, b) \o SubSeq(seq, b + 1, c)
  BY <1>4, SplitAt
<1> QED BY <1>1, <1>3, <1>5

\* What is read through a pointer, as all fed bytes stay in place.
LEMMA RawPointed ==
  ASSUME PlainDialect, NEW f
  PROVE  Raw(f) = IF f.buffered THEN f.buf ELSE SubSeq(input, f.at + 1, f.at + f.len)
BY DEF PlainDialect, Raw, Pointed

LEMMA RawStored ==
  ASSUME NEW f \in Field, NEW bytes
  PROVE  Raw(Store(f, bytes)) = bytes
BY DEF Raw, Store, Field

\* The copy is the field.
LEMMA CopyIsField ==
  ASSUME PlainDialect, ControlOK, Fed, NEW f \in Field, NEW end \in Int, end <= Len(chunk),
         Copyable(f), Placed(f, end)
  PROVE  /\ Raw(EnsureFieldBuffered(f, end)) = Raw(f)
         /\ EnsureFieldBuffered(f, end).quoted = f.quoted
<1>1. Len(chunk) \in Nat /\ Base \in Nat /\ f.at \in Nat /\ f.len \in Nat
      /\ f.start \in Nat \union {NoOffset}
  BY LengthFacts DEF Field
<1>2. CASE f.buffered
  BY <1>2 DEF EnsureFieldBuffered
<1>3. CASE ~f.buffered
  <2>1. /\ f.start \in Nat /\ f.start # NoOffset /\ f.at = Base + f.start
        /\ f.at + f.len = Base + end /\ f.start + f.len = end
    BY <1>1, <1>3 DEF Copyable, Placed, NoOffset
  <2>2. CASE f.start < Len(chunk)
    <3>1. EnsureFieldBuffered(f, end) = Store(f, SubSeq(chunk, f.start + 1, end))
      BY <1>3, <2>1, <2>2 DEF EnsureFieldBuffered
    <3>2. SubSeq(chunk, f.start + 1, end) = SubSeq(input, Base + f.start + 1, Base + end)
      <4>1. f.start \in 0..Len(chunk)
        BY <1>1, <2>1, <2>2
      <4> QED BY <4>1, ChunkPart
    <3>3. Raw(f) = SubSeq(input, f.at + 1, f.at + f.len)
      BY <1>3, RawPointed
    <3>4. Raw(f) = SubSeq(chunk, f.start + 1, end)
      BY <2>1, <3>2, <3>3
    <3> QED BY <3>1, <3>4, RawStored DEF Store, Field
  <2>3. CASE ~(f.start < Len(chunk))
    <3>1. f.len = 0
      BY <1>1, <2>1, <2>3
    <3>2. Raw(f) = SubSeq(input, f.at + 1, f.at)
      BY <1>1, <1>3, <3>1, RawPointed
    <3>3. Raw(f) = <<>>
      BY <1>1, <3>2, SubSeqEmpty
    <3>4. EnsureFieldBuffered(f, end) = Store(f, <<>>)
      BY <1>3, <2>1, <2>3 DEF EnsureFieldBuffered
    <3> QED BY <3>3, <3>4, RawStored DEF Store, Field
  <2> QED BY <2>2, <2>3
<1> QED BY <1>2, <1>3

LEMMA EnsuredIsField ==
  ASSUME NEW f \in Field
  PROVE  /\ Raw(EnsureBuffered(f)) = Raw(f) /\ EnsureBuffered(f).quoted = f.quoted
         /\ EnsureBuffered(f).buffered
<1>1. Raw(EnsureBuffered(f)) = Raw(f)
  BY RawStored DEF EnsureBuffered
<1> QED BY <1>1 DEF EnsureBuffered, Store, Field

\* A field that grows by the next n bytes.
LEMMA ExtendedIsField ==
  ASSUME PlainDialect, ControlOK, Fed, NEW f, Points(f), Placed(f, offset), NEW n \in Nat,
         offset + n <= Len(chunk)
  PROVE  /\ Raw(Extended(f, n)) = Raw(f) \o SubSeq(input, Base + offset + 1, Base + (offset + n))
         /\ Extended(f, n).quoted = f.quoted /\ Placed(Extended(f, n), offset + n)
<1>1. /\ f \in Field /\ f.at \in Nat /\ f.len \in Nat /\ f.buffered \in BOOLEAN
      /\ offset \in Nat /\ Len(chunk) \in Nat /\ chunk \in Seq(Bytes) /\ Base \in Nat
      /\ input \in Seq(Bytes) /\ Len(input) \in Nat /\ Base + Len(chunk) = Len(input)
  BY LengthFacts DEF Points, Field, ControlOK
<1>2. CASE f.buffered
  <2>1. SubSeq(chunk, offset + 1, offset + n) = SubSeq(input, Base + offset + 1, Base + (offset + n))
    <3>1. offset \in 0..Len(chunk) /\ offset + n \in Int
      BY <1>1
    <3> QED BY <3>1, ChunkPart
  <2>2. Extended(f, n) = Store(f, Raw(f) \o SubSeq(chunk, offset + 1, offset + n))
    BY <1>2 DEF Extended, Append2
  <2>3. Store(f, Raw(f) \o SubSeq(chunk, offset + 1, offset + n)).buffered
        /\ Store(f, Raw(f) \o SubSeq(chunk, offset + 1, offset + n)).quoted = f.quoted
    BY <1>1 DEF Store, Field
  <2> QED BY <1>1, <2>1, <2>2, <2>3, RawStored DEF Placed
<1>3. CASE ~f.buffered
  <2>1. PICK k \in Nat : k = f.len + n
    BY <1>1
  <2>2. PICK g : g = Extended(f, n)
    OBVIOUS
  <2>3. g = [f EXCEPT !.len = k]
    BY <1>3, <2>1, <2>2 DEF Extended
  <2>4. g.len = k /\ g.at = f.at /\ g.buffered = FALSE /\ g.quoted = f.quoted
    BY <1>1, <1>3, <2>3 DEF Field
  <2>5. f.at + f.len = Base + offset
    BY <1>3 DEF Placed
  <2>6. Raw(g) = SubSeq(input, f.at + 1, f.at + k) /\ Raw(f) = SubSeq(input, f.at + 1, f.at + f.len)
    BY <1>3, <2>4, RawPointed
  <2>7. f.at + f.len + n = Base + (offset + n) /\ f.at + f.len + n <= Len(input)
        /\ Base + offset + 1 = f.at + f.len + 1
    <3>1. PICK b \in Nat, o \in Nat, e \in Nat : b = Base /\ o = offset /\ e = f.at + f.len /\ e = b + o
      BY <1>1, <2>5
    <3>2. e + n = b + (o + n)
      BY <3>1
    <3>3. b + (o + n) <= Len(input)
      BY <1>1, <3>1
    <3>4. f.at + f.len + n = b + (o + n)
      BY <3>1, <3>2
    <3>5. Base + (offset + n) = b + (o + n) /\ Base + offset + 1 = e + 1
      BY <3>1
    <3>6. Base + offset + 1 = f.at + f.len + 1
      BY <3>1, <3>5
    <3>7. f.at + f.len + n <= Len(input)
      BY <3>3, <3>4
    <3>8. f.at + f.len + n = Base + (offset + n)
      BY <3>4, <3>5
    <3> QED BY <3>6, <3>7, <3>8
  <2>8. SubSeq(input, f.at + 1, f.at + (f.len + n)) =
          SubSeq(input, f.at + 1, f.at + f.len) \o SubSeq(input, f.at + f.len + 1, f.at + f.len + n)
    <3>1. PICK a \in Nat, l \in Nat : a = f.at /\ l = f.len
      BY <1>1
    <3>2. PICK seq \in Seq(Bytes) : seq = input
      BY <1>1
    <3>3. a + l + n <= Len(seq)
      BY <2>7, <3>1, <3>2
    <3>4. SubSeq(seq, a + 1, a + (l + n)) =
            SubSeq(seq, a + 1, a + l) \o SubSeq(seq, a + l + 1, a + l + n)
      BY <3>3, GrownPart
    <3> QED BY <3>1, <3>2, <3>4
  <2>9. g.at + g.len = Base + (offset + n)
    <3>1. PICK a \in Nat, l \in Nat : a = f.at /\ l = f.len
      BY <1>1
    <3>2. a + (l + n) = a + l + n
      BY <3>1
    <3>3. g.at + g.len = f.at + f.len + n
      BY <2>1, <2>4, <3>1, <3>2
    <3> QED BY <2>7, <3>3
  <2> QED BY <2>1, <2>2, <2>4, <2>6, <2>7, <2>8, <2>9 DEF Placed
<1> QED BY <1>1, <1>2, <1>3

\* A quoted field that grows by a byte, or by a doubled quote.
LEMMA HalvedNothing == Halved(<<>>) = [out |-> <<>>, half |-> FALSE]
<1>1. <<>> \in Seq(Codes) /\ "quote" \in Codes
  BY EmptySeq, ByteFacts
<1> QED BY <1>1, UnquoteOneMore DEF NoHalf

LEMMA HalvedByte ==
  ASSUME NEW bytes \in Seq(Codes), NEW b \in Codes, b # "quote", NEW cur,
         Halved(bytes) = [out |-> cur, half |-> FALSE]
  PROVE  Halved(Append(bytes, b)) = [out |-> Append(cur, b), half |-> FALSE]
<1>1. PICK r : r = Halved(bytes) /\ r.out = cur /\ r.half = FALSE
  OBVIOUS
<1>2. Halved(Append(bytes, b)) = CollapseByte(r, b)
  BY <1>1, UnquoteOneMore
<1> QED BY <1>1, <1>2 DEF CollapseByte

LEMMA HalvedQuotes ==
  ASSUME NEW bytes \in Seq(Codes), NEW cur, Halved(bytes) = [out |-> cur, half |-> FALSE]
  PROVE  Halved(bytes \o BothQuotes) = [out |-> Append(cur, "quote"), half |-> FALSE]
<1>1. PICK q \in Codes : q = "quote"
  BY ByteFacts
<1>2. PICK one \in Seq(Codes) : one = Append(bytes, q)
  BY AppendProperties
<1>3. bytes \o BothQuotes = Append(one, q)
  BY <1>1, <1>2, AppendTwo DEF BothQuotes
<1>4. PICK r : r = Halved(bytes) /\ r.out = cur /\ r.half = FALSE
  OBVIOUS
<1>5. PICK h : h = Halved(one) /\ h = CollapseByte(r, q)
  BY <1>2, <1>4, UnquoteOneMore
<1>6. h.out = Append(cur, q) /\ h.half = TRUE
  BY <1>1, <1>4, <1>5 DEF CollapseByte
<1>7. Halved(Append(one, q)) = CollapseByte(h, q)
  BY <1>5, UnquoteOneMore
<1>8. CollapseByte(h, q) = [out |-> h.out, half |-> FALSE]
  BY <1>1, <1>6 DEF CollapseByte
<1> QED BY <1>1, <1>3, <1>6, <1>7, <1>8

\* The content of a field in quotes, and of one without.
LEMMA ContentInQuotes ==
  ASSUME PlainDialect, NEW f, NEW cur, f.quoted, Halved(Raw(f)) = [out |-> cur, half |-> FALSE]
  PROVE  Content(f) = cur
<1>1. Collapse(Raw(f)) = Halved(Raw(f)).out
  BY DEF Collapse, Halved, NoHalf
<1>2. Content(f) = Collapse(Raw(f))
  BY DEF Content, PlainDialect
<1> QED BY <1>1, <1>2

LEMMA ContentPlain ==
  ASSUME NEW f, ~f.quoted
  PROVE  Content(f) = Raw(f)
BY DEF Content

LEMMA HasQuoteMore ==
  ASSUME NEW bytes \in Seq(Codes), NEW b \in Codes
  PROVE  /\ HasQuote(bytes) => HasQuote(Append(bytes, b))
         /\ b = "quote" => HasQuote(Append(bytes, b))
<1>1. PICK n \in Nat : n = Len(bytes) /\ DOMAIN bytes = 1..n
  BY LenProperties
<1>2. PICK more : /\ more = Append(bytes, b) /\ DOMAIN more = 1..(n + 1)
                  /\ more[n + 1] = b /\ \A i \in 1..n : more[i] = bytes[i]
  <2>1. /\ Append(bytes, b) \in Seq(Codes) /\ Len(Append(bytes, b)) = n + 1
        /\ Append(bytes, b)[n + 1] = b /\ \A i \in 1..n : Append(bytes, b)[i] = bytes[i]
    BY <1>1, AppendProperties
  <2>2. DOMAIN Append(bytes, b) = 1..(n + 1)
    BY <2>1, LenProperties
  <2> QED BY <2>1, <2>2
<1>3. \A i \in 1..n : i \in 1..(n + 1)
  OBVIOUS
<1>4. n + 1 \in 1..(n + 1)
  OBVIOUS
<1> QED BY <1>1, <1>2, <1>3, <1>4 DEF HasQuote

-----------------------------------------------------------------------------
(* What a handler finds, and what it must leave.                           *)

\* Where the text is regular, the stream has found no error and is where the
\* text is.
Regular == aborted = "no" /\ ~Odd(At(offset))

LEMMA HandlerReads ==
  ASSUME PlainDialect, Inv, Matches, NEW mode \in Modes \ {"END"}, Handling(mode)
  PROVE  /\ pc # "idle" /\ ControlOK /\ Fed /\ Now \in Stream /\ Now.mode = mode
         /\ Points(Now.field) /\ Now.field \in Field
         /\ offset \in 0..Len(chunk) /\ offset < Len(chunk) /\ offset \in Nat
         /\ Len(chunk) \in Nat /\ offset + 1 \in 0..Len(chunk) /\ Base \in Nat
         /\ At(offset) \in Readings /\ Here \in Bytes /\ Here = Byte(offset) /\ Here # "cr"
         /\ Here = input[Base + offset + 1] /\ Base + offset + 1 \in 1..Len(input)
         /\ At(offset + 1) = ShapedByte(At(offset), Here)
         /\ Newline = IF Here = "lf" THEN 1 ELSE 0
         /\ Regular => /\ Now.error = "OK" /\ Reported(events, At(offset))
                       /\ Held(Now, At(offset), offset, pc = "fall")
         /\ aborted = "no" => InLimit(Now)
         /\ ~Odd(At(offset + 1)) => ~Odd(At(offset))
<1>1. /\ pc # "idle" /\ Now \in Stream /\ Now.mode = mode /\ Points(Now.field)
      /\ offset \in 0..Len(chunk) /\ offset < Len(chunk) /\ offset \in Nat
      /\ offset + 1 \in 0..Len(chunk) /\ Here \in Bytes /\ ControlOK /\ s \in Stream
  BY HandlerFinds DEF Inv, Typed
<1>2. Len(chunk) \in Nat /\ Base \in Nat /\ Base + offset + 1 \in 1..Len(input)
  BY <1>1, LengthFacts
<1>3. Fed /\ ~finished
  BY <1>1 DEF Matches, ControlOK
<1>4. /\ At(offset) \in Readings /\ Here = Byte(offset) /\ Here \in Alphabet
      /\ Here = input[Base + offset + 1] /\ At(offset + 1) = ShapedByte(At(offset), Here)
  BY <1>1, <1>3, AtType, NextByte DEF Here
<1>5. Here # "cr" /\ Newline = IF Here = "lf" THEN 1 ELSE 0
  BY <1>1, <1>3, <1>4, PlainNewline DEF Newline, PlainDialect
<1>6. /\ Now.mode = s.mode /\ Now.field = s.field /\ Now.error = s.error
      /\ Now.fieldCount = s.fieldCount /\ Now.doubled = s.doubled
  <2>1. SameButCounts(s, Now)
    BY <1>1, NowProperties
  <2>2. Now.doubled = s.doubled
    BY <1>1 DEF Now, Counted, Stream
  <2> QED BY <2>1, <2>2 DEF SameButCounts, SameRecord
<1>7. aborted = "no" => Follow(s, At(offset), events, offset, pc = "fall") /\ InLimit(Now)
  <2>1. aborted = "no" => Follow(s, At(offset), events, offset, pc = "fall")
    BY <1>3 DEF Matches
  <2> QED BY <1>1, <1>6, <2>1 DEF Follow, InLimit
<1>10. ASSUME Regular
      PROVE  /\ Now.error = "OK" /\ Reported(events, At(offset))
             /\ Held(Now, At(offset), offset, pc = "fall")
  <2>1. Follow(s, At(offset), events, offset, pc = "fall") /\ InLimit(s)
    BY <1>6, <1>7, <1>10 DEF Regular, InLimit
  <2>2. Reported(events, At(offset)) /\ s.error = "OK" /\ Held(s, At(offset), offset, pc = "fall")
    BY <1>1, <1>6, <1>10, <2>1 DEF Follow, Regular
  <2> QED BY <1>6, <2>2 DEF Held, InQuotes
<1>8. ~Odd(At(offset + 1)) => ~Odd(At(offset))
  BY <1>1, <1>4, OddStays
<1>9. Now.field \in Field
  BY <1>1, StreamFacts
<1> QED BY <1>1, <1>2, <1>3, <1>4, <1>5, <1>7, <1>8, <1>9, <1>10

\* What a handler that goes on at p must leave.
Leaves(t, p) ==
    /\ t \in Stream /\ t.error = Now.error
    /\ Regular /\ ~Odd(At(p)) => Reported(events, At(p)) /\ Held(t, At(p), p, FALSE)

LEMMA LeavesFollow ==
  ASSUME PlainDialect, Inv, Matches, NEW mode \in Modes \ {"END"}, Handling(mode),
         NEW p \in offset..Len(chunk), NEW t, Leaves(t, p), aborted = "no"
  PROVE  Follow(t, At(p), events, p, FALSE)
<1>1. ControlOK /\ offset \in 0..Len(chunk)
  BY HandlerReads
<1>2. ~Odd(At(p)) => ~Odd(At(offset))
  BY <1>1, AtLater
<1>3. InLimit(t)
  BY HandlerReads DEF InLimit, Leaves
<1>4. Regular => Now.error = "OK"
  BY HandlerReads
<1> QED BY <1>2, <1>3, <1>4 DEF Follow, Leaves, Regular

LEMMA HandlerGoes ==
  ASSUME PlainDialect, Inv, Inv', Matches, NEW mode \in Modes \ {"END"}, Handling(mode),
         UNCHANGED <<input, finished>>,
         NEW p \in offset..Len(chunk), NEW t, Leaves(t, p), Goes(t, p)
  PROVE  Matches'
<1>1. pc # "idle" /\ p \in 0..Len(chunk)
  BY HandlerReads
<1>2. aborted = "no" => Follow(t, At(p), events, p, FALSE)
  BY LeavesFollow
<1> QED BY <1>1, <1>2, GoesMatches DEF Leaves

LEMMA HandlerBuffers ==
  ASSUME PlainDialect, Inv, Inv', Matches, NEW mode \in Modes \ {"END"}, Handling(mode),
         UNCHANGED <<input, finished>>, NEW old \in Stream,
         NEW p \in offset..Len(chunk), NEW t, Leaves(t, p), Buffers(old, t, p)
  PROVE  Matches'
<1>1. pc # "idle"
  BY HandlerReads
<1> QED BY <1>1, HandlerGoes, AbortMatches DEF Buffers

\* A handler that rejects a byte.
LEMMA HandlerRejects ==
  ASSUME PlainDialect, Inv, Inv', Matches, NEW mode \in Modes \ {"END"}, Handling(mode),
         UNCHANGED <<input, finished>>, NEW t \in Stream,
         NEW code \in ErrorCodes \ {"OK"}, Fails(t, code),
         NEW p \in (offset + 1)..Len(chunk),
         Regular /\ ~Odd(At(p)) => Reported(events, At(p)) /\ At(p).at = "bad"
  PROVE  Matches'
<1>1. /\ pc # "idle" /\ ControlOK /\ p \in 0..Len(chunk) /\ offset \in 0..Len(chunk)
      /\ p \in offset..Len(chunk)
  BY HandlerReads
<1>2. ~Odd(At(p)) => ~Odd(At(offset))
  BY <1>1, AtLater
<1>3. aborted = "no" /\ ~Odd(At(p)) => Reported(events, At(p)) /\ At(p).at = "bad"
  BY <1>2 DEF Regular
<1> QED BY <1>1, <1>3, FailsMatches

\* A handler that finds a limit exceeded.
LEMMA LimitMatches ==
  ASSUME PlainDialect, Inv, Inv', Matches, pc # "idle", NEW t \in Stream,
         NEW code \in {"LIMIT", "TOO_MANY_COLS"}, Fails(t, code), UNCHANGED <<input, finished>>
  PROVE  Matches'
<1>1. code \in ErrorCodes \ {"OK"} /\ code \in {"LIMIT", "TOO_MANY_COLS"}
  BY DEF ErrorCodes
<1>2. Len(chunk) \in 0..Len(chunk)
  BY LengthFacts DEF Inv
<1> QED BY <1>1, <1>2, FailsMatches

-----------------------------------------------------------------------------
(* Between records.                                                        *)

LEMMA LimitExceededMatches ==
  ASSUME PlainDialect, Inv, Inv', Matches, LimitExceeded, UNCHANGED <<input, finished>>
  PROVE  Matches'
<1> DEFINE t == IF TotalReached THEN s ELSE Counted
<1>1. s \in Stream /\ pc # "idle"
  BY DEF Inv, Typed, LimitExceeded
<1>2. t \in Stream
  BY <1>1, NowProperties
<1>3. Fails(t, "LIMIT")
  BY DEF LimitExceeded
<1> HIDE DEF t
<1> QED BY <1>1, <1>2, <1>3, LimitMatches

\* Bytes that change no more than the place.
LEMMA ReadsNothing ==
  ASSUME NEW r \in Readings, NEW b \in Bytes, ReadByte(r, b) = r
  PROVE  LET q == ShapedByte(r, b)
         IN  q.at = r.at /\ q.cur = r.cur /\ q.rows = r.rows /\ q.row = r.row
BY ShapedByteProperties

LEMMA SameReport ==
  ASSUME NEW evs, NEW m, NEW q, Reported(evs, m), q.rows = m.rows, q.row = m.row
  PROVE  Reported(evs, q)
BY DEF Reported

LEMMA CommentMatches ==
  ASSUME PlainDialect, Inv, Inv', Matches, Comment, UNCHANGED <<input, finished>>
  PROVE  Matches'
<1>1. Handling("COMMENT") /\ "COMMENT" \in Modes \ {"END"}
  BY DEF Comment, Modes
<1>2. /\ Now \in Stream /\ Now.mode = "COMMENT" /\ offset \in Nat
      /\ offset + 1 \in offset..Len(chunk)
      /\ At(offset) \in Readings /\ Here \in Bytes
      /\ At(offset + 1) = ShapedByte(At(offset), Here)
      /\ Newline = IF Here = "lf" THEN 1 ELSE 0
  BY <1>1, HandlerReads
<1>3. PICK m \in Readings : m = At(offset)
  BY <1>2
<1>4. Regular => /\ Reported(events, m) /\ m.at = "comment" /\ m.cur = <<>>
                 /\ Now.fieldCount = 0
  BY <1>1, <1>2, <1>3, HandlerReads DEF Held
<1>5. CASE Here = "lf"
  <2>1. PICK a \in Stream : a = PastNewline(Now, 1) /\ SameButCounts(Now, a)
    BY <1>2, AdvanceProperties
  <2>2. PICK t \in Stream : /\ t = [a EXCEPT !.mode = "START_OF_RECORD", !.rowCount = @ + 1]
                            /\ t.error = a.error /\ t.mode = "START_OF_RECORD"
                            /\ t.fieldCount = a.fieldCount
    <3>1. PICK n \in Nat : n = a.rowCount + 1
      BY StreamFacts
    <3>2. "START_OF_RECORD" \in Modes
      BY DEF Modes
    <3> DEFINE t == [a EXCEPT !.mode = "START_OF_RECORD", !.rowCount = n]
    <3>3. /\ t \in Stream /\ t.error = a.error /\ t.mode = "START_OF_RECORD"
          /\ t.fieldCount = a.fieldCount
      BY <3>2 DEF Stream
    <3>4. t = [a EXCEPT !.mode = "START_OF_RECORD", !.rowCount = @ + 1]
      BY <3>1
    <3> HIDE DEF t
    <3> QED BY <3>3, <3>4
  <2>3. Goes(t, offset + 1)
    BY <1>2, <1>5, <2>1, <2>2 DEF Comment
  <2>4. PICK q : q = At(offset + 1)
    OBVIOUS
  <2>5. Regular => q.at = "record" /\ q.cur = <<>> /\ q.rows = m.rows /\ q.row = m.row
    <3>1. Regular => ReadByte(m, "lf") = [m EXCEPT !.at = "record"]
      BY <1>4 DEF ReadByte
    <3>2. "record" \in Places
      BY DEF Places
    <3> QED BY <1>2, <1>3, <1>4, <1>5, <2>4, <3>1, <3>2, ReadsPlace
  <2>6. Regular => Reported(events, q) /\ Held(t, q, offset + 1, FALSE)
    <3>1. Regular => Reported(events, q)
      BY <1>4, <2>5, SameReport
    <3>2. Regular => t.fieldCount = 0
      BY <1>4, <2>1, <2>2 DEF SameButCounts, SameRecord
    <3> QED BY <2>2, <2>5, <3>1, <3>2 DEF Held
  <2>7. Leaves(t, offset + 1)
    BY <2>1, <2>2, <2>4, <2>6 DEF Leaves, SameButCounts, SameRecord
  <2> QED BY <1>1, <1>2, <2>3, <2>7, HandlerGoes
<1>6. CASE Here # "lf"
  <2>1. PICK t \in Stream : t = Advance(Now, 1) /\ SameButCounts(Now, t)
    BY <1>2, AdvanceProperties
  <2>2. Goes(t, offset + 1)
    BY <1>2, <1>6, <2>1 DEF Comment
  <2>3. PICK q : q = At(offset + 1)
    OBVIOUS
  <2>4. Regular => q.at = "comment" /\ q.cur = <<>> /\ q.rows = m.rows /\ q.row = m.row
    <3>1. Regular => ReadByte(m, Here) = m
      BY <1>4, <1>6 DEF ReadByte
    <3> QED BY <1>2, <1>3, <1>4, <2>3, <3>1, ReadsNothing
  <2>5. Regular => Reported(events, q) /\ Held(t, q, offset + 1, FALSE)
    <3>1. Regular => Reported(events, q)
      BY <1>4, <2>4, SameReport
    <3>2. t.mode = "COMMENT" /\ (Regular => t.fieldCount = 0)
      BY <1>2, <1>4, <2>1 DEF SameButCounts, SameRecord
    <3> QED BY <2>4, <3>1, <3>2 DEF Held
  <2>6. Leaves(t, offset + 1)
    BY <2>1, <2>3, <2>5 DEF Leaves, SameButCounts, SameRecord
  <2> QED BY <1>1, <1>2, <2>2, <2>6, HandlerGoes
<1> QED BY <1>5, <1>6

\* The byte the loop stands at, as a part of the chunk.
LEMMA ChunkHere ==
  ASSUME ControlOK, offset \in Nat, offset < Len(chunk)
  PROVE  SubSeq(chunk, offset + 1, offset + 1) = <<Here>>
<1>1. Len(chunk) \in Nat /\ chunk \in Seq(Bytes)
  BY LengthFacts DEF ControlOK
<1>2. PICK k \in 1..Len(chunk) : k = offset + 1
  BY <1>1
<1>3. SubSeq(chunk, k, k) = SubSeq(chunk, k, k - 1) \o <<chunk[k]>>
  BY <1>1, <1>2, SubSeqRecursiveSecond
<1>4. SubSeq(chunk, k, k - 1) = <<>>
  BY <1>2, SubSeqEmpty
<1>5. chunk[k] \in Bytes
  BY <1>1, <1>2, ElementOfSeq
<1>6. <<>> \o <<chunk[k]>> = <<chunk[k]>>
  BY <1>5, ConcatEmptySeq
<1> QED BY <1>2, <1>3, <1>4, <1>6 DEF Here, Byte

\* A comment of at most one byte, or none.
LEMMA CommentHere ==
  ASSUME PlainDialect, ControlOK, NEW t, offset \in Nat, offset < Len(chunk)
  PROVE  /\ CommentAt(t, offset) =>
              /\ CommentPrefix = <<Here>> /\ Here # "lf" /\ t.fieldCount = 0 /\ ~t.inRecord
         /\ ~CommentAt(t, offset) /\ t.fieldCount = 0 /\ ~t.inRecord => CommentPrefix # <<Here>>
<1>1. Len(chunk) \in Nat /\ chunk \in Seq(Bytes)
  BY LengthFacts DEF ControlOK
<1>2. SubSeq(chunk, offset + 1, offset + 1) = <<Here>>
  BY ChunkHere
<1>3. CommentPrefix \in Seq(Bytes) /\ Len(CommentPrefix) <= 1 /\ CommentPrefix # <<"lf">>
  BY TextAssumption DEF PlainDialect
<1>4. CommentPrefix # <<>> => Len(CommentPrefix) = 1
  <2>1. PICK n \in Nat : n = Len(CommentPrefix) /\ n <= 1
    BY <1>3, LenProperties
  <2>2. n = 0 => CommentPrefix = <<>>
    BY <1>3, <2>1, EmptySeq
  <2> QED BY <2>1, <2>2
<1>5. Len(<<Here>>) = 1 /\ <<Here>> # <<>>
  OBVIOUS
<1>6. CommentAt(t, offset) <=>
        /\ CommentPrefix = <<Here>> /\ t.fieldCount = 0 /\ ~t.inRecord
  <2>1. CASE CommentPrefix = <<>>
    BY <1>5, <2>1 DEF CommentAt
  <2>2. CASE CommentPrefix # <<>>
    <3>1. CommentAt(t, offset) <=> /\ t.fieldCount = 0 /\ ~t.inRecord
                                   /\ offset + 1 <= Len(chunk)
                                   /\ SubSeq(chunk, offset + 1, offset + 1) = CommentPrefix
      BY <1>4, <2>2 DEF CommentAt
    <3>2. offset + 1 <= Len(chunk)
      BY <1>1
    <3> QED BY <1>2, <3>1, <3>2
  <2> QED BY <2>1, <2>2
<1>7. CommentPrefix = <<Here>> => Here # "lf"
  BY <1>3
<1> QED BY <1>6, <1>7

LEMMA HeardBegin ==
  ASSUME NEW evs \in Seq(Events), NEW e \in Events, NEW m, Reported(evs, m),
         e.type = "RECORD_BEGIN"
  PROVE  Reported(Append(evs, e), m)
<1>1. HeardIn(Append(evs, e)) = HearEvent(HeardIn(evs), e)
  BY HeardMore
<1>2. HearEvent(HeardIn(evs), e) = HeardIn(evs)
  BY DEF HearEvent
<1> QED BY <1>1, <1>2 DEF Reported

LEMMA StartOfRecordMatches ==
  ASSUME PlainDialect, Inv, Inv', Matches, StartOfRecord, UNCHANGED <<input, finished>>
  PROVE  Matches'
<1>1. Handling("START_OF_RECORD") /\ "START_OF_RECORD" \in Modes \ {"END"}
  BY DEF StartOfRecord, Modes
<1>2. /\ Now \in Stream /\ Now.mode = "START_OF_RECORD" /\ offset \in Nat /\ pc # "idle"
      /\ offset + 1 \in offset..Len(chunk) /\ offset < Len(chunk) /\ ControlOK /\ Fed
      /\ At(offset) \in Readings /\ Here \in Bytes /\ Here = Byte(offset)
      /\ At(offset + 1) = ShapedByte(At(offset), Here)
      /\ Newline = IF Here = "lf" THEN 1 ELSE 0
      /\ aborted = "no" => InLimit(Now)
  BY <1>1, HandlerReads
<1>3. PICK m \in Readings : m = At(offset)
  BY <1>2
<1>4. Regular => /\ Reported(events, m) /\ m.at = "record" /\ m.cur = <<>>
                 /\ Now.fieldCount = 0 /\ Now.error = "OK" /\ ~Now.inRecord
  <2>1. Regular => /\ Reported(events, m) /\ m.at = "record" /\ m.cur = <<>>
                   /\ Now.fieldCount = 0 /\ Now.error = "OK"
    BY <1>1, <1>2, <1>3, HandlerReads DEF Held
  <2>2. aborted = "no" /\ Now.error = "OK" => Told(Now, events, pc = "fall")
    BY <1>1, HandlerFinds
  <2>3. Regular => BetweenRecords(Now, events)
    BY <1>2, <2>1, <2>2 DEF Regular, Told
  <2> QED BY <2>1, <2>3 DEF BetweenRecords
<1>5. PICK q : q = At(offset + 1)
  OBVIOUS
<1>6. CASE CommentAt(Now, offset) /\ Goes(Advance([Now EXCEPT !.mode = "COMMENT"], 1), offset + 1)
  <2>1. PICK a \in Stream : /\ a = [Now EXCEPT !.mode = "COMMENT"] /\ SameRecord(Now, a)
                            /\ a.mode = "COMMENT"
    <3>1. "COMMENT" \in Modes
      BY DEF Modes
    <3> QED BY <1>2, <3>1, ModeEdit
  <2>2. PICK t \in Stream : t = Advance(a, 1) /\ SameButCounts(a, t)
    BY AdvanceProperties
  <2>3. Goes(t, offset + 1)
    BY <1>6, <2>1, <2>2
  <2>4. CommentPrefix = <<Here>> /\ Here # "lf"
    BY <1>2, <1>6, CommentHere
  <2>5. Regular => q.at = "comment" /\ q.cur = <<>> /\ q.rows = m.rows /\ q.row = m.row
    <3>1. Regular => ReadByte(m, Here) = [m EXCEPT !.at = "comment"]
      BY <1>4, <2>4 DEF ReadByte
    <3>2. "comment" \in Places
      BY DEF Places
    <3> QED BY <1>2, <1>3, <1>4, <1>5, <3>1, <3>2, ReadsPlace
  <2>6. t.mode = "COMMENT" /\ t.fieldCount = Now.fieldCount /\ t.error = Now.error
    BY <2>1, <2>2 DEF SameButCounts, SameRecord
  <2>7. Regular => Reported(events, q) /\ Held(t, q, offset + 1, FALSE)
    <3>1. Regular => Reported(events, q)
      BY <1>4, <2>5, SameReport
    <3> QED BY <1>4, <2>5, <2>6, <3>1 DEF Held
  <2>8. Leaves(t, offset + 1)
    BY <1>5, <2>6, <2>7 DEF Leaves
  <2> QED BY <1>1, <1>2, <2>3, <2>8, HandlerGoes
<1>7. CASE ~CommentAt(Now, offset) /\ Newline > 0 /\ Goes(PastNewline(Now, Newline), offset + Newline)
  <2>1. Here = "lf" /\ Newline = 1
    BY <1>2, <1>7
  <2>2. PICK t \in Stream : t = PastNewline(Now, 1) /\ SameButCounts(Now, t)
    BY <1>2, AdvanceProperties
  <2>3. Goes(t, offset + 1)
    BY <1>7, <2>1, <2>2
  <2>4. Regular => q.at = "record" /\ q.cur = <<>> /\ q.rows = m.rows /\ q.row = m.row
    <3>1. Regular => ReadByte(m, Here) = m
      BY <1>4, <2>1 DEF ReadByte
    <3> QED BY <1>2, <1>3, <1>4, <1>5, <3>1, ReadsNothing
  <2>5. t.mode = "START_OF_RECORD" /\ t.fieldCount = Now.fieldCount /\ t.error = Now.error
    BY <1>2, <2>2 DEF SameButCounts, SameRecord
  <2>6. Regular => Reported(events, q) /\ Held(t, q, offset + 1, FALSE)
    <3>1. Regular => Reported(events, q)
      BY <1>4, <2>4, SameReport
    <3> QED BY <1>4, <2>4, <2>5, <3>1 DEF Held
  <2>7. Leaves(t, offset + 1)
    BY <1>5, <2>5, <2>6 DEF Leaves
  <2> QED BY <1>1, <1>2, <2>3, <2>7, HandlerGoes
<1> DEFINE begun == [Now EXCEPT !.mode = "START_OF_FIELD", !.inRecord = TRUE,
                                !.recordBytes = 0, !.fieldCount = 0]
           begin == Event("RECORD_BEGIN", Now, <<>>)
<1>8. CASE Refused(Now, <<begin>>)
  BY <1>2, <1>8, AbortMatches
<1>9. begun.mode = "START_OF_FIELD" /\ begun.error = Now.error
  BY <1>2 DEF Stream
<1>10. begin \in Events /\ begin.type = "RECORD_BEGIN"
  <2>1. <<>> \in Seq(Codes)
    BY EmptySeq
  <2> QED BY ZenonT(60), <1>2, <2>1, EventProperties
<1> HIDE DEF begin, begun
<1>11. CASE /\ ~CommentAt(Now, offset) /\ Newline = 0 /\ s' = begun /\ pc' = "fall"
            /\ events' = Append(events, begin)
            /\ UNCHANGED <<chunk, offset, resumed, aborted>>
  <2>1. UNCHANGED <<chunk, offset, input, finished, aborted>> /\ ~finished /\ events \in Seq(Events)
    BY <1>2, <1>11 DEF Inv, ControlOK
  <2>2. Fed' /\ ~finished'
    BY <1>2, <2>1 DEF Fed, Base
  <2>3. At(offset)' = m
    BY <1>3, <2>1 DEF At, Base
  <2>4. Regular => Reported(events', m)
    BY <1>4, <1>10, <1>11, <2>1, HeardBegin
  <2>5. Regular => Begins(offset)
    BY <1>2, <1>4, <1>11, CommentHere DEF Begins
  <2>6. Regular => Held(s, m, offset, TRUE)'
    <3>1. Begins(offset)' <=> Begins(offset)
      BY <2>1 DEF Begins, Byte
    <3> QED BY <1>4, <1>9, <1>11, <2>5, <3>1 DEF Held
  <2>7. (Regular => ~Odd(m)) /\ (aborted = "no" /\ ~Odd(m) => Regular)
    BY <1>3 DEF Regular
  <2>8. aborted' = "no" => Follow(s, m, events, offset, TRUE)'
    <3>1. aborted' = "no" => InLimit(s)'
      BY <1>2, <1>9, <1>11 DEF InLimit
    <3>2. Regular => Reported(events, m)'
      BY <2>4 DEF Reported
    <3>3. Regular => (s.error = "OK")'
      BY <1>4, <1>9, <1>11
    <3> QED BY <2>1, <2>6, <2>7, <3>1, <3>2, <3>3 DEF Follow
  <2>9. (pc = "fall")' = TRUE
    BY <1>11
  <2> QED BY <2>2, <2>3, <2>8, <2>9 DEF Matches
<1> QED BY <1>6, <1>7, <1>8, <1>11 DEF StartOfRecord, begin, begun

-----------------------------------------------------------------------------
(* The start of a field.                                                   *)

LEMMA FreshIsPlain ==
  ASSUME Inv, Handling("START_OF_FIELD")
  PROVE  Fresh.field.quoted = FALSE /\ Fresh.doubled = FALSE /\ Fresh.error = Now.error
<1>1. Now \in Stream
  BY HandlerFinds
<1>2. PICK c \in Stream : c = ClearField(Now) /\ c.doubled = FALSE /\ c.error = Now.error
  <2>1. ClearField(Now) \in Stream
    BY <1>1, ClearFieldProperties
  <2>2. ClearField(Now).doubled = FALSE /\ ClearField(Now).error = Now.error
    BY <1>1 DEF ClearField, Stream
  <2> QED BY <2>1, <2>2
<1>3. PICK n : n = Base + offset
  OBVIOUS
<1>4. Fresh = [c EXCEPT !.field = [c.field EXCEPT !.at = n, !.start = offset, !.quoted = FALSE]]
  BY <1>2, <1>3 DEF Fresh
<1>5. PICK g \in Field : g = c.field
  BY StreamFacts
<1>6. PICK f : f = [g EXCEPT !.at = n, !.start = offset, !.quoted = FALSE]
  OBVIOUS
<1>9. f.quoted = FALSE
  BY <1>6 DEF Field
<1>7. Fresh = [c EXCEPT !.field = f]
  BY <1>4, <1>5, <1>6
<1>8. Fresh.field = f /\ Fresh.doubled = c.doubled /\ Fresh.error = c.error
  BY <1>7 DEF Stream
<1> QED BY <1>2, <1>8, <1>9

\* What the handlers of START_OF_FIELD find of the text.
LEMMA FieldReads ==
  ASSUME PlainDialect, Inv, Matches, Handling("START_OF_FIELD")
  PROVE  /\ "START_OF_FIELD" \in Modes \ {"END"} /\ pc # "idle" /\ offset \in Nat /\ Base \in Nat
         /\ offset + 1 \in offset..Len(chunk) /\ offset < Len(chunk) /\ offset \in 0..Len(chunk)
         /\ ControlOK /\ Fed
         /\ At(offset) \in Readings /\ Here \in Bytes /\ Here = Byte(offset)
         /\ Here = input[Base + offset + 1] /\ Base + offset + 1 \in 1..Len(input)
         /\ At(offset + 1) = ShapedByte(At(offset), Here)
         /\ Newline = IF Here = "lf" THEN 1 ELSE 0
         /\ aborted = "no" => InLimit(Fresh) /\ InLimit(Now)
         /\ ~Odd(At(offset + 1)) => ~Odd(At(offset))
         /\ Raw(Fresh.field) = <<>>
         /\ Regular => /\ Reported(events, At(offset)) /\ At(offset).cur = <<>>
                       /\ Fresh.error = "OK"
                       /\ \/ At(offset).at = "field"
                          \/ At(offset).at = "record" /\ Begins(offset)
<1>1. "START_OF_FIELD" \in Modes \ {"END"}
  BY DEF Modes
<1>2. Fresh.error = Now.error
  BY FreshIsPlain
<1>3. Regular => /\ Reported(events, At(offset)) /\ At(offset).cur = <<>>
                 /\ Now.error = "OK"
                 /\ \/ At(offset).at = "field"
                    \/ At(offset).at = "record" /\ Begins(offset)
  BY <1>1, HandlerReads DEF Held
<1>4. Raw(Fresh.field) = <<>>
  <2>1. ~Fresh.field.buffered /\ Fresh.field.len = 0 /\ Fresh.field.at \in Nat
    BY FreshProperties DEF Field
  <2>2. Raw(Fresh.field) = SubSeq(input, Fresh.field.at + 1, Fresh.field.at)
    BY <2>1, RawPointed
  <2> QED BY <2>1, <2>2, SubSeqEmpty
<1>5. /\ pc # "idle" /\ offset \in Nat /\ Base \in Nat
      /\ offset + 1 \in offset..Len(chunk) /\ offset < Len(chunk) /\ offset \in 0..Len(chunk)
      /\ ControlOK /\ Fed
      /\ At(offset) \in Readings /\ Here \in Bytes /\ Here = Byte(offset)
      /\ Here = input[Base + offset + 1] /\ Base + offset + 1 \in 1..Len(input)
      /\ At(offset + 1) = ShapedByte(At(offset), Here)
      /\ Newline = IF Here = "lf" THEN 1 ELSE 0
      /\ aborted = "no" => InLimit(Now)
      /\ ~Odd(At(offset + 1)) => ~Odd(At(offset))
  BY <1>1, HandlerReads
<1> QED BY <1>1, <1>2, <1>3, <1>4, <1>5 DEF InLimit

LEMMA TooManyColumnsMatches ==
  ASSUME PlainDialect, Inv, Inv', Matches, TooManyColumns, UNCHANGED <<input, finished>>
  PROVE  Matches'
<1>1. Handling("START_OF_FIELD") /\ Fails(Now, "TOO_MANY_COLS")
  BY DEF TooManyColumns
<1>2. Now \in Stream /\ pc # "idle"
  BY <1>1, HandlerFinds
<1> QED BY <1>1, <1>2, LimitMatches

\* The byte that begins a field.
LEMMA FieldBegins ==
  ASSUME NEW r \in Readings, NEW b \in Bytes,
         r.at = "field" \/ (r.at = "record" /\ b # "lf" /\ CommentPrefix # <<b>>)
  PROVE  ReadByte(r, b) = ReadOutside(r, b) /\ r.at # "plain"
BY DEF ReadByte

\* A field of no bytes, the next of which is the next of the input.
LEMMA OpenQuoteMatches ==
  ASSUME PlainDialect, Inv, Inv', Matches, OpenQuote, UNCHANGED <<input, finished>>
  PROVE  Matches'
<1>1. Handling("START_OF_FIELD") /\ Here = "quote"
  BY DEF OpenQuote, StartsField
<1>2. /\ "START_OF_FIELD" \in Modes \ {"END"} /\ offset \in Nat /\ Base \in Nat
      /\ offset + 1 \in offset..Len(chunk) /\ pc # "idle"
      /\ At(offset) \in Readings /\ Here \in Bytes /\ Here = Byte(offset)
      /\ At(offset + 1) = ShapedByte(At(offset), Here)
      /\ Regular => /\ Reported(events, At(offset)) /\ At(offset).cur = <<>>
                    /\ \/ At(offset).at = "field"
                       \/ At(offset).at = "record" /\ Begins(offset)
  BY <1>1, FieldReads
<1>3. PICK m \in Readings : m = At(offset)
  BY <1>2
<1>4. PICK q : q = At(offset + 1)
  OBVIOUS
<1>5. Regular => q.at = "quoted" /\ q.cur = <<>> /\ q.rows = m.rows /\ q.row = m.row
  <2>1. Regular => ReadByte(m, Here) = ReadOutside(m, Here) /\ m.at # "plain"
    BY <1>2, <1>3, FieldBegins DEF Begins
  <2>2. Regular => ReadByte(m, Here) = [m EXCEPT !.at = "quoted"]
    BY <1>1, <2>1 DEF ReadOutside
  <2>3. "quoted" \in Places
    BY DEF Places
  <2> QED BY <1>2, <1>3, <1>4, <2>2, <2>3, ReadsPlace
<1>6. PICK g \in Field : /\ g = Fresh.field /\ ~g.buffered /\ g.len = 0
                         /\ g.at = Base + offset /\ g.start = offset
  BY <1>1, FreshProperties
<1>7. PICK f \in Field : /\ f = [g EXCEPT !.quoted = TRUE, !.at = @ + 1, !.start = @ + 1]
                         /\ ~f.buffered /\ f.len = 0 /\ f.at = Base + offset + 1
                         /\ f.start = offset + 1 /\ f.quoted
  <2>1. PICK n \in Nat : n = Base + offset + 1 /\ n = g.at + 1
    BY <1>2, <1>6
  <2>2. PICK k \in Nat : k = offset + 1 /\ k = g.start + 1
    BY <1>2, <1>6
  <2>3. PICK f : f = [g EXCEPT !.quoted = TRUE, !.at = n, !.start = k]
    OBVIOUS
  <2>4. f \in Field /\ f.buffered = g.buffered /\ f.len = g.len /\ f.at = n /\ f.start = k /\ f.quoted
    BY <2>3 DEF Field
  <2>5. f = [g EXCEPT !.quoted = TRUE, !.at = @ + 1, !.start = @ + 1]
    BY <2>1, <2>2, <2>3
  <2> QED BY <1>6, <2>1, <2>2, <2>4, <2>5
<1>8. PICK a \in Stream : /\ a = [Fresh EXCEPT !.mode = "QUOTED_FIELD", !.field = f]
                          /\ a.mode = "QUOTED_FIELD" /\ a.field = f /\ a.error = Now.error
                          /\ a.doubled = FALSE
  <2>1. PICK b \in Stream : b = Fresh /\ b.error = Now.error /\ b.doubled = FALSE
    BY <1>1, FreshProperties, FreshIsPlain
  <2>2. "QUOTED_FIELD" \in Modes
    BY QuotedAreWithin
  <2>3. PICK a : a = [b EXCEPT !.mode = "QUOTED_FIELD", !.field = f]
    OBVIOUS
  <2>4. a \in Stream /\ a.mode = "QUOTED_FIELD" /\ a.field = f /\ a.error = b.error /\ a.doubled = b.doubled
    BY <2>2, <2>3 DEF Stream
  <2> QED BY <2>1, <2>3, <2>4
<1>9. PICK t \in Stream : /\ t = Advance(a, 1) /\ t.mode = "QUOTED_FIELD" /\ t.field = f
                          /\ t.error = Now.error /\ t.doubled = FALSE
  <2>1. Advance(a, 1) \in Stream /\ SameButCounts(a, Advance(a, 1))
    BY AdvanceProperties
  <2>2. Advance(a, 1).doubled = a.doubled
    BY DEF Advance, Stream
  <2> QED BY <1>8, <2>1, <2>2 DEF SameButCounts, SameRecord
<1>10. \/ Goes(t, offset + 1)
       \/ Buffers(t, [t EXCEPT !.field = EnsureBuffered(@)], offset + 1)
  <2>1. t = Advance([Fresh EXCEPT !.mode = "QUOTED_FIELD", !.field.quoted = TRUE,
                                  !.field.at = @ + 1, !.field.start = @ + 1], 1)
    <3>1. PICK b \in Stream : b = Fresh
      BY <1>1, FreshProperties
    <3>2. [b EXCEPT !.mode = "QUOTED_FIELD", !.field.quoted = TRUE,
                    !.field.at = @ + 1, !.field.start = @ + 1]
            = [b EXCEPT !.mode = "QUOTED_FIELD", !.field = f]
      BY <1>6, <1>7, <3>1 DEF Stream, Field
    <3> QED BY <1>8, <1>9, <3>1, <3>2
  <2> QED BY <2>1 DEF OpenQuote
<1>11. ASSUME NEW h \in Field, h.quoted, Raw(h) = <<>>, Copyable(h), Placed(h, offset + 1),
              NEW u \in Stream, u.field = h, u.mode = "QUOTED_FIELD", u.error = Now.error,
              u.doubled = FALSE
       PROVE  Leaves(u, offset + 1)
  <2>1. Halved(Raw(h)) = [out |-> <<>>, half |-> FALSE]
    BY <1>11, HalvedNothing
  <2>2. Regular => InQuotes(u, q, offset + 1)
    BY <1>5, <1>11, <2>1 DEF InQuotes
  <2>3. Regular => Held(u, q, offset + 1, FALSE)
    BY <1>5, <1>11, <2>2 DEF Held
  <2>4. Regular => Reported(events, q)
    BY <1>2, <1>3, <1>5, SameReport
  <2> QED BY <1>4, <1>11, <2>3, <2>4 DEF Leaves
<1>12. Raw(f) = <<>> /\ Copyable(f) /\ Placed(f, offset + 1)
  <2>1. PICK n \in Nat : n = Base + offset + 1
    BY <1>2
  <2>2. f.at = n /\ f.len = 0 /\ f.at + f.len = n /\ ~f.buffered
    BY <1>7, <2>1
  <2>3. Raw(f) = SubSeq(input, f.at + 1, f.at + f.len)
    BY <2>2, RawPointed
  <2>4. SubSeq(input, n + 1, n) = <<>>
    BY SubSeqEmpty
  <2>5. Raw(f) = <<>>
    BY <2>2, <2>3, <2>4
  <2>6. Copyable(f)
    BY <1>2, <1>7 DEF Copyable, NoOffset
  <2>7. Placed(f, offset + 1)
    BY <1>2, <2>1, <2>2 DEF Placed
  <2> QED BY <2>5, <2>6, <2>7
<1>13. CASE Goes(t, offset + 1)
  <2>1. Leaves(t, offset + 1)
    BY <1>7, <1>9, <1>11, <1>12
  <2> QED BY <1>1, <1>2, <1>13, <2>1, HandlerGoes
<1>14. CASE Buffers(t, [t EXCEPT !.field = EnsureBuffered(@)], offset + 1)
  <2>1. PICK h \in Field : h = EnsureBuffered(f) /\ Raw(h) = Raw(f) /\ h.quoted = f.quoted /\ h.buffered
    <3>1. ControlOK /\ Points(f)
      <4>1. /\ ControlOK /\ Base + Len(chunk) = Len(input) /\ Len(chunk) \in Nat
        BY LengthFacts DEF Inv
      <4> QED BY <1>2, <1>7, <4>1 DEF Points
    <3>2. EnsureBuffered(f) \in Field
      BY <3>1, EnsureBufferedProperties
    <3> QED BY <3>2, EnsuredIsField
  <2>2. PICK u \in Stream : /\ u = [t EXCEPT !.field = h] /\ u.field = h /\ u.mode = "QUOTED_FIELD"
                            /\ u.error = Now.error /\ u.doubled = FALSE
    <3>1. [t EXCEPT !.field = h].doubled = t.doubled
      BY DEF Stream
    <3> QED BY <1>9, <3>1, FieldEdit DEF SameRecord
  <2>3. u = [t EXCEPT !.field = EnsureBuffered(@)]
    BY <1>9, <2>1, <2>2
  <2>4. Copyable(h) /\ Placed(h, offset + 1)
    BY <2>1 DEF Copyable, Placed
  <2>5. Leaves(u, offset + 1)
    BY <1>7, <1>11, <1>12, <2>1, <2>2, <2>4
  <2>6. Buffers(t, u, offset + 1)
    BY <1>14, <2>3
  <2> QED BY <1>1, <1>2, <2>5, <2>6, HandlerBuffers
<1> QED BY <1>10, <1>13, <1>14

\* A handler that ends a field, or a field and its record, at p.
LEMMA HandlerEndsField ==
  ASSUME PlainDialect, Inv, Inv', Matches, NEW mode \in Modes \ {"END"}, Handling(mode),
         UNCHANGED <<input, finished>>, NEW p \in offset..Len(chunk), p < Len(chunk),
         Byte(p) = "delim", NEW t \in Stream, t.error = Now.error, Points(t.field),
         EndsField(t, p), Regular /\ ~Odd(At(p + 1)) => Closing(t, p)
  PROVE  Matches'
<1>1. /\ pc # "idle" /\ ControlOK /\ offset \in 0..Len(chunk) /\ Len(chunk) \in Nat
      /\ aborted = "no" => InLimit(Now)
  BY HandlerReads
<1>2. p \in 0..Len(chunk) /\ p + 1 \in offset..Len(chunk)
  BY <1>1
<1>3. ~Odd(At(p + 1)) => ~Odd(At(offset))
  BY <1>1, <1>2, AtLater
<1>4. aborted = "no" => InLimit(t) /\ (~Odd(At(p + 1)) => Closing(t, p))
  BY <1>1, <1>3 DEF Regular, InLimit
<1> QED BY <1>1, <1>2, <1>4, EndsFieldMatches

LEMMA HandlerEndsRecord ==
  ASSUME PlainDialect, Inv, Inv', Matches, NEW mode \in Modes \ {"END"}, Handling(mode),
         UNCHANGED <<input, finished>>, NEW p \in offset..Len(chunk), p < Len(chunk),
         Byte(p) = "lf", NEW t \in Stream, t.error = Now.error, Points(t.field),
         EndsRecord(t, p + 1), Regular /\ ~Odd(At(p + 1)) => Closing(t, p)
  PROVE  Matches'
<1>1. /\ pc # "idle" /\ ControlOK /\ offset \in 0..Len(chunk) /\ Len(chunk) \in Nat
      /\ aborted = "no" => InLimit(Now)
  BY HandlerReads
<1>2. p \in 0..Len(chunk) /\ p + 1 \in offset..Len(chunk)
  BY <1>1
<1>3. ~Odd(At(p + 1)) => ~Odd(At(offset))
  BY <1>1, <1>2, AtLater
<1>4. aborted = "no" => InLimit(t) /\ (~Odd(At(p + 1)) => Closing(t, p))
  BY <1>1, <1>3 DEF Regular, InLimit
<1> QED BY <1>1, <1>2, <1>4, EndsRecordMatches

\* An empty field may end where one may begin.
LEMMA FreshCloses ==
  ASSUME PlainDialect, Inv, Matches, Handling("START_OF_FIELD"),
         NEW t \in Stream, t.error = Now.error, t.field = Fresh.field
  PROVE  Regular => Closing(t, offset)
<1>1. /\ Raw(Fresh.field) = <<>>
      /\ Regular => /\ Reported(events, At(offset)) /\ At(offset).cur = <<>>
                    /\ \/ At(offset).at = "field"
                       \/ At(offset).at = "record" /\ Begins(offset)
  BY FieldReads
<1>2. Regular => Now.error = "OK"
  BY FieldReads, FreshIsPlain
<1>3. Content(t.field) = <<>>
  BY <1>1, FreshIsPlain, ContentPlain
<1> QED BY <1>1, <1>2, <1>3 DEF Closing

LEMMA EmptyFieldAtDelimiterMatches ==
  ASSUME PlainDialect, Inv, Inv', Matches, EmptyFieldAtDelimiter, UNCHANGED <<input, finished>>
  PROVE  Matches'
<1>1. Handling("START_OF_FIELD") /\ Here = "delim" /\ EndsField(Fresh, offset)
  BY DEF EmptyFieldAtDelimiter, StartsField
<1>2. /\ "START_OF_FIELD" \in Modes \ {"END"} /\ offset \in offset..Len(chunk)
      /\ offset < Len(chunk) /\ Byte(offset) = "delim"
  BY <1>1, FieldReads
<1>3. Fresh \in Stream /\ Points(Fresh.field) /\ Fresh.error = Now.error
  BY <1>1, FreshProperties, FreshIsPlain
<1>4. Regular => Closing(Fresh, offset)
  BY <1>1, <1>3, FreshCloses
<1> QED BY <1>1, <1>2, <1>3, <1>4, HandlerEndsField

LEMMA EmptyFieldAtNewlineMatches ==
  ASSUME PlainDialect, Inv, Inv', Matches, EmptyFieldAtNewline, UNCHANGED <<input, finished>>
  PROVE  Matches'
<1>1. Handling("START_OF_FIELD") /\ Newline > 0
  BY DEF EmptyFieldAtNewline, StartsField
<1>2. /\ "START_OF_FIELD" \in Modes \ {"END"} /\ offset \in 0..Len(chunk) /\ pc # "idle"
      /\ offset < Len(chunk) /\ Byte(offset) = "lf" /\ Newline = 1 /\ ControlOK
      /\ ~Odd(At(offset + 1)) => ~Odd(At(offset))
      /\ aborted = "no" => InLimit(Now)
  BY <1>1, FieldReads
<1>3. Fresh \in Stream /\ Points(Fresh.field) /\ Fresh.error = Now.error
  BY <1>1, FreshProperties, FreshIsPlain
<1>4. PICK t \in Stream : t = PastNewline(Fresh, 1) /\ t.error = Now.error /\ t.field = Fresh.field
  BY <1>3, AdvanceProperties DEF SameButCounts, SameRecord
<1> DEFINE e == Event("RECORD_END", t, <<>>)
<1>5. e \in Events /\ e.type = "RECORD_END"
  <2>1. <<>> \in Seq(Codes)
    BY EmptySeq
  <2> QED BY <2>1, EventProperties
<1>6. \/ Continue(EndRecord(t), offset + 1) /\ events' = events \o <<FieldEvent(t), e>>
           /\ UNCHANGED aborted
      \/ \E evs : Refused(t, evs)
  BY <1>2, <1>4 DEF EmptyFieldAtNewline
<1> HIDE DEF e
<1>7. CASE \E evs : Refused(t, evs)
  BY <1>2, <1>7, AbortMatches
<1>8. CASE Continue(EndRecord(t), offset + 1) /\ events' = events \o <<FieldEvent(t), e>>
             /\ UNCHANGED aborted
  <2>1. Regular => Closing(t, offset)
    BY <1>1, <1>4, FreshCloses
  <2>2. aborted = "no" => InLimit(t) /\ (~Odd(At(offset + 1)) => Closing(t, offset))
    BY <1>2, <1>4, <2>1 DEF Regular, InLimit
  <2>3. Points(t.field)
    BY <1>3, <1>4
  <2> QED BY <1>2, <1>5, <1>8, <2>2, <2>3, RecordMatches
<1> QED BY <1>6, <1>7, <1>8

LEMMA OpenUnquotedMatches ==
  ASSUME PlainDialect, Inv, Inv', Matches, OpenUnquoted, UNCHANGED <<input, finished>>
  PROVE  Matches'
<1>1. Handling("START_OF_FIELD") /\ Here \notin {"quote", "delim"} /\ Newline = 0
  BY DEF OpenUnquoted, StartsField
<1>2. /\ "START_OF_FIELD" \in Modes \ {"END"} /\ offset \in Nat /\ Base \in Nat
      /\ offset + 1 \in offset..Len(chunk) /\ pc # "idle" /\ ControlOK
      /\ At(offset) \in Readings /\ Here \in Bytes /\ Here = Byte(offset) /\ Here # "lf"
      /\ Here = input[Base + offset + 1] /\ Base + offset + 1 \in 1..Len(input)
      /\ At(offset + 1) = ShapedByte(At(offset), Here)
      /\ Regular => /\ Reported(events, At(offset)) /\ At(offset).cur = <<>>
                    /\ \/ At(offset).at = "field"
                       \/ At(offset).at = "record" /\ Begins(offset)
  BY <1>1, FieldReads
<1>3. PICK m \in Readings : m = At(offset)
  BY <1>2
<1>4. PICK q : q = At(offset + 1)
  OBVIOUS
<1>5. Regular => q.at = "plain" /\ q.cur = Append(<<>>, Here) /\ q.rows = m.rows /\ q.row = m.row
  <2>1. Regular => ReadByte(m, Here) = ReadOutside(m, Here)
    BY <1>2, <1>3, FieldBegins DEF Begins
  <2>2. Regular => ReadByte(m, Here) = AddByte(m, Here, "plain")
    BY <1>1, <1>2, <2>1 DEF ReadOutside
  <2>3. "plain" \in Places
    BY DEF Places
  <2> QED BY <1>2, <1>3, <1>4, <2>2, <2>3, ReadsByte
<1>6. PICK g \in Field : /\ g = Fresh.field /\ ~g.buffered /\ ~g.quoted /\ g.at = Base + offset
  BY <1>1, FreshProperties, FreshIsPlain
<1>7. PICK f \in Field : /\ f = [g EXCEPT !.len = 1] /\ ~f.buffered /\ ~f.quoted
                         /\ f.at = Base + offset /\ f.len = 1
  <2>1. PICK f : f = [g EXCEPT !.len = 1]
    OBVIOUS
  <2>2. f \in Field /\ f.buffered = g.buffered /\ f.quoted = g.quoted /\ f.at = g.at /\ f.len = 1
    BY <2>1 DEF Field
  <2> QED BY <1>6, <2>1, <2>2
<1>8. PICK a \in Stream : /\ a = [Fresh EXCEPT !.mode = "UNQUOTED_FIELD", !.field = f]
                          /\ a.mode = "UNQUOTED_FIELD" /\ a.field = f /\ a.error = Now.error
  <2>1. PICK b \in Stream : b = Fresh /\ b.error = Now.error
    BY <1>1, FreshProperties, FreshIsPlain
  <2>2. "UNQUOTED_FIELD" \in Modes
    BY DEF Modes, FieldModes
  <2>3. PICK a : a = [b EXCEPT !.mode = "UNQUOTED_FIELD", !.field = f]
    OBVIOUS
  <2>4. a \in Stream /\ a.mode = "UNQUOTED_FIELD" /\ a.field = f /\ a.error = b.error
    BY <2>2, <2>3 DEF Stream
  <2> QED BY <2>1, <2>3, <2>4
<1>9. PICK t \in Stream : /\ t = Advance(a, 1) /\ t.mode = "UNQUOTED_FIELD" /\ t.field = f
                          /\ t.error = Now.error
  <2>1. Advance(a, 1) \in Stream /\ SameButCounts(a, Advance(a, 1))
    BY AdvanceProperties
  <2> QED BY <1>8, <2>1 DEF SameButCounts, SameRecord
<1>10. Goes(t, offset + 1)
  <2>1. PICK b \in Stream : b = Fresh
    BY <1>1, FreshProperties
  <2>2. [b EXCEPT !.mode = "UNQUOTED_FIELD", !.field.len = 1]
          = [b EXCEPT !.mode = "UNQUOTED_FIELD", !.field = f]
    BY <1>6, <1>7, <2>1 DEF Stream
  <2>3. t = Advance([Fresh EXCEPT !.mode = "UNQUOTED_FIELD", !.field.len = 1], 1)
    BY <1>8, <1>9, <2>1, <2>2
  <2> QED BY <2>3 DEF OpenUnquoted
<1>11. Raw(f) = Append(<<>>, Here) /\ Placed(f, offset + 1)
  <2>1. PICK n \in Nat : n = Base + offset
    BY <1>2
  <2>2. f.at = n /\ f.len = 1 /\ f.at + f.len = n + 1 /\ f.at + 1 = n + 1 /\ ~f.buffered
    BY <1>7, <2>1
  <2>3. Raw(f) = SubSeq(input, f.at + 1, f.at + f.len)
    BY <2>2, RawPointed
  <2>4. PICK k : k = n + 1 /\ k \in 1..Len(input) /\ k - 1 = n /\ input[k] = Here
    BY <1>2, <2>1
  <2>5. SubSeq(input, k, k) = SubSeq(input, k, n) \o <<input[k]>>
    <3>1. input \in Seq(Bytes)
      BY <1>2 DEF ControlOK
    <3>2. SubSeq(input, k, k) = SubSeq(input, k, k - 1) \o <<input[k]>>
      BY <2>4, <3>1, SubSeqRecursiveSecond
    <3> QED BY <2>4, <3>2
  <2>6. SubSeq(input, k, n) = <<>>
    BY <2>1, <2>4, SubSeqEmpty
  <2>7. Append(<<>>, Here) = <<>> \o <<Here>>
    BY <1>2, EmptySeq, AppendIsConcat
  <2>8. Raw(f) = Append(<<>>, Here)
    BY <2>2, <2>3, <2>4, <2>5, <2>6, <2>7
  <2>9. Placed(f, offset + 1)
    BY <1>2, <2>1, <2>2 DEF Placed
  <2> QED BY <2>8, <2>9
<1>12. Leaves(t, offset + 1)
  <2>1. Regular => Held(t, q, offset + 1, FALSE)
    BY <1>5, <1>7, <1>9, <1>11 DEF Held
  <2>2. Regular => Reported(events, q)
    BY <1>2, <1>3, <1>5, SameReport
  <2> QED BY <1>4, <1>9, <2>1, <2>2 DEF Leaves
<1> QED BY <1>1, <1>2, <1>10, <1>12, HandlerGoes

-----------------------------------------------------------------------------
(* A field without quotes.                                                 *)

LEMMA UnquotedReads ==
  ASSUME PlainDialect, Inv, Matches, Handling("UNQUOTED_FIELD")
  PROVE  /\ "UNQUOTED_FIELD" \in Modes \ {"END"} /\ pc # "idle" /\ offset \in Nat /\ Base \in Nat
         /\ offset + 1 \in (offset + 1)..Len(chunk) /\ offset < Len(chunk)
         /\ offset \in offset..Len(chunk) /\ offset \in 0..Len(chunk) /\ Len(chunk) \in Nat
         /\ ControlOK /\ Fed /\ Now \in Stream /\ Points(Now.field) /\ Now.mode = "UNQUOTED_FIELD"
         /\ At(offset) \in Readings /\ Here \in Bytes /\ Here = Byte(offset) /\ Here # "cr"
         /\ At(offset + 1) = ShapedByte(At(offset), Here)
         /\ Newline = IF Here = "lf" THEN 1 ELSE 0
         /\ Regular => /\ Reported(events, At(offset)) /\ Now.error = "OK"
                       /\ At(offset).at = "plain" /\ ~Now.field.quoted
                       /\ At(offset).cur = Raw(Now.field) /\ Placed(Now.field, offset)
<1>1. "UNQUOTED_FIELD" \in Modes \ {"END"}
  BY DEF Modes, FieldModes
<1>2. /\ pc # "idle" /\ offset \in Nat /\ Base \in Nat /\ offset + 1 \in 0..Len(chunk)
      /\ offset < Len(chunk) /\ offset \in 0..Len(chunk) /\ Len(chunk) \in Nat
      /\ ControlOK /\ Fed /\ Now \in Stream /\ Points(Now.field) /\ Now.mode = "UNQUOTED_FIELD"
      /\ At(offset) \in Readings /\ Here \in Bytes /\ Here = Byte(offset) /\ Here # "cr"
      /\ At(offset + 1) = ShapedByte(At(offset), Here)
      /\ Newline = IF Here = "lf" THEN 1 ELSE 0
  BY <1>1, HandlerReads
<1>3. Regular => /\ Reported(events, At(offset)) /\ Now.error = "OK"
                 /\ Held(Now, At(offset), offset, pc = "fall")
  BY <1>1, HandlerReads
<1>4. Regular => /\ At(offset).at = "plain" /\ ~Now.field.quoted
                 /\ At(offset).cur = Raw(Now.field) /\ Placed(Now.field, offset)
  BY <1>2, <1>3 DEF Held
<1>5. offset + 1 \in (offset + 1)..Len(chunk) /\ offset \in offset..Len(chunk)
  BY <1>2
<1> QED BY <1>1, <1>2, <1>3, <1>4, <1>5

LEMMA UnquotedTooLongMatches ==
  ASSUME PlainDialect, Inv, Inv', Matches, UnquotedTooLong, UNCHANGED <<input, finished>>
  PROVE  Matches'
<1>1. Handling("UNQUOTED_FIELD") /\ Fails(Now, "LIMIT")
  BY DEF UnquotedTooLong
<1>2. Now \in Stream /\ pc # "idle"
  BY <1>1, HandlerFinds
<1> QED BY <1>1, <1>2, LimitMatches

\* The field ends with what was read of it.
LEMMA PlainCloses ==
  ASSUME NEW t, NEW p, t.error = "OK", ~t.field.quoted, Reported(events, At(p)),
         At(p).at = "plain", At(p).cur = Raw(t.field)
  PROVE  Closing(t, p)
<1>1. Content(t.field) = Raw(t.field)
  BY ContentPlain
<1> QED BY <1>1 DEF Closing

LEMMA UnquotedDelimiterMatches ==
  ASSUME PlainDialect, Inv, Inv', Matches, UnquotedDelimiter, UNCHANGED <<input, finished>>
  PROVE  Matches'
<1>1. Handling("UNQUOTED_FIELD") /\ Here = "delim" /\ EndsField(Now, offset)
  BY DEF UnquotedDelimiter, Unquoted
<1>2. Regular => Closing(Now, offset)
  BY <1>1, UnquotedReads, PlainCloses
<1>3. /\ "UNQUOTED_FIELD" \in Modes \ {"END"} /\ offset \in offset..Len(chunk)
      /\ offset < Len(chunk) /\ Byte(offset) = "delim" /\ Now \in Stream /\ Points(Now.field)
  BY <1>1, UnquotedReads
<1> QED BY <1>1, <1>2, <1>3, HandlerEndsField

LEMMA UnquotedNewlineMatches ==
  ASSUME PlainDialect, Inv, Inv', Matches, UnquotedNewline, UNCHANGED <<input, finished>>
  PROVE  Matches'
<1>1. Handling("UNQUOTED_FIELD") /\ Newline > 0
  BY DEF UnquotedNewline, Unquoted
<1>2. /\ "UNQUOTED_FIELD" \in Modes \ {"END"} /\ offset \in offset..Len(chunk)
      /\ offset < Len(chunk) /\ Byte(offset) = "lf" /\ Newline = 1 /\ Now \in Stream
      /\ Points(Now.field)
  BY <1>1, UnquotedReads
<1>3. PICK a \in Stream : a = PastNewline(Now, 1) /\ a.error = Now.error /\ a.field = Now.field
  BY <1>2, AdvanceProperties DEF SameButCounts, SameRecord
<1>4. PICK t \in Stream : t = PastNewline(a, 1) /\ t.error = Now.error /\ t.field = Now.field
  <2>1. PastNewline(a, 1) \in Stream /\ SameButCounts(a, PastNewline(a, 1))
    BY AdvanceProperties
  <2> QED BY <1>3, <2>1 DEF SameButCounts, SameRecord
<1>5. EndsRecord(t, offset + 1)
  BY <1>2, <1>3, <1>4 DEF UnquotedNewline
<1>6. Regular => Closing(t, offset)
  BY <1>1, <1>4, UnquotedReads, PlainCloses
<1> QED BY <1>1, <1>2, <1>4, <1>5, <1>6, HandlerEndsRecord

\* A quote in a field without quotes.
LEMMA UnquotedRejectedMatches ==
  ASSUME PlainDialect, Inv, Inv', Matches, UnquotedRejected, UNCHANGED <<input, finished>>
  PROVE  Matches'
<1>1. Handling("UNQUOTED_FIELD") /\ Newline = 0 /\ UnquotedInvalid(Here)
      /\ Fails(Now, InvalidCode(Here))
  BY DEF UnquotedRejected, Unquoted
<1>2. /\ "UNQUOTED_FIELD" \in Modes \ {"END"} /\ Now \in Stream /\ Here \in Bytes
      /\ offset + 1 \in (offset + 1)..Len(chunk) /\ At(offset) \in Readings
      /\ At(offset + 1) = ShapedByte(At(offset), Here) /\ Here \notin {"lf", "cr"}
      /\ Regular => Reported(events, At(offset)) /\ At(offset).at = "plain"
  BY <1>1, UnquotedReads
<1>3. Here = "quote"
  BY <1>1, <1>2 DEF UnquotedInvalid
<1>4. InvalidCode(Here) \in ErrorCodes \ {"OK"}
  BY DEF InvalidCode, ErrorCodes
<1>5. PICK m \in Readings : m = At(offset)
  BY <1>2
<1>6. PICK q : q = At(offset + 1)
  OBVIOUS
<1>7. Regular => q.at = "bad" /\ q.rows = m.rows /\ q.row = m.row
  <2>1. Regular => ReadByte(m, Here) = [m EXCEPT !.at = "bad"]
    BY <1>2, <1>3, <1>5 DEF ReadByte, ReadOutside
  <2>2. "bad" \in Places
    BY DEF Places
  <2> QED BY <1>2, <1>5, <1>6, <2>1, <2>2, ReadsPlace
<1>8. Regular => Reported(events, q) /\ q.at = "bad"
  BY <1>2, <1>5, <1>7, SameReport
<1> QED BY <1>1, <1>2, <1>4, <1>6, <1>8, HandlerRejects

\* The bytes the bulk scan passes over.
LEMMA ScanPasses ==
  ASSUME PlainDialect, ControlOK, NEW p \in 0..Len(chunk), p < Len(chunk),
         NEW q \in Nat, p <= q, q < ScanStop(p)
  PROVE  q < Len(chunk) /\ PlainByte(Byte(q))
<1> DEFINE U == {i \in p..(Len(chunk) - 1) : StopsScan(Byte(i))}
<1>1. Len(chunk) \in Nat /\ p \in Nat
  BY LengthFacts
<1>2. U \union {Len(chunk)} \in SUBSET Nat /\ U \union {Len(chunk)} # {}
  BY <1>1
<1>3. ScanStop(p) = Min(U \union {Len(chunk)})
  BY DEF ScanStop
<1>4. PICK k : k = ScanStop(p) /\ \A y \in U \union {Len(chunk)} : k <= y
  <2> HIDE DEF U
  <2> QED BY <1>2, <1>3, MinProperties
<1>5. k \in Nat
  <2>1. ScanStop(p) \in Nat
    BY <1>1, ScanStopProperties
  <2> QED BY <1>4, <2>1
<1>6. k <= Len(chunk) /\ q < k
  BY <1>4
<1>7. q < Len(chunk) /\ q \in p..(Len(chunk) - 1)
  BY <1>1, <1>5, <1>6
<1>8. q \notin U
  <2>1. \A y \in U : k <= y
    BY <1>4
  <2> HIDE DEF U
  <2> QED BY <1>5, <1>6, <2>1
<1>9. ~StopsScan(Byte(q))
  BY <1>7, <1>8
<1>10. PlainByte(Byte(q))
  BY <1>9 DEF StopsScan, PlainByte, PlainDialect
<1> QED BY <1>7, <1>10

LEMMA BulkReads ==
  ASSUME PlainDialect, Inv, Matches, Handling("UNQUOTED_FIELD"), Regular,
         NEW p \in offset..Len(chunk), p <= ScanStop(offset)
  PROVE  /\ At(p).at = "plain" /\ At(p).rows = At(offset).rows /\ At(p).row = At(offset).row
         /\ At(p).cur = At(offset).cur \o SubSeq(input, Base + offset + 1, Base + p)
<1>1. /\ offset \in Nat /\ Base \in Nat /\ offset < Len(chunk) /\ offset \in 0..Len(chunk)
      /\ ControlOK /\ Fed /\ At(offset).at = "plain" /\ Len(chunk) \in Nat
  BY UnquotedReads
<1>2. Base + Len(chunk) = Len(input) /\ Len(input) \in Nat
  BY <1>1, LengthFacts
<1>3. PICK text \in Seq(Bytes) : text = input
  BY <1>1 DEF ControlOK
<1>4. PICK j \in 0..Len(text) : j = Base + offset
  BY <1>1, <1>2, <1>3
<1>5. PICK k \in j..Len(text) : k = Base + p
  BY <1>1, <1>2, <1>3, <1>4
<1>6. ASSUME NEW i \in (j + 1)..k PROVE PlainByte(text[i])
  <2>1. PICK q \in Nat : q = i - Base - 1 /\ offset <= q /\ q < p /\ q \in 0..Len(chunk)
                         /\ q < Len(chunk) /\ Base + q + 1 = i
    BY <1>1, <1>4, <1>5
  <2>2. q < ScanStop(offset)
    <3>1. ScanStop(offset) \in Nat
      BY <1>1, ScanStopProperties
    <3>2. p \in Nat
      BY <1>1
    <3> QED BY <2>1, <3>1, <3>2
  <2>3. PlainByte(Byte(q))
    BY <1>1, <2>1, <2>2, ScanPasses
  <2>4. Byte(q) = input[Base + q + 1]
    BY <1>1, <2>1, NextByte
  <2> QED BY <1>3, <2>1, <2>3, <2>4
<1>7. ReadUpTo(text, j).at = "plain" /\ At(offset) = ReadUpTo(text, j) /\ At(p) = ReadUpTo(text, k)
  BY <1>1, <1>3, <1>4, <1>5 DEF At
<1>8. LET r == ReadUpTo(text, j)
          q == ReadUpTo(text, k)
      IN  /\ q.at = "plain" /\ q.rows = r.rows /\ q.row = r.row
          /\ q.cur = r.cur \o SubSeq(text, j + 1, k)
  BY <1>6, <1>7, PlainRun
<1> QED BY <1>3, <1>4, <1>5, <1>7, <1>8

LEMMA UnquotedBulkMatches ==
  ASSUME PlainDialect, Inv, Inv', Matches, UnquotedBulk, UNCHANGED <<input, finished>>
  PROVE  Matches'
<1>1. Handling("UNQUOTED_FIELD") /\ FieldLen(Now.field) < MaxFieldBytes
  BY DEF UnquotedBulk, Unquoted
<1>2. /\ "UNQUOTED_FIELD" \in Modes \ {"END"} /\ pc # "idle" /\ offset \in Nat /\ Base \in Nat
      /\ offset < Len(chunk) /\ Len(chunk) \in Nat /\ offset \in 0..Len(chunk)
      /\ ControlOK /\ Fed /\ Now \in Stream /\ Points(Now.field) /\ Now.mode = "UNQUOTED_FIELD"
  BY <1>1, UnquotedReads
<1> DEFINE stop == ScanStop(offset)
           n    == IF stop - offset > Room THEN Room ELSE stop - offset
           p    == offset + n
           t    == Advance([Now EXCEPT !.field = Extended(@, n)], n)
           nl   == NewlineAt(p)
<1>3. stop \in Nat /\ offset <= stop /\ stop <= Len(chunk)
  BY <1>2, ScanStopProperties
<1>4. Room \in Nat
  <2>1. FieldLen(Now.field) \in Nat
    BY <1>2, RawProperties
  <2> QED BY <1>1, <2>1, ConstantFacts DEF Room
<1>5. n \in Nat /\ p \in offset..Len(chunk) /\ offset + n <= Len(chunk) /\ p <= stop /\ p \in 0..Len(chunk)
  BY <1>2, <1>3, <1>4
<1>6. \/ p = Len(chunk) /\ Buffers(t, [t EXCEPT !.field = EnsureBuffered(@)], p)
      \/ p < stop /\ Goes(t, p)
      \/ /\ p = stop /\ p < Len(chunk)
         /\ \/ Byte(p) = "delim" /\ EndsField(t, p)
            \/ nl > 0 /\ EndsRecord(PastNewline(t, nl), p + nl)
            \/ /\ nl = 0 /\ UnquotedInvalid(Byte(p))
               /\ Fails(t, InvalidCode(Byte(p)))
      \/ Now.field.buffered /\ Starved(Now)
  BY DEF UnquotedBulk
<1>7. PICK f \in Field : f = Extended(Now.field, n)
  BY <1>2, <1>5, ExtendedProperties
<1>8. Regular => /\ Raw(f) = Raw(Now.field) \o SubSeq(input, Base + offset + 1, Base + p)
                 /\ ~f.quoted /\ Placed(f, p)
  <2> SUFFICES ASSUME Regular
               PROVE  /\ Raw(f) = Raw(Now.field) \o SubSeq(input, Base + offset + 1, Base + p)
                      /\ ~f.quoted /\ Placed(f, p)
    OBVIOUS
  <2>1. Placed(Now.field, offset) /\ ~Now.field.quoted
    BY <1>1, UnquotedReads
  <2> HIDE DEF n
  <2> QED BY <1>2, <1>5, <1>7, <2>1, ExtendedIsField
<1>9. Regular => /\ At(p).at = "plain" /\ At(p).cur = Raw(f) /\ Now.error = "OK"
                 /\ Reported(events, At(p))
  <2> SUFFICES ASSUME Regular
               PROVE  /\ At(p).at = "plain" /\ At(p).cur = Raw(f) /\ Now.error = "OK"
                      /\ Reported(events, At(p))
    OBVIOUS
  <2> HIDE DEF p, stop
  <2>1. /\ At(p).at = "plain" /\ At(p).rows = At(offset).rows /\ At(p).row = At(offset).row
        /\ At(p).cur = At(offset).cur \o SubSeq(input, Base + offset + 1, Base + p)
    <3>1. p <= ScanStop(offset)
      BY <1>5 DEF stop
    <3> QED BY <1>1, <1>5, <3>1, BulkReads
  <2>2. Reported(events, At(offset)) /\ Now.error = "OK" /\ At(offset).cur = Raw(Now.field)
    BY <1>1, UnquotedReads
  <2>3. Reported(events, At(p))
    BY <2>1, <2>2, SameReport
  <2> QED BY <1>8, <2>1, <2>2, <2>3
<1> HIDE DEF n, stop
<1>10. /\ t \in Stream /\ t.mode = "UNQUOTED_FIELD" /\ t.field = f /\ t.error = Now.error
  <2>1. PICK a \in Stream : /\ a = [Now EXCEPT !.field = f] /\ SameRecord(Now, a)
                            /\ a.field = f /\ a.mode = Now.mode
    BY <1>2, FieldEdit
  <2>2. t = Advance(a, n)
    BY <1>7, <2>1
  <2> HIDE DEF t
  <2>3. t \in Stream /\ SameButCounts(a, t)
    BY <1>5, <2>2, AdvanceProperties
  <2> QED BY <1>2, <2>1, <2>3 DEF SameButCounts, SameRecord
<1> HIDE DEF t
<1>11. Points(f)
  <2>1. ControlOK /\ Typed(Now, offset) /\ Now.mode = "UNQUOTED_FIELD"
    BY <1>1, <1>2, HandlerFinds
  <2>2. f.at + f.len <= Now.field.at + Now.field.len + n
    BY <1>2, <1>5, <1>7, ExtendedProperties
  <2>3. p - offset = n /\ p \in Nat /\ offset <= p
    BY <1>2, <1>5
  <2>4. Typed(t, p)
    <3> HIDE DEF p
    <3> QED BY <1>2, <1>10, <2>1, <2>2, <2>3, TypedLater
  <2> HIDE DEF p
  <2> QED BY <1>5, <1>10, <2>1, <2>4, TypedPoints
<1> HIDE DEF p
<1>12. ASSUME NEW u \in Stream, u.mode = "UNQUOTED_FIELD", u.error = Now.error,
              ~u.field.quoted <=> ~f.quoted, Raw(u.field) = Raw(f),
              Placed(f, p) => Placed(u.field, p)
       PROVE  Leaves(u, p)
  <2>1. Regular => Held(u, At(p), p, FALSE)
    BY <1>8, <1>9, <1>12 DEF Held
  <2> QED BY <1>9, <1>12, <2>1 DEF Leaves
<1>13. CASE p = Len(chunk) /\ Buffers(t, [t EXCEPT !.field = EnsureBuffered(@)], p)
  <2>1. PICK h \in Field : h = EnsureBuffered(f) /\ Raw(h) = Raw(f) /\ h.quoted = f.quoted /\ h.buffered
    BY <1>2, <1>11, EnsureBufferedProperties, EnsuredIsField
  <2>2. PICK u \in Stream : /\ u = [t EXCEPT !.field = h] /\ u.field = h /\ u.mode = t.mode
                            /\ u.error = t.error
    BY <1>10, FieldEdit DEF SameRecord
  <2>3. Buffers(t, u, p)
    BY <1>10, <1>13, <2>1, <2>2
  <2>4. Leaves(u, p)
    BY <1>10, <1>12, <2>1, <2>2 DEF Placed
  <2> QED BY <1>1, <1>2, <1>5, <1>10, <2>3, <2>4, HandlerBuffers
<1>14. CASE Goes(t, p)
  <2>1. Leaves(t, p)
    BY <1>10, <1>12
  <2> QED BY <1>1, <1>2, <1>5, <1>14, <2>1, HandlerGoes
<1>15. ASSUME NEW u, u.error = Now.error, u.field = f PROVE Regular => Closing(u, p)
  BY <1>8, <1>9, <1>15, PlainCloses
<1>16. CASE p < Len(chunk) /\ Byte(p) = "delim" /\ EndsField(t, p)
  BY <1>1, <1>2, <1>5, <1>10, <1>11, <1>15, <1>16, HandlerEndsField
<1>17. CASE p < Len(chunk) /\ nl > 0 /\ EndsRecord(PastNewline(t, nl), p + nl)
  <2>1. Byte(p) = "lf" /\ nl = 1
    BY <1>2, <1>5, <1>17, PlainNewline
  <2>2. PICK u \in Stream : u = PastNewline(t, 1) /\ u.error = Now.error /\ u.field = f
    <3>1. PastNewline(t, 1) \in Stream /\ SameButCounts(t, PastNewline(t, 1))
      BY <1>10, AdvanceProperties
    <3> QED BY <1>10, <3>1 DEF SameButCounts, SameRecord
  <2>3. EndsRecord(u, p + 1)
    BY <1>17, <2>1, <2>2
  <2>4. Points(u.field) /\ (Regular => Closing(u, p))
    BY <1>11, <1>15, <2>2
  <2> QED BY <1>1, <1>2, <1>5, <1>17, <2>1, <2>2, <2>3, <2>4, HandlerEndsRecord
<1>18. CASE p < Len(chunk) /\ nl = 0 /\ UnquotedInvalid(Byte(p)) /\ Fails(t, InvalidCode(Byte(p)))
  <2>1. Byte(p) = "quote" /\ Byte(p) \in Bytes /\ At(p + 1) = ShapedByte(At(p), Byte(p)) /\ At(p) \in Readings
    <3>1. /\ Byte(p) \in Bytes /\ Byte(p) \in Alphabet /\ At(p + 1) = ShapedByte(At(p), Byte(p))
          /\ At(p) \in Readings
      BY <1>2, <1>5, <1>18, NextByte, AtType
    <3>2. Byte(p) # "lf"
      BY <1>2, <1>5, <1>18, PlainNewline
    <3>3. Byte(p) # "cr"
      BY <3>1 DEF PlainDialect
    <3> QED BY <1>18, <3>1, <3>2, <3>3 DEF UnquotedInvalid
  <2>2. PICK m \in Readings : m = At(p)
    BY <2>1
  <2>3. PICK q : q = At(p + 1)
    OBVIOUS
  <2>4. Regular => q.at = "bad" /\ q.rows = m.rows /\ q.row = m.row
    <3>1. Regular => ReadByte(m, "quote") = [m EXCEPT !.at = "bad"]
      BY <1>9, <2>2 DEF ReadByte, ReadOutside
    <3>2. "bad" \in Places
      BY DEF Places
    <3> QED BY <2>1, <2>2, <2>3, <3>1, <3>2, ReadsPlace
  <2>5. Regular => Reported(events, q) /\ q.at = "bad"
    BY <1>9, <2>2, <2>4, SameReport
  <2>6. InvalidCode(Byte(p)) \in ErrorCodes \ {"OK"}
    BY DEF InvalidCode, ErrorCodes
  <2>7. p + 1 \in (offset + 1)..Len(chunk)
    BY <1>2, <1>5, <1>18
  <2> QED BY <1>1, <1>2, <1>10, <1>18, <2>3, <2>5, <2>6, <2>7, HandlerRejects
<1>19. CASE Starved(Now)
  BY <1>2, <1>19, AbortMatches
<1> HIDE DEF nl
<1> QED BY <1>6, <1>13, <1>14, <1>16, <1>17, <1>18, <1>19

-----------------------------------------------------------------------------
(* A quoted field.                                                         *)

\* What the handlers of QUOTED_FIELD find of the text.
LEMMA QuotedReads ==
  ASSUME PlainDialect, Inv, Matches, Handling("QUOTED_FIELD")
  PROVE  /\ "QUOTED_FIELD" \in Modes \ {"END"} /\ pc # "idle" /\ offset \in Nat /\ Base \in Nat
         /\ offset + 1 \in offset..Len(chunk) /\ offset \in offset..Len(chunk)
         /\ offset < Len(chunk) /\ Len(chunk) \in Nat
         /\ ControlOK /\ Fed /\ Now \in Stream /\ Now.field \in Field /\ Points(Now.field)
         /\ At(offset) \in Readings /\ Here \in Bytes /\ Here = Byte(offset)
         /\ Here = input[Base + offset + 1] /\ Base + offset + 1 \in 1..Len(input)
         /\ At(offset + 1) = ShapedByte(At(offset), Here)
         /\ Newline = IF Here = "lf" THEN 1 ELSE 0
         /\ Now.doubled = s.doubled /\ Now.mode = "QUOTED_FIELD"
         /\ Regular => /\ Reported(events, At(offset)) /\ Now.error = "OK"
                       /\ At(offset).at = "quoted" /\ InQuotes(Now, At(offset), offset)
<1>1. "QUOTED_FIELD" \in Modes \ {"END"}
  BY DEF Modes, FieldModes
<1>2. /\ pc # "idle" /\ offset \in Nat /\ Base \in Nat /\ offset + 1 \in 0..Len(chunk)
      /\ offset < Len(chunk) /\ offset \in 0..Len(chunk) /\ Len(chunk) \in Nat
      /\ ControlOK /\ Fed /\ Now \in Stream /\ Points(Now.field) /\ Now.mode = "QUOTED_FIELD"
      /\ Now.field \in Field
      /\ At(offset) \in Readings /\ Here \in Bytes /\ Here = Byte(offset)
      /\ Here = input[Base + offset + 1] /\ Base + offset + 1 \in 1..Len(input)
      /\ At(offset + 1) = ShapedByte(At(offset), Here)
      /\ Newline = IF Here = "lf" THEN 1 ELSE 0
  BY <1>1, HandlerReads
<1>3. Regular => /\ Reported(events, At(offset)) /\ Now.error = "OK"
                 /\ Held(Now, At(offset), offset, pc = "fall")
  BY <1>1, HandlerReads
<1>4. Regular => At(offset).at = "quoted" /\ InQuotes(Now, At(offset), offset)
  BY <1>2, <1>3 DEF Held
<1>5. offset + 1 \in offset..Len(chunk) /\ offset \in offset..Len(chunk)
  BY <1>2
<1>6. Now.doubled = s.doubled
  <2>1. s \in Stream
    BY DEF Inv, Typed
  <2> QED BY <2>1 DEF Now, Counted, Stream
<1> QED BY <1>1, <1>2, <1>3, <1>4, <1>5, <1>6

LEMMA QuotedTooLongMatches ==
  ASSUME PlainDialect, Inv, Inv', Matches, QuotedTooLong, UNCHANGED <<input, finished>>
  PROVE  Matches'
<1>1. Handling("QUOTED_FIELD") /\ Fails(Now, "LIMIT")
  BY DEF QuotedTooLong
<1>2. Now \in Stream /\ pc # "idle"
  BY <1>1, HandlerFinds
<1> QED BY <1>1, <1>2, LimitMatches

\* A delimiter or newline in a field with a doubled quote: one of the two
\* shapes CsvText reads otherwise.
LEMMA QuoteThenEndIsOdd ==
  ASSUME NEW r \in Readings, NEW b \in {"delim", "lf"}, r.at = "quoted", HasQuote(r.cur)
  PROVE  Odd(ShapedByte(r, b))
<1>1. b \in Bytes
  BY ByteFacts DEF Bytes
<1>2. QuoteThenEnd(r, b)
  BY DEF QuoteThenEnd, HasQuote
<1> QED BY <1>1, <1>2, ShapedByteProperties DEF Odd

LEMMA QuotedEndsAfterDoubledMatches ==
  ASSUME PlainDialect, Inv, Inv', Matches, QuotedEndsAfterDoubled, UNCHANGED <<input, finished>>
  PROVE  Matches'
<1>1. /\ Handling("QUOTED_FIELD") /\ s.doubled /\ (Here = "delim" \/ Newline > 0)
      /\ IF Here = "delim" THEN EndsField(Now, offset)
         ELSE EndsRecord(PastNewline(Now, Newline), offset + Newline)
  BY DEF QuotedEndsAfterDoubled, Quoted, EndsAfterDoubled
<1>2. /\ "QUOTED_FIELD" \in Modes \ {"END"} /\ offset \in offset..Len(chunk)
      /\ offset < Len(chunk) /\ Here = Byte(offset) /\ Now \in Stream /\ Points(Now.field)
      /\ Newline = (IF Here = "lf" THEN 1 ELSE 0) /\ At(offset) \in Readings
      /\ At(offset + 1) = ShapedByte(At(offset), Here) /\ Now.doubled = s.doubled
      /\ Regular => At(offset).at = "quoted" /\ InQuotes(Now, At(offset), offset)
  BY <1>1, QuotedReads
<1>3. Here \in {"delim", "lf"}
  BY <1>1, <1>2
<1>4. Regular => Odd(At(offset + 1))
  <2>1. Regular => HasQuote(At(offset).cur)
    BY <1>1, <1>2 DEF InQuotes
  <2> QED BY <1>2, <1>3, <2>1, QuoteThenEndIsOdd
<1>5. CASE Here = "delim"
  BY <1>1, <1>2, <1>4, <1>5, HandlerEndsField
<1>6. CASE Here # "delim"
  <2>1. Here = "lf" /\ Newline = 1
    BY <1>2, <1>3, <1>6
  <2>2. PICK t \in Stream : t = PastNewline(Now, 1) /\ t.error = Now.error /\ t.field = Now.field
    BY <1>2, AdvanceProperties DEF SameButCounts, SameRecord
  <2>3. EndsRecord(t, offset + 1)
    BY <1>1, <1>6, <2>1, <2>2
  <2> QED BY <1>1, <1>2, <1>4, <2>1, <2>2, <2>3, HandlerEndsRecord
<1> QED BY <1>5, <1>6

LEMMA QuotedBackslashMatches ==
  ASSUME PlainDialect, QuotedBackslash
  PROVE  FALSE
<1>1. Escape = "backslash" /\ Escape = "doubled"
  BY DEF QuotedBackslash, Quoted, PlainDialect
<1> QED BY <1>1

\* The field is the same, or a copy of it.
LEMMA InQuotesCopied ==
  ASSUME NEW t, NEW u, NEW m, NEW p, InQuotes(t, m, p),
         Raw(u.field) = Raw(t.field), u.field.quoted = t.field.quoted, u.doubled = t.doubled,
         u.field = t.field \/ u.field.buffered
  PROVE  InQuotes(u, m, p)
BY DEF InQuotes, Copyable, Placed

LEMMA QuotedQuoteMatches ==
  ASSUME PlainDialect, Inv, Inv', Matches, QuotedQuote, UNCHANGED <<input, finished>>
  PROVE  Matches'
<1>1. Handling("QUOTED_FIELD") /\ Here = "quote"
  BY DEF QuotedQuote, Quoted
<1>2. /\ "QUOTED_FIELD" \in Modes \ {"END"} /\ offset \in Nat /\ pc # "idle" /\ ControlOK /\ Fed
      /\ offset + 1 \in offset..Len(chunk) /\ offset < Len(chunk) /\ Len(chunk) \in Nat
      /\ Now \in Stream /\ Now.field \in Field /\ Points(Now.field)
      /\ At(offset) \in Readings /\ Here \in Bytes
      /\ At(offset + 1) = ShapedByte(At(offset), Here)
      /\ Regular => /\ Reported(events, At(offset)) /\ Now.error = "OK"
                    /\ At(offset).at = "quoted" /\ InQuotes(Now, At(offset), offset)
  BY <1>1, QuotedReads
<1>3. PICK m \in Readings : m = At(offset)
  BY <1>2
<1>4. PICK q : q = At(offset + 1)
  OBVIOUS
<1>5. Regular => q.at = "closed" /\ q.cur = m.cur /\ q.rows = m.rows /\ q.row = m.row
  <2>1. Regular => ReadByte(m, Here) = [m EXCEPT !.at = "closed"]
    BY <1>1, <1>2, <1>3 DEF ReadByte, ReadInside
  <2>2. "closed" \in Places
    BY DEF Places
  <2> QED BY <1>2, <1>3, <1>4, <2>1, <2>2, ReadsPlace
<1>6. PICK a \in Stream : /\ a = [Now EXCEPT !.mode = "QUOTE_IN_QUOTED"] /\ SameRecord(Now, a)
                          /\ a.mode = "QUOTE_IN_QUOTED" /\ a.field = Now.field
                          /\ a.doubled = Now.doubled
  <2>1. "QUOTE_IN_QUOTED" \in Modes
    BY QuotedAreWithin
  <2>2. [Now EXCEPT !.mode = "QUOTE_IN_QUOTED"].doubled = Now.doubled
    BY <1>2 DEF Stream
  <2> QED BY <1>2, <2>1, <2>2, ModeEdit
<1>7. PICK t \in Stream : /\ t = Advance(a, 1) /\ t.mode = "QUOTE_IN_QUOTED"
                          /\ t.field = Now.field /\ t.error = Now.error /\ t.doubled = Now.doubled
  <2>1. Advance(a, 1) \in Stream /\ SameButCounts(a, Advance(a, 1))
    BY AdvanceProperties
  <2>2. Advance(a, 1).doubled = a.doubled
    BY DEF Advance, Stream
  <2> QED BY <1>6, <2>1, <2>2 DEF SameButCounts, SameRecord
<1>8. IF offset + 1 < Len(chunk)
      THEN Goes([t EXCEPT !.atBoundary = FALSE], offset + 1)
      ELSE Buffers(t, [t EXCEPT !.field = EnsureFieldBuffered(@, offset),
                                !.atBoundary = TRUE], offset + 1)
  BY <1>6, <1>7 DEF QuotedQuote
<1>9. ASSUME NEW u \in Stream, u.mode = "QUOTE_IN_QUOTED", u.error = Now.error,
             u.doubled = Now.doubled, u.field.quoted = Now.field.quoted,
             u.field = Now.field \/ u.field.buffered,
             Regular => Raw(u.field) = Raw(Now.field)
      PROVE  Leaves(u, offset + 1)
  <2>1. (offset + 1) - 1 = offset
    BY <1>2
  <2>2. Regular => InQuotes(u, m, offset)
    BY <1>2, <1>3, <1>9, InQuotesCopied
  <2>3. Regular => InQuotes(u, q, (offset + 1) - 1)
    BY <1>5, <2>1, <2>2 DEF InQuotes
  <2>4. Regular => Held(u, q, offset + 1, FALSE)
    BY <1>5, <1>9, <2>3 DEF Held
  <2>5. Regular => Reported(events, q)
    BY <1>2, <1>3, <1>5, SameReport
  <2> QED BY <1>4, <1>9, <2>4, <2>5 DEF Leaves
<1>10. CASE offset + 1 < Len(chunk)
  <2>1. PICK u \in Stream : /\ u = [t EXCEPT !.atBoundary = FALSE] /\ u.mode = t.mode
                            /\ u.field = t.field /\ u.error = t.error /\ u.doubled = t.doubled
    <3>1. [t EXCEPT !.atBoundary = FALSE].doubled = t.doubled
      BY DEF Stream
    <3>2. FALSE \in BOOLEAN
      OBVIOUS
    <3> QED BY <3>1, <3>2, FlagEdit DEF SameButCounts, SameRecord
  <2>2. Leaves(u, offset + 1)
    BY <1>7, <1>9, <2>1
  <2>3. Goes(u, offset + 1)
    BY <1>8, <1>10, <2>1
  <2> QED BY <1>1, <1>2, <2>2, <2>3, HandlerGoes
<1>11. CASE ~(offset + 1 < Len(chunk))
  <2>1. PICK g \in Field : g = EnsureFieldBuffered(Now.field, offset) /\ g.buffered
    <3>1. offset \in Int /\ offset <= Len(chunk)
      BY <1>2
    <3> QED BY <1>2, <3>1, EnsureFieldBufferedProperties
  <2>2. g.quoted = Now.field.quoted
    BY <1>2, <2>1 DEF EnsureFieldBuffered, Store, Field
  <2>3. Regular => Raw(g) = Raw(Now.field)
    <3>1. offset \in Int /\ offset <= Len(chunk)
      BY <1>2
    <3>2. Regular => Copyable(Now.field) /\ Placed(Now.field, offset)
      BY <1>2 DEF InQuotes
    <3> QED BY <1>2, <2>1, <3>1, <3>2, CopyIsField
  <2>4. PICK c \in Stream : /\ c = [t EXCEPT !.field = g] /\ c.error = t.error
                            /\ c.field = g /\ c.mode = t.mode /\ c.doubled = t.doubled
    <3>1. [t EXCEPT !.field = g].doubled = t.doubled
      BY DEF Stream
    <3> QED BY <3>1, FieldEdit DEF SameRecord
  <2>5. PICK u \in Stream : /\ u = [c EXCEPT !.atBoundary = TRUE] /\ u.mode = c.mode
                            /\ u.field = c.field /\ u.error = c.error /\ u.doubled = c.doubled
    <3>1. [c EXCEPT !.atBoundary = TRUE].doubled = c.doubled
      BY DEF Stream
    <3>2. TRUE \in BOOLEAN
      OBVIOUS
    <3> QED BY <3>1, <3>2, FlagEdit DEF SameButCounts, SameRecord
  <2>6. Buffers(t, u, offset + 1)
    BY <1>7, <1>8, <1>11, <2>1, <2>4, <2>5
  <2>7. Leaves(u, offset + 1)
    BY <1>7, <1>9, <2>1, <2>2, <2>3, <2>4, <2>5, ZenonT(30)
  <2> QED BY <1>1, <1>2, <2>6, <2>7, HandlerBuffers
<1> QED BY <1>10, <1>11

\* A field in quotes grows by a byte that is no quote.
LEMMA HereIsPart ==
  ASSUME PlainDialect, Inv, Matches, Handling("QUOTED_FIELD")
  PROVE  /\ SubSeq(input, Base + offset + 1, Base + (offset + 1)) = <<Here>>
         /\ SubSeq(chunk, offset + 1, offset + 1) = <<Here>>
<1>1. /\ ControlOK /\ offset \in Nat /\ offset < Len(chunk) /\ Fed /\ Base \in Nat
      /\ Len(chunk) \in Nat
  BY QuotedReads
<1>2. SubSeq(chunk, offset + 1, offset + 1) = <<Here>>
  BY <1>1, ChunkHere
<1>3. SubSeq(chunk, offset + 1, offset + 1) = SubSeq(input, Base + offset + 1, Base + (offset + 1))
  <2>1. offset \in 0..Len(chunk) /\ offset + 1 \in Int /\ offset + 1 <= Len(chunk)
    BY <1>1
  <2> QED BY <1>1, <2>1, ChunkPart
<1> QED BY <1>2, <1>3

LEMMA QuotedGrows ==
  ASSUME PlainDialect, Inv, Matches, Handling("QUOTED_FIELD"), Regular, Here # "quote",
         NEW f, f = Extended(Now.field, 1),
         NEW cur, cur = Append(At(offset).cur, Here)
  PROVE  /\ Halved(Raw(f)) = [out |-> cur, half |-> FALSE] /\ f.quoted
         /\ Now.doubled => HasQuote(cur)
         /\ Copyable(f) /\ Placed(f, offset + 1)
<1>1. /\ ControlOK /\ Fed /\ Points(Now.field) /\ Now.field \in Field /\ offset \in Nat
      /\ offset + 1 <= Len(chunk) /\ Here \in Bytes /\ At(offset) \in Readings
      /\ InQuotes(Now, At(offset), offset)
  BY QuotedReads
<1>2. /\ Now.field.quoted /\ Halved(Raw(Now.field)) = [out |-> At(offset).cur, half |-> FALSE]
      /\ Now.doubled => HasQuote(At(offset).cur)
      /\ Copyable(Now.field) /\ Placed(Now.field, offset)
  BY <1>1 DEF InQuotes
<1>3. /\ Raw(f) = Raw(Now.field) \o SubSeq(input, Base + offset + 1, Base + (offset + 1))
      /\ f.quoted = Now.field.quoted /\ Placed(f, offset + 1)
  BY <1>1, <1>2, ExtendedIsField
<1>4. PICK raw \in Seq(Codes) : raw = Raw(Now.field)
  BY <1>1, RawProperties
<1>5. Here \in Codes
  BY <1>1, ByteFacts
<1>6. Raw(f) = Append(raw, Here)
  BY <1>3, <1>4, <1>5, HereIsPart, AppendIsConcat
<1>7. Halved(Raw(f)) = [out |-> cur, half |-> FALSE]
  BY <1>2, <1>4, <1>5, <1>6, HalvedByte
<1>8. Now.doubled => HasQuote(cur)
  <2>1. At(offset).cur \in Seq(Codes)
    BY <1>1 DEF Readings
  <2> QED BY <1>2, <1>5, <2>1, HasQuoteMore
<1>9. Copyable(f)
  <2>1. ASSUME ~f.buffered PROVE f.start # NoOffset /\ f.at = Base + f.start
    <3>1. ~Now.field.buffered
      BY <1>1, <2>1 DEF Extended, Append2, Store, Field
    <3>2. PICK n : n = Now.field.len + 1
      OBVIOUS
    <3>3. f = [Now.field EXCEPT !.len = n]
      BY <3>1, <3>2 DEF Extended
    <3>4. f.start = Now.field.start /\ f.at = Now.field.at
      BY <1>1, <3>3 DEF Field
    <3> QED BY <1>2, <3>1, <3>4 DEF Copyable
  <2> QED BY <2>1 DEF Copyable
<1> QED BY <1>2, <1>3, <1>7, <1>8, <1>9

LEMMA QuotedByteMatches ==
  ASSUME PlainDialect, Inv, Inv', Matches, QuotedByte, UNCHANGED <<input, finished>>
  PROVE  Matches'
<1>1. Handling("QUOTED_FIELD") /\ Here # "quote"
  BY DEF QuotedByte, Quoted
<1>2. /\ "QUOTED_FIELD" \in Modes \ {"END"} /\ offset \in Nat /\ pc # "idle" /\ ControlOK /\ Fed
      /\ offset + 1 \in offset..Len(chunk) /\ offset < Len(chunk) /\ Len(chunk) \in Nat
      /\ Now \in Stream /\ Now.field \in Field /\ Points(Now.field) /\ Now.mode = "QUOTED_FIELD"
      /\ At(offset) \in Readings /\ Here \in Bytes
      /\ At(offset + 1) = ShapedByte(At(offset), Here)
      /\ Regular => /\ Reported(events, At(offset)) /\ Now.error = "OK"
                    /\ At(offset).at = "quoted"
  BY <1>1, QuotedReads
<1>3. PICK m \in Readings : m = At(offset)
  BY <1>2
<1>4. PICK q : q = At(offset + 1)
  OBVIOUS
<1>5. Regular => q.at = "quoted" /\ q.cur = Append(m.cur, Here) /\ q.rows = m.rows /\ q.row = m.row
  <2>1. Escape # "backslash"
    BY DEF PlainDialect
  <2>2. Regular => ReadByte(m, Here) = AddByte(m, Here, "quoted")
    BY <1>1, <1>2, <1>3, <2>1 DEF ReadByte, ReadInside
  <2>3. "quoted" \in Places
    BY DEF Places
  <2> QED BY <1>2, <1>3, <1>4, <2>2, <2>3, ReadsByte
<1>6. PICK f \in Field : f = Extended(Now.field, 1)
  <2>1. offset + 1 <= Len(chunk) /\ 1 \in Nat
    BY <1>2
  <2> QED BY <1>2, <2>1, ExtendedProperties
<1>7. Regular => /\ Halved(Raw(f)) = [out |-> q.cur, half |-> FALSE] /\ f.quoted
                 /\ Now.doubled => HasQuote(q.cur)
                 /\ Copyable(f) /\ Placed(f, offset + 1)
  BY <1>1, <1>3, <1>5, <1>6, QuotedGrows
<1>8. PICK a \in Stream : /\ a = [Now EXCEPT !.field = f] /\ a.error = Now.error
                          /\ a.field = f /\ a.mode = "QUOTED_FIELD" /\ a.doubled = Now.doubled
  <2>1. [Now EXCEPT !.field = f].doubled = Now.doubled
    BY <1>2 DEF Stream
  <2> QED BY <1>2, <2>1, FieldEdit DEF SameRecord
<1>9. PICK t \in Stream : /\ t = Advance(a, 1) /\ t.mode = "QUOTED_FIELD"
                          /\ t.field = f /\ t.error = Now.error /\ t.doubled = Now.doubled
  <2>1. Advance(a, 1) \in Stream /\ SameButCounts(a, Advance(a, 1))
    BY AdvanceProperties
  <2>2. Advance(a, 1).doubled = a.doubled
    BY DEF Advance, Stream
  <2> QED BY <1>8, <2>1, <2>2 DEF SameButCounts, SameRecord
<1>10. \/ Goes(IF offset + 1 = Len(chunk) THEN [t EXCEPT !.field = EnsureFieldBuffered(f, offset + 1)]
               ELSE t, offset + 1)
       \/ Starved(Now)
       \/ Starved(t)
  <2>1. f = IF Now.field.buffered THEN Append2(Now.field, <<Here>>)
            ELSE [Now.field EXCEPT !.len = @ + 1]
    BY <1>1, <1>6, HereIsPart DEF Extended
  <2> QED BY <1>8, <1>9, <2>1 DEF QuotedByte
<1>11. ASSUME NEW u \in Stream, u.mode = "QUOTED_FIELD", u.error = Now.error,
              u.doubled = Now.doubled, u.field.quoted = f.quoted,
              u.field = f \/ u.field.buffered,
              Regular => Raw(u.field) = Raw(f)
       PROVE  Leaves(u, offset + 1)
  <2>1. Regular => InQuotes(t, q, offset + 1)
    BY <1>7, <1>9 DEF InQuotes
  <2>2. Regular => InQuotes(u, q, offset + 1)
    BY <1>9, <1>11, <2>1, InQuotesCopied
  <2>3. Regular => Held(u, q, offset + 1, FALSE)
    BY <1>5, <1>11, <2>2 DEF Held
  <2>4. Regular => Reported(events, q)
    BY <1>2, <1>3, <1>5, SameReport
  <2> QED BY <1>4, <1>11, <2>3, <2>4 DEF Leaves
<1>12. CASE offset + 1 = Len(chunk) /\ Goes([t EXCEPT !.field = EnsureFieldBuffered(f, offset + 1)], offset + 1)
  <2>1. offset + 1 \in Int /\ offset + 1 <= Len(chunk)
    BY <1>2
  <2>2. PICK g \in Field : g = EnsureFieldBuffered(f, offset + 1) /\ g.buffered
    BY <1>2, <2>1, EnsureFieldBufferedProperties
  <2>3. g.quoted = f.quoted
    BY <2>2 DEF EnsureFieldBuffered, Store, Field
  <2>4. Regular => Raw(g) = Raw(f)
    BY <1>2, <1>7, <2>1, <2>2, CopyIsField
  <2>5. PICK u \in Stream : /\ u = [t EXCEPT !.field = g] /\ u.error = t.error
                            /\ u.field = g /\ u.mode = t.mode /\ u.doubled = t.doubled
    <3>1. [t EXCEPT !.field = g].doubled = t.doubled
      BY DEF Stream
    <3> QED BY <3>1, FieldEdit DEF SameRecord
  <2>6. Leaves(u, offset + 1)
    BY <1>9, <1>11, <2>2, <2>3, <2>4, <2>5
  <2>7. Goes(u, offset + 1)
    BY <1>12, <2>2, <2>5
  <2> QED BY <1>1, <1>2, <2>6, <2>7, HandlerGoes
<1>13. CASE Goes(t, offset + 1)
  <2>1. Leaves(t, offset + 1)
    BY <1>9, <1>11
  <2> QED BY <1>1, <1>2, <1>13, <2>1, HandlerGoes
<1>14. CASE Starved(Now) \/ Starved(t)
  BY <1>2, <1>14, AbortMatches
<1> QED BY <1>10, <1>12, <1>13, <1>14

-----------------------------------------------------------------------------
(* The byte after a quote, and the one after a backslash.                  *)

\* What the handlers of QUOTE_IN_QUOTED find of the text: the field is read
\* up to the quote.
LEMMA QuoteReads ==
  ASSUME PlainDialect, Inv, Matches, Handling("QUOTE_IN_QUOTED")
  PROVE  /\ "QUOTE_IN_QUOTED" \in Modes \ {"END"} /\ pc # "idle" /\ offset \in Nat
         /\ offset + 1 \in offset..Len(chunk) /\ offset \in offset..Len(chunk)
         /\ offset + 1 \in (offset + 1)..Len(chunk)
         /\ offset < Len(chunk) /\ offset - 1 \in Int /\ offset - 1 <= Len(chunk)
         /\ ControlOK /\ Fed /\ Now \in Stream /\ Now.field \in Field /\ Points(Now.field)
         /\ At(offset) \in Readings /\ Here \in Bytes /\ Here = Byte(offset) /\ Here # "cr"
         /\ At(offset + 1) = ShapedByte(At(offset), Here)
         /\ Newline = IF Here = "lf" THEN 1 ELSE 0
         /\ Regular => /\ Reported(events, At(offset)) /\ Now.error = "OK"
                       /\ At(offset).at = "closed" /\ InQuotes(Now, At(offset), offset - 1)
<1>1. "QUOTE_IN_QUOTED" \in Modes \ {"END"}
  BY DEF Modes, FieldModes
<1>2. /\ pc # "idle" /\ offset \in Nat /\ offset + 1 \in 0..Len(chunk)
      /\ offset < Len(chunk) /\ offset \in 0..Len(chunk) /\ Len(chunk) \in Nat
      /\ ControlOK /\ Fed /\ Now \in Stream /\ Points(Now.field) /\ Now.mode = "QUOTE_IN_QUOTED"
      /\ Now.field \in Field
      /\ At(offset) \in Readings /\ Here \in Bytes /\ Here = Byte(offset) /\ Here # "cr"
      /\ At(offset + 1) = ShapedByte(At(offset), Here)
      /\ Newline = IF Here = "lf" THEN 1 ELSE 0
  BY <1>1, HandlerReads
<1>3. Regular => /\ Reported(events, At(offset)) /\ Now.error = "OK"
                 /\ Held(Now, At(offset), offset, pc = "fall")
  BY <1>1, HandlerReads
<1>4. Regular => At(offset).at = "closed" /\ InQuotes(Now, At(offset), offset - 1)
  BY <1>2, <1>3 DEF Held
<1>5. /\ offset + 1 \in offset..Len(chunk) /\ offset \in offset..Len(chunk)
      /\ offset + 1 \in (offset + 1)..Len(chunk) /\ offset - 1 \in Int /\ offset - 1 <= Len(chunk)
  BY <1>2
<1> QED BY <1>1, <1>2, <1>3, <1>4, <1>5

\* The field as it is buffered up to the quote.
LEMMA BeforeQuoteReads ==
  ASSUME PlainDialect, Inv, Matches, Handling("QUOTE_IN_QUOTED"),
         NEW f, f = EnsureFieldBuffered(Now.field, offset - 1)
  PROVE  /\ f \in Field /\ f.buffered /\ Points(f)
         /\ Regular => /\ Halved(Raw(f)) = [out |-> At(offset).cur, half |-> FALSE] /\ f.quoted
                       /\ Content(f) = At(offset).cur
<1>1. f \in Field /\ f.buffered /\ Points(f)
  BY CopiedBeforeQuote
<1>2. ASSUME Regular
      PROVE  /\ Halved(Raw(f)) = [out |-> At(offset).cur, half |-> FALSE] /\ f.quoted
             /\ Content(f) = At(offset).cur
  <2>1. /\ ControlOK /\ Fed /\ Now.field \in Field /\ offset - 1 \in Int /\ offset - 1 <= Len(chunk)
        /\ InQuotes(Now, At(offset), offset - 1)
    BY <1>2, QuoteReads
  <2>2. /\ Copyable(Now.field) /\ Placed(Now.field, offset - 1) /\ Now.field.quoted
        /\ Halved(Raw(Now.field)) = [out |-> At(offset).cur, half |-> FALSE]
    BY <2>1 DEF InQuotes
  <2>3. Raw(f) = Raw(Now.field) /\ f.quoted = Now.field.quoted
    BY <2>1, <2>2, CopyIsField
  <2> QED BY <2>2, <2>3, ContentInQuotes
<1> QED BY <1>1, <1>2

LEMMA DoubledQuoteMatches ==
  ASSUME PlainDialect, Inv, Inv', Matches, DoubledQuote, UNCHANGED <<input, finished>>
  PROVE  Matches'
<1>1. Handling("QUOTE_IN_QUOTED") /\ Here = "quote"
  BY DEF DoubledQuote, AfterQuote
<1>2. /\ "QUOTE_IN_QUOTED" \in Modes \ {"END"} /\ pc # "idle" /\ ControlOK
      /\ offset + 1 \in offset..Len(chunk) /\ Now \in Stream
      /\ At(offset) \in Readings /\ Here \in Bytes
      /\ At(offset + 1) = ShapedByte(At(offset), Here)
      /\ Regular => Reported(events, At(offset)) /\ At(offset).at = "closed"
  BY <1>1, QuoteReads
<1>3. PICK m \in Readings : m = At(offset)
  BY <1>2
<1>4. PICK q : q = At(offset + 1)
  OBVIOUS
<1>5. Regular => q.at = "quoted" /\ q.cur = Append(m.cur, "quote") /\ q.rows = m.rows /\ q.row = m.row
  <2>1. Escape = "doubled"
    BY DEF PlainDialect
  <2>2. Regular => ReadByte(m, Here) = AddByte(m, Here, "quoted")
    BY <1>1, <1>2, <1>3, <2>1 DEF ReadByte, ReadClosed
  <2>3. "quoted" \in Places
    BY DEF Places
  <2> QED BY <1>1, <1>2, <1>3, <1>4, <2>2, <2>3, ReadsByte
<1>6. PICK f \in Field : /\ f = EnsureFieldBuffered(Now.field, offset - 1) /\ Points(f)
                         /\ Regular => /\ Halved(Raw(f)) = [out |-> m.cur, half |-> FALSE]
                                       /\ f.quoted
  BY <1>1, <1>3, BeforeQuoteReads
<1>7. \/ Goes(Advance([Now EXCEPT !.field = Append2(f, BothQuotes),
                                  !.mode = "QUOTED_FIELD", !.doubled = TRUE,
                                  !.atBoundary = FALSE], 1), offset + 1)
      \/ \E k \in 0..1 : Starved([Now EXCEPT !.field = Append2(f, SubSeq(BothQuotes, 1, k))])
      \/ Starved(Now)
  BY <1>6 DEF DoubledQuote
<1>8. CASE Goes(Advance([Now EXCEPT !.field = Append2(f, BothQuotes),
                                    !.mode = "QUOTED_FIELD", !.doubled = TRUE,
                                    !.atBoundary = FALSE], 1), offset + 1)
  <2>1. PICK g \in Field : /\ g = Append2(f, BothQuotes) /\ g.quoted = f.quoted /\ g.buffered
    BY <1>2, <1>6, BothQuotesAreBytes, Append2Properties DEF SamePlace
  <2>2. Raw(g) = Raw(f) \o BothQuotes
    BY <1>6, <2>1, RawStored DEF Append2
  <2>3. Regular => Halved(Raw(g)) = [out |-> q.cur, half |-> FALSE]
    <3>1. PICK raw \in Seq(Codes) : raw = Raw(f)
      BY <1>2, <1>6, RawProperties
    <3>2. Regular => Halved(raw \o BothQuotes) = [out |-> Append(m.cur, "quote"), half |-> FALSE]
      BY <1>6, <3>1, HalvedQuotes
    <3> QED BY <1>5, <2>2, <3>1, <3>2
  <2>4. Regular => HasQuote(q.cur)
    <3>1. m.cur \in Seq(Codes) /\ "quote" \in Codes
      BY ByteFacts DEF Readings
    <3>2. HasQuote(Append(m.cur, "quote"))
      BY <3>1, HasQuoteMore
    <3> QED BY <1>5, <3>2
  <2>5. PICK a \in Stream : a = [Now EXCEPT !.field = g] /\ a.error = Now.error /\ a.field = g
    BY <1>2, FieldEdit DEF SameRecord
  <2>6. PICK b \in Stream : /\ b = [a EXCEPT !.mode = "QUOTED_FIELD"] /\ SameRecord(a, b)
                            /\ b.mode = "QUOTED_FIELD" /\ b.field = a.field
    BY ZenonT(60), ModeEdit, QuotedAreWithin
  <2>7. PICK c \in Stream : c = [b EXCEPT !.doubled = TRUE] /\ SameButCounts(b, c)
    BY FlagEdit
  <2>8. PICK d \in Stream : d = [c EXCEPT !.atBoundary = FALSE] /\ SameButCounts(c, d)
    BY FlagEdit
  <2>9. PICK u \in Stream : u = Advance(d, 1) /\ SameButCounts(d, u)
    BY AdvanceProperties
  <2>10. d = [Now EXCEPT !.field = g, !.mode = "QUOTED_FIELD", !.doubled = TRUE,
                         !.atBoundary = FALSE]
    BY <2>5, <2>6, <2>7, <2>8
  <2>11. Goes(u, offset + 1)
    BY <1>8, <2>1, <2>9, <2>10
  <2>12. u.error = Now.error /\ u.mode = "QUOTED_FIELD" /\ u.field = g
    BY <2>5, <2>6, <2>7, <2>8, <2>9 DEF SameButCounts, SameRecord
  <2>13. Regular => InQuotes(u, q, offset + 1)
    BY <1>6, <2>1, <2>3, <2>4, <2>12 DEF InQuotes, Copyable, Placed
  <2>14. Regular => Held(u, q, offset + 1, FALSE)
    BY <1>5, <2>12, <2>13 DEF Held
  <2>15. Regular => Reported(events, q)
    BY <1>2, <1>3, <1>5, SameReport
  <2>16. Leaves(u, offset + 1)
    BY <1>4, <2>12, <2>14, <2>15 DEF Leaves
  <2> QED BY <1>1, <1>2, <2>11, <2>16, HandlerGoes
<1>9. ASSUME NEW k \in 0..1,
             Starved([Now EXCEPT !.field = Append2(f, SubSeq(BothQuotes, 1, k))])
      PROVE  Matches'
  <2>1. SubSeq(BothQuotes, 1, k) \in Seq(Codes)
    <3>1. 1 \in Nat \ {0} /\ k \in Int /\ k <= Len(BothQuotes)
      BY BothQuotesAreBytes
    <3> QED BY <3>1, BothQuotesAreBytes, PartOfBytes
  <2>2. PICK g \in Field : g = Append2(f, SubSeq(BothQuotes, 1, k))
    BY <1>2, <1>6, <2>1, Append2Properties
  <2>3. PICK u \in Stream : u = [Now EXCEPT !.field = g]
    BY <1>2, FieldEdit
  <2>4. Starved(u)
    BY <1>9, <2>2, <2>3
  <2> QED BY <1>2, <2>4, AbortMatches
<1>10. CASE Starved(Now)
  BY <1>2, <1>10, AbortMatches
<1> QED BY <1>7, <1>8, <1>9, <1>10

\* The quote before a delimiter or a newline closed the field.
LEMMA QuoteCloses ==
  ASSUME PlainDialect, Inv, Matches, Handling("QUOTE_IN_QUOTED"),
         NEW t, t.error = Now.error, t.field = EnsureFieldBuffered(Now.field, offset - 1)
  PROVE  Regular => Closing(t, offset)
<1>1. Regular => Content(t.field) = At(offset).cur
  BY BeforeQuoteReads
<1>2. Regular => Reported(events, At(offset)) /\ Now.error = "OK" /\ At(offset).at = "closed"
  BY QuoteReads
<1> QED BY <1>1, <1>2 DEF Closing

\* An empty field in quotes: the other shape CsvText reads otherwise.
LEMMA EmptyQuotedIsOdd ==
  ASSUME PlainDialect, Inv, Matches, Handling("QUOTE_IN_QUOTED"), Regular,
         Here # "quote", FieldLen(Now.field) = 0
  PROVE  Odd(At(offset + 1))
<1>1. /\ ControlOK /\ Points(Now.field) /\ At(offset) \in Readings /\ Here \in Bytes
      /\ At(offset + 1) = ShapedByte(At(offset), Here) /\ At(offset).at = "closed"
      /\ InQuotes(Now, At(offset), offset - 1)
  BY QuoteReads
<1>2. Raw(Now.field) = <<>>
  <2>1. PICK raw \in Seq(Codes) : raw = Raw(Now.field) /\ Len(raw) = 0
    BY <1>1, RawProperties
  <2> QED BY <2>1, EmptySeq
<1>3. At(offset).cur = <<>>
  <2>1. [out |-> At(offset).cur, half |-> FALSE] = [out |-> <<>>, half |-> FALSE]
    BY <1>1, <1>2, HalvedNothing DEF InQuotes
  <2> QED BY <2>1
<1>4. EmptyQuoted(At(offset), Here)
  BY <1>1, <1>3 DEF EmptyQuoted
<1> QED BY <1>1, <1>4, ShapedByteProperties DEF Odd

LEMMA ClosesAtDelimiterMatches ==
  ASSUME PlainDialect, Inv, Inv', Matches, ClosesAtDelimiter, UNCHANGED <<input, finished>>
  PROVE  Matches'
<1> DEFINE literal == Now.atBoundary /\ Escape = "doubled" /\ FieldLen(Now.field) = 0
           f == IF literal THEN Store(Now.field, BothQuotes)
                ELSE EnsureFieldBuffered(Now.field, offset - 1)
<1>1. Handling("QUOTE_IN_QUOTED") /\ Here = "delim"
  BY DEF ClosesAtDelimiter, AfterQuote
<1>2. /\ "QUOTE_IN_QUOTED" \in Modes \ {"END"} /\ pc # "idle" /\ ControlOK
      /\ offset \in offset..Len(chunk) /\ offset < Len(chunk) /\ Byte(offset) = "delim"
      /\ Now \in Stream /\ Now.field \in Field /\ Points(Now.field)
  BY <1>1, QuoteReads
<1>3. f \in Field /\ Points(f)
  <2>1. CASE literal
    <3>1. PICK g \in Field : g = Store(Now.field, BothQuotes) /\ SamePlace(Now.field, g)
      BY <1>2, BothQuotesAreBytes, StoreProperties
    <3>2. Points(g)
      BY <1>2, <3>1 DEF Points, SamePlace
    <3> HIDE DEF literal
    <3> QED BY <2>1, <3>1, <3>2
  <2>2. CASE ~literal
    <3>1. PICK g \in Field : g = EnsureFieldBuffered(Now.field, offset - 1) /\ Points(g)
      BY <1>1, BeforeQuoteReads
    <3> HIDE DEF literal
    <3> QED BY <2>2, <3>1
  <2> QED BY <2>1, <2>2
<1>4. Regular /\ ~Odd(At(offset + 1)) => f = EnsureFieldBuffered(Now.field, offset - 1)
  <2>1. Regular /\ ~Odd(At(offset + 1)) => FieldLen(Now.field) # 0
    BY <1>1, EmptyQuotedIsOdd
  <2> QED BY <2>1
<1>5. \/ EndsField([Now EXCEPT !.field = f, !.atBoundary = FALSE], offset)
      \/ Starved([Now EXCEPT !.atBoundary = FALSE])
  BY DEF ClosesAtDelimiter
<1> HIDE DEF f
<1>6. CASE EndsField([Now EXCEPT !.field = f, !.atBoundary = FALSE], offset)
  <2>1. PICK a \in Stream : /\ a = [Now EXCEPT !.field = f] /\ a.error = Now.error
                            /\ a.field = f
    BY <1>2, <1>3, FieldEdit DEF SameRecord
  <2>2. PICK u \in Stream : u = [a EXCEPT !.atBoundary = FALSE] /\ SameButCounts(a, u)
    BY FlagEdit
  <2>3. EndsField(u, offset)
    BY <1>6, <2>1, <2>2
  <2>4. u.error = Now.error /\ u.field = f
    BY <2>1, <2>2 DEF SameButCounts, SameRecord
  <2>5. Regular /\ ~Odd(At(offset + 1)) => Closing(u, offset)
    BY <1>1, <1>4, <2>4, QuoteCloses
  <2> QED BY <1>1, <1>2, <1>3, <2>3, <2>4, <2>5, HandlerEndsField
<1>7. CASE Starved([Now EXCEPT !.atBoundary = FALSE])
  <2>1. PICK u \in Stream : u = [Now EXCEPT !.atBoundary = FALSE]
    BY <1>2, FlagEdit
  <2> QED BY <1>2, <1>7, <2>1, AbortMatches
<1> QED BY <1>5, <1>6, <1>7

LEMMA ClosesAtNewlineMatches ==
  ASSUME PlainDialect, Inv, Inv', Matches, ClosesAtNewline, UNCHANGED <<input, finished>>
  PROVE  Matches'
<1>1. Handling("QUOTE_IN_QUOTED") /\ Newline > 0
  BY DEF ClosesAtNewline, AfterQuote
<1>2. /\ "QUOTE_IN_QUOTED" \in Modes \ {"END"} /\ pc # "idle" /\ ControlOK
      /\ offset \in offset..Len(chunk) /\ offset < Len(chunk) /\ Here = Byte(offset)
      /\ Newline = (IF Here = "lf" THEN 1 ELSE 0) /\ Now \in Stream
  BY <1>1, QuoteReads
<1>3. Byte(offset) = "lf" /\ Newline = 1
  BY <1>1, <1>2
<1>4. PICK f \in Field : f = EnsureFieldBuffered(Now.field, offset - 1) /\ Points(f)
  BY <1>1, BeforeQuoteReads
<1>5. PICK t \in Stream : t = PastNewline(Now, 1) /\ t.error = Now.error /\ t.field = Now.field
  BY <1>2, AdvanceProperties DEF SameButCounts, SameRecord
<1>6. PICK u \in Stream : u = [t EXCEPT !.field = f] /\ u.error = t.error /\ u.field = f
  BY FieldEdit DEF SameRecord
<1>7. EndsRecord(u, offset + 1) \/ Starved(t)
  BY <1>3, <1>4, <1>5, <1>6 DEF ClosesAtNewline
<1>8. CASE EndsRecord(u, offset + 1)
  <2>1. Regular => Closing(u, offset)
    BY <1>1, <1>4, <1>5, <1>6, QuoteCloses
  <2> QED BY <1>1, <1>2, <1>3, <1>4, <1>5, <1>6, <1>8, <2>1, HandlerEndsRecord
<1>9. CASE Starved(t)
  BY <1>2, <1>9, AbortMatches
<1> QED BY <1>7, <1>8, <1>9

LEMMA QuoteBeforeOtherNewlineMatches ==
  ASSUME PlainDialect, Inv, Matches, QuoteBeforeOtherNewline
  PROVE  FALSE
<1>1. Handling("QUOTE_IN_QUOTED") /\ Newline = 0 /\ Here \in {"lf", "cr"}
  BY DEF QuoteBeforeOtherNewline, AfterQuote
<1>2. Here # "cr" /\ Newline = IF Here = "lf" THEN 1 ELSE 0
  BY <1>1, QuoteReads
<1> QED BY <1>1, <1>2

LEMMA QuoteMisplacedMatches ==
  ASSUME PlainDialect, Inv, Inv', Matches, QuoteMisplaced, UNCHANGED <<input, finished>>
  PROVE  Matches'
<1>1. /\ Handling("QUOTE_IN_QUOTED") /\ Here \notin {"delim", "lf", "quote"}
      /\ Fails(Now, "INVALID")
  BY DEF QuoteMisplaced, AfterQuote, PlainDialect
<1>2. /\ "QUOTE_IN_QUOTED" \in Modes \ {"END"} /\ Now \in Stream /\ Here \in Bytes
      /\ offset + 1 \in (offset + 1)..Len(chunk) /\ At(offset) \in Readings
      /\ At(offset + 1) = ShapedByte(At(offset), Here)
      /\ Regular => Reported(events, At(offset)) /\ At(offset).at = "closed"
  BY <1>1, QuoteReads
<1>3. "INVALID" \in ErrorCodes \ {"OK"}
  BY DEF ErrorCodes
<1>4. PICK m \in Readings : m = At(offset)
  BY <1>2
<1>5. PICK q : q = At(offset + 1)
  OBVIOUS
<1>6. Regular => q.at = "bad" /\ q.rows = m.rows /\ q.row = m.row
  <2>1. Regular => ReadByte(m, Here) = [m EXCEPT !.at = "bad"]
    BY <1>1, <1>2, <1>4 DEF ReadByte, ReadClosed
  <2>2. "bad" \in Places
    BY DEF Places
  <2> QED BY <1>2, <1>4, <1>5, <2>1, <2>2, ReadsPlace
<1>7. Regular => Reported(events, q) /\ q.at = "bad"
  BY <1>2, <1>4, <1>6, SameReport
<1> QED BY <1>1, <1>2, <1>3, <1>5, <1>7, HandlerRejects

\* With doubled quotes no field waits for the byte after a backslash, as long
\* as no call failed.
LEMMA NeverEscaped ==
  ASSUME PlainDialect, Inv, Matches, Handling("ESCAPE_IN_QUOTED")
  PROVE  ~Regular
<1>1. "ESCAPE_IN_QUOTED" \in Modes \ {"END"}
  BY DEF Modes
<1>2. Regular => Held(Now, At(offset), offset, pc = "fall") /\ Now.mode = "ESCAPE_IN_QUOTED"
  BY <1>1, HandlerReads
<1> QED BY <1>2 DEF Held

LEMMA EscapeByteMatches ==
  ASSUME PlainDialect, Inv, Inv', Matches, EscapeByte, UNCHANGED <<input, finished>>
  PROVE  Matches'
<1>1. Handling("ESCAPE_IN_QUOTED") /\ "ESCAPE_IN_QUOTED" \in Modes \ {"END"}
  BY DEF EscapeByte, Modes
<1>2. /\ pc # "idle" /\ Now \in Stream /\ ControlOK /\ offset \in Nat
      /\ offset < Len(chunk) /\ Len(chunk) \in Nat /\ ~Regular
  BY <1>1, HandlerReads, NeverEscaped
<1>3. offset + 1 \in offset..Len(chunk) /\ offset + 1 \in Int /\ offset + 1 <= Len(chunk)
  BY <1>2
<1>4. PICK f \in Field : f = Escaped(Now.field)
  BY <1>1, EscapedProperties
<1>5. PICK t \in Stream : /\ t = Advance([Now EXCEPT !.field = f, !.mode = "QUOTED_FIELD"], 1)
                          /\ t.error = Now.error
  <2>1. PICK a \in Stream : /\ a = [Now EXCEPT !.field = f] /\ SameRecord(Now, a)
    BY <1>2, FieldEdit
  <2>2. PICK c \in Stream : /\ c = [a EXCEPT !.mode = "QUOTED_FIELD"] /\ SameRecord(a, c)
    <3>1. "QUOTED_FIELD" \in Modes
      BY QuotedAreWithin
    <3> QED BY <3>1, ModeEdit
  <2>3. Advance(c, 1) \in Stream /\ SameButCounts(c, Advance(c, 1))
    BY AdvanceProperties
  <2>4. c = [Now EXCEPT !.field = f, !.mode = "QUOTED_FIELD"]
    BY <2>1, <2>2
  <2> QED BY <2>1, <2>2, <2>3, <2>4 DEF SameButCounts, SameRecord
<1>6. PICK u \in Stream : u = [t EXCEPT !.field = EnsureFieldBuffered(f, offset + 1)] /\ u.error = t.error
  <2>1. EnsureFieldBuffered(f, offset + 1) \in Field
    BY <1>2, <1>3, EnsureFieldBufferedProperties
  <2> QED BY <2>1, FieldEdit DEF SameRecord
<1>7. PICK v \in Stream : v = [Now EXCEPT !.mode = "QUOTED_FIELD"]
  BY <1>2, ModeEdit, QuotedAreWithin
<1>8. Goes(u, offset + 1) \/ Goes(t, offset + 1) \/ Starved(v) \/ Starved(t)
  BY <1>4, <1>5, <1>6, <1>7 DEF EscapeByte
<1>9. Leaves(u, offset + 1) /\ Leaves(t, offset + 1)
  BY <1>2, <1>5, <1>6 DEF Leaves
<1>10. CASE Goes(u, offset + 1) \/ Goes(t, offset + 1)
  BY <1>1, <1>3, <1>9, <1>10, HandlerGoes
<1>11. CASE Starved(v) \/ Starved(t)
  BY <1>2, <1>11, AbortMatches
<1> QED BY <1>8, <1>10, <1>11

LEMMA EscapeUnknownMatches ==
  ASSUME PlainDialect, Inv, Inv', Matches, EscapeUnknown, UNCHANGED <<input, finished>>
  PROVE  Matches'
<1>1. /\ Handling("ESCAPE_IN_QUOTED") /\ "ESCAPE_IN_QUOTED" \in Modes \ {"END"}
      /\ Fails(Now, "INVALID_ESCAPE")
  BY DEF EscapeUnknown, Modes
<1>2. Now \in Stream /\ offset \in Nat /\ offset < Len(chunk) /\ Len(chunk) \in Nat /\ ~Regular
  BY <1>1, HandlerReads, NeverEscaped
<1>3. offset + 1 \in (offset + 1)..Len(chunk)
  BY <1>2
<1>4. "INVALID_ESCAPE" \in ErrorCodes \ {"OK"}
  BY DEF ErrorCodes
<1> QED BY <1>1, <1>2, <1>3, <1>4, HandlerRejects

-----------------------------------------------------------------------------
(* The loop and the calls.                                                 *)

LEMMA TurnMatches ==
  ASSUME PlainDialect, Inv, Inv', Matches, Turn
  PROVE  Matches'
<1>1. UNCHANGED <<input, finished>>
  BY DEF Turn
<1>2. CASE OnRecord
  BY <1>1, <1>2, LimitExceededMatches, StartOfRecordMatches, CommentMatches DEF OnRecord
<1>3. CASE OnField
  BY <1>1, <1>3, TooManyColumnsMatches, OpenQuoteMatches, EmptyFieldAtDelimiterMatches,
     EmptyFieldAtNewlineMatches, OpenUnquotedMatches DEF OnField
<1>4. CASE OnUnquoted
  BY <1>1, <1>4, UnquotedTooLongMatches, UnquotedDelimiterMatches, UnquotedNewlineMatches,
     UnquotedRejectedMatches, UnquotedBulkMatches DEF OnUnquoted
<1>5. CASE OnQuoted
  BY <1>1, <1>5, QuotedTooLongMatches, QuotedEndsAfterDoubledMatches, QuotedBackslashMatches,
     QuotedQuoteMatches, QuotedByteMatches DEF OnQuoted
<1>6. CASE OnQuote
  BY <1>1, <1>6, DoubledQuoteMatches, ClosesAtDelimiterMatches, ClosesAtNewlineMatches,
     QuoteBeforeOtherNewlineMatches, QuoteMisplacedMatches DEF OnQuote
<1>7. CASE OnEscape
  BY <1>1, <1>7, EscapeByteMatches, EscapeUnknownMatches DEF OnEscape
<1> QED BY <1>2, <1>3, <1>4, <1>5, <1>6, <1>7 DEF Turn

\* No byte order mark is taken from what the caller feeds.
LEMMA FedWhole ==
  ASSUME PlainDialect, NEW data \in Chunks
  PROVE  /\ StripBom(data) = data /\ data \in Seq(Bytes) /\ data # <<>>
         /\ \A i \in 1..Len(data) : data[i] \in Alphabet
<1>1. PICK k \in 1..ChunkBound : data \in [1..k -> Alphabet]
  BY DEF Chunks
<1>2. k \in Nat /\ k >= 1 /\ data \in [1..k -> Bytes]
  BY <1>1, LimitAssumption, DialectAssumption
<1>3. data \in Seq(Bytes) /\ Len(data) = k
  BY <1>2, TupleIsSeq
<1>4. data # <<>>
  BY FedProperties
<1>5. \A i \in 1..Len(data) : data[i] \in Alphabet
  BY <1>1, <1>3
<1>6. ASSUME ~KeepBom, Len(data) >= 3, SubSeq(data, 1, 3) = Bom PROVE FALSE
  <2>1. \A i \in 1..3 : data[i] \in Bytes
    BY <1>2, <1>3, <1>6
  <2>2. 1 \in Int /\ 3 \in Int
    OBVIOUS
  <2>3. PICK part : part = SubSeq(data, 1, 3)
    OBVIOUS
  <2>4. part[1] = data[1]
    <3>1. SubSeq(data, 1, 3) = [i \in 1..3 |-> data[i]]
      BY <1>3, <1>6
    <3> QED BY <2>3, <3>1
  <2>5. data[1] \in Alphabet
    BY <1>2, <1>3, <1>5
  <2> QED BY <1>6, <2>3, <2>4, <2>5 DEF PlainDialect
<1> QED BY <1>3, <1>4, <1>5, <1>6 DEF StripBom

\* The bytes fed are read from where the text fed before ends.
LEMMA FeedMatches ==
  ASSUME PlainDialect, Inv, Inv', Matches, NEW data \in Chunks, Feed(data)
  PROVE  Matches'
<1> DEFINE lost == s.mode = "QUOTE_IN_QUOTED" /\ ~s.field.buffered
           f    == IF lost THEN Store(s.field, <<>>) ELSE s.field
<1>1. /\ data \in Seq(Bytes) /\ data # <<>> /\ StripBom(data) = data
      /\ \A i \in 1..Len(data) : data[i] \in Alphabet
  BY FedWhole
<1>2. /\ pc = "idle" /\ ~finished /\ s' = [s EXCEPT !.field = f]
      /\ input' = input \o data /\ offset' = 0
      /\ events' = events /\ aborted' = aborted /\ finished' = finished
      /\ pc' = "loop" /\ chunk' = data
  BY <1>1 DEF Feed
<1> HIDE DEF f, lost
<1>3. /\ ControlOK /\ chunk = <<>> /\ offset = 0 /\ s \in Stream /\ input \in Seq(Bytes)
      /\ aborted = "no" => Kept(s)
  <2>1. ControlOK /\ chunk = <<>> /\ offset = Len(chunk) /\ s \in Stream
    BY <1>2 DEF Inv, ControlOK, Typed
  <2> QED BY <1>2, <2>1, EmptySeq DEF Inv, ControlOK
<1>4. PICK n \in Nat : n = Len(input)
  BY <1>3, LenProperties
<1>5. PICK d \in Nat : d = Len(data)
  BY <1>1, LenProperties
<1>6. /\ Base + offset = n /\ Base + 0 = n
      /\ Len(input') = n + d /\ Base' = n /\ Base' + 0 = n
  <2>1. Base = n /\ Len(chunk) = 0
    BY <1>3, <1>4, EmptySeq DEF Base
  <2>2. Len(input') = n + d
    BY <1>1, <1>2, <1>3, <1>4, <1>5, ConcatProperties
  <2>3. Base' = Len(input') - Len(data)
    BY <1>2 DEF Base
  <2>4. Base' = n
    BY <1>5, <2>2, <2>3
  <2> QED BY <1>3, <2>1, <2>2, <2>4
<1>7. Fed'
  <2>1. \A i \in 1..n : input'[i] = input[i]
    BY <1>1, <1>2, <1>3, <1>4, ConcatProperties
  <2>2. \A i \in 1..d : input'[n + i] = data[i]
    <3>1. \A i \in 1..d : n + i \in (n + 1)..(n + d)
      BY <1>4, <1>5
    <3>2. \A i \in (n + 1)..(n + d) : input'[i] = data[i - n]
      BY <1>1, <1>2, <1>3, <1>4, <1>5, ConcatProperties
    <3>3. \A i \in 1..d : (n + i) - n = i
      BY <1>4, <1>5
    <3> QED BY <3>1, <3>2, <3>3
  <2>3. \A i \in 1..n : input[i] \in Alphabet
    BY <1>4 DEF Matches, Fed
  <2>4. ASSUME NEW i \in 1..(n + d) PROVE input'[i] \in Alphabet
    <3>1. CASE i <= n
      BY <2>1, <2>3, <2>4, <3>1
    <3>2. CASE ~(i <= n)
      <4>1. PICK j \in 1..d : i = n + j
        <5>1. i - n \in 1..d /\ i = n + (i - n)
          BY <1>4, <1>5, <2>4, <3>2
        <5> QED BY <5>1
      <4> QED BY <1>1, <1>5, <2>2, <4>1
    <3> QED BY <3>1, <3>2
  <2>5. \A q \in 1..Len(data) : data[q] = input'[n + q]
    BY <1>5, <2>2
  <2> QED BY <1>2, <1>6, <2>4, <2>5 DEF Fed
<1>8. PICK m : m = At(offset)
  OBVIOUS
<1>9. At(offset)' = m
  <2>1. n \in 0..Len(input)
    BY <1>4
  <2>2. ReadUpTo(input \o data, n) = ReadUpTo(input, n)
    BY <1>1, <1>3, <2>1, ReadPrefix
  <2>3. At(offset)' = ReadUpTo(input', Base' + offset')
    BY DEF At
  <2>4. m = ReadUpTo(input, n)
    BY <1>6, <1>8 DEF At
  <2> QED BY <1>2, <1>6, <2>2, <2>3, <2>4
<1>10. ASSUME aborted = "no" PROVE s' = s /\ Follow(s, m, events, offset, FALSE)
  <2>1. Kept(s)
    BY <1>3, <1>10
  <2>2. f = s.field
    BY <2>1 DEF Kept, FieldModes, f, lost
  <2>3. s' = s
    BY <1>2, <1>3, <2>2 DEF Stream
  <2> QED BY <1>2, <1>8, <1>10, <2>3 DEF Matches, Follow, Held
<1>11. ASSUME aborted = "no", InLimit(s), s.error = "OK", ~Odd(m)
       PROVE  Held(s, m, offset, FALSE)'
  <2>1. s' = s /\ Held(s, m, offset, FALSE) /\ Kept(s)
    BY <1>3, <1>10, <1>11 DEF Follow
  <2>2. ASSUME s.mode = "UNQUOTED_FIELD"
        PROVE  m.cur = Raw(s.field)' /\ Placed(s.field, offset)'
    <3>1. m.cur = Raw(s.field) /\ Placed(s.field, offset)
      BY <2>1, <2>2 DEF Held
    <3>2. PICK g : g = s.field /\ g \in Field
      BY <1>3, StreamFacts
    <3>3. g.at \in Nat /\ g.len \in Nat
      BY <3>2 DEF Field
    <3>4. PICK e \in Nat : e = g.at + g.len
      BY <3>3
    <3>5. ~g.buffered => e = n
      BY <1>6, <3>1, <3>2, <3>4 DEF Placed
    <3>6. ~g.buffered => SubSeq(input \o data, g.at + 1, e) = SubSeq(input, g.at + 1, e)
      <4> SUFFICES ASSUME e = n
                   PROVE  SubSeq(input \o data, g.at + 1, e) = SubSeq(input, g.at + 1, e)
        BY <3>5
      <4>1. CASE g.len = 0
        <5>1. e < g.at + 1 /\ e \in Int /\ g.at + 1 \in Int
          BY <3>3, <3>4, <4>1
        <5> QED BY <5>1, SubSeqEmpty
      <4>2. CASE g.len # 0
        <5>1. g.at + 1 \in 1..Len(input) /\ e \in 1..Len(input)
          BY <1>4, <3>3, <3>4, <4>2
        <5> QED BY <1>1, <1>3, <5>1, SubSeqOfConcat1
      <4> QED BY <4>1, <4>2
    <3>7. Raw(s.field) = IF g.buffered THEN g.buf ELSE SubSeq(input, g.at + 1, e)
      BY <3>2, <3>4, RawPointed
    <3>8. Raw(s.field)' = IF g.buffered THEN g.buf ELSE SubSeq(input \o data, g.at + 1, e)
      BY <1>2, <2>1, <3>2, <3>4 DEF Raw, Pointed, PlainDialect
    <3>9. Placed(s.field, offset)' <=> (~g.buffered => e = Base' + 0)
      BY <1>2, <2>1, <3>2, <3>4 DEF Placed
    <3> QED BY <1>6, <3>1, <3>5, <3>6, <3>7, <3>8, <3>9
  <2>3. ASSUME s.mode \in {"QUOTED_FIELD", "QUOTE_IN_QUOTED"}
        PROVE  InQuotes(s, m, offset)' /\ InQuotes(s, m, offset - 1)'
    <3>1. s.field.buffered
      BY <2>1, <2>3 DEF Kept, FieldModes
    <3>2. /\ s.field.quoted /\ Halved(Raw(s.field)) = [out |-> m.cur, half |-> FALSE]
          /\ s.doubled => HasQuote(m.cur)
      BY <2>1, <2>3 DEF Held, InQuotes
    <3>3. Raw(s.field)' = Raw(s.field)
      BY <2>1, <3>1 DEF Raw
    <3> QED BY <2>1, <3>1, <3>2, <3>3 DEF InQuotes, Copyable, Placed
  <2> QED BY <2>1, <2>2, <2>3 DEF Held
<1>12. aborted = "no" => Follow(s, m, events, offset, FALSE)'
  <2>1. aborted = "no" => Reported(events, m)' = Reported(events, m)
    BY <1>2 DEF Reported
  <2>2. aborted = "no" => (InLimit(s)' <=> InLimit(s))
    BY <1>10
  <2> QED BY <1>10, <1>11, <2>1, <2>2 DEF Follow
<1>13. (pc = "fall")' = FALSE
  BY <1>2
<1> QED BY <1>2, <1>7, <1>9, <1>12, <1>13 DEF Matches, Follow

\* Where the parser is between calls is where the text is.
LEMMA BetweenCallsAt ==
  ASSUME Inv, pc = "idle"
  PROVE  At(offset) = Shaped(input) /\ s.mode \in Modes
<1>1. /\ ControlOK /\ offset = Len(chunk) /\ input \in Seq(Bytes) /\ s \in Stream
  BY DEF Inv, ControlOK, Typed
<1>2. Base + offset = Len(input)
  BY <1>1, LengthFacts
<1>3. ReadUpTo(input, Len(input)) = Shaped(input)
  BY <1>1, ReadAll
<1>4. s.mode \in Modes
  BY <1>1, StreamFacts
<1> QED BY <1>2, <1>3, <1>4 DEF At

LEMMA HeardIsReported ==
  ASSUME NEW m, Reported(events, m)
  PROVE  Heard.rows = m.rows /\ Heard.row = m.row
BY DEF Reported, HeardIn, Heard, Unheard

LEMMA OneEvent == \A e \in Events : <<e>> \in Seq(Events)
OBVIOUS

\* What finish reports ends the text.
LEMMA LastEventsHeard ==
  ASSUME PlainDialect, Inv, pc = "idle", aborted = "no", s.error = "OK", NEW m,
         Reported(events, m), Held(s, m, offset, FALSE), ~UnterminatedQuote
  PROVE  /\ m.at \in {"record", "comment", "field", "plain"}
         /\ HeardIn(events \o LastEvents).rows = AllRows(m)
<1> DEFINE F == FieldEvent(s)
           R == Event("RECORD_END", s, <<>>)
           E == Event("END", s, <<>>)
<1>1. /\ s \in Stream /\ events \in Seq(Events) /\ Points(s.field) /\ ControlOK
      /\ Told(s, events, FALSE) /\ s.mode \in Modes
  <2>1. /\ ControlOK /\ offset \in 0..Len(chunk) /\ Typed(s, offset)
        /\ events \in Seq(Events) /\ Good(s, offset, events, FALSE)
    BY DEF Inv, ControlOK
  <2> QED BY <2>1, TypedPoints, StreamFacts DEF Good
<1>2. /\ R \in Events /\ R.type = "RECORD_END"
      /\ E \in Events /\ E.type = "END"
      /\ F \in Events /\ F.type = "FIELD" /\ F.data = Content(s.field)
  <2>1. <<>> \in Seq(Codes)
    BY EmptySeq
  <2>2. Content(s.field) \in Seq(Codes)
    BY <1>1, RawProperties
  <2> QED BY <1>1, <2>1, <2>2, EventProperties, ZenonT(30) DEF FieldEvent
<1>3. LastEvents = ((IF s.mode = "UNQUOTED_FIELD" /\ s.inRecord THEN <<F>> ELSE <<>>)
                      \o (IF s.inRecord THEN <<R>> ELSE <<>>)) \o <<E>>
  BY DEF LastEvents
<1> HIDE DEF F, R, E
<1>4. ASSUME NEW evs \in Seq(Events) PROVE HeardIn(evs \o <<E>>) = HeardIn(evs)
  <2>1. evs \o <<E>> = Append(evs, E)
    BY <1>2, AppendIsConcat
  <2>2. PICK r : r = HeardIn(evs)
    OBVIOUS
  <2>3. HeardIn(Append(evs, E)) = HearEvent(r, E)
    BY <1>2, <2>2, HeardMore
  <2>4. HearEvent(r, E) = r
    BY <1>2 DEF HearEvent
  <2> QED BY <2>1, <2>2, <2>3, <2>4
<1>5. CASE s.mode = "UNQUOTED_FIELD"
  <2>1. s.inRecord
    BY <1>1, <1>5 DEF Told, InField
  <2>2. m.at = "plain" /\ m.cur = Content(s.field)
    BY <1>5, ContentPlain DEF Held
  <2>3. LastEvents = (<<F>> \o <<R>>) \o <<E>>
    BY <1>3, <1>5, <2>1
  <2>4. \A e \in Events : <<e>> \in Seq(Events)
    BY OneEvent
  <2> PICK x \in Seq(Events) : x = <<F>>
    BY <1>2, <2>4
  <2> PICK y \in Seq(Events) : y = <<R>>
    BY <1>2, <2>4
  <2> PICK z \in Seq(Events) : z = <<E>>
    BY <1>2, <2>4
  <2>5. events \o ((x \o y) \o z) = ((events \o x) \o y) \o z
    <3>1. x \o y \in Seq(Events)
      BY <2>4, ConcatProperties
    <3>2. events \o ((x \o y) \o z) = (events \o (x \o y)) \o z
      BY <1>1, <2>4, <3>1, ConcatAssociative
    <3>3. events \o (x \o y) = (events \o x) \o y
      BY <1>1, <2>4, ConcatAssociative
    <3> QED BY <3>2, <3>3
  <2>6. (events \o x) \o y = Append(Append(events, F), R)
    <3>1. events \o x = Append(events, F) /\ Append(events, F) \in Seq(Events)
      BY <1>1, <1>2, <2>4, AppendIsConcat, AppendProperties
    <3> QED BY <1>2, <2>4, <3>1, AppendIsConcat
  <2>7. PICK one \in Seq(Events) : one = Append(events, F)
    BY <1>1, <1>2, AppendProperties
  <2>8. PICK row : row = Append(m.row, m.cur)
    OBVIOUS
  <2>9. Reported(one, [rows |-> m.rows, row |-> row])
    <3>1. PICK q : q = [rows |-> m.rows, row |-> row]
      OBVIOUS
    <3>2. q.rows = m.rows /\ q.row = Append(m.row, F.data)
      BY <1>2, <2>2, <2>8, <3>1
    <3> QED BY <1>1, <1>2, <2>7, <3>1, <3>2, HeardField
  <2>10. Reported(Append(one, R), [rows |-> Append(m.rows, row), row |-> <<>>])
    <3>1. PICK p : p = [rows |-> m.rows, row |-> row]
      OBVIOUS
    <3>2. PICK q : q = [rows |-> Append(m.rows, row), row |-> <<>>]
      OBVIOUS
    <3>3. q.rows = Append(p.rows, p.row) /\ q.row = <<>> /\ Reported(one, p)
      BY <2>9, <3>1, <3>2
    <3> QED BY <1>2, <2>7, <3>2, <3>3, HeardRecordEnd
  <2>11. HeardIn(Append(one, R)).rows = Append(m.rows, row)
    BY <2>10 DEF Reported
  <2>12. PICK evs \in Seq(Events) : evs = Append(one, R)
    BY <1>2, <2>7, AppendProperties
  <2>13. events \o LastEvents = evs \o <<E>>
    BY <2>3, <2>4, <2>5, <2>6, <2>7, <2>12
  <2>14. HeardIn(events \o LastEvents).rows = Append(m.rows, row)
    BY <1>4, <2>11, <2>12, <2>13
  <2> QED BY <2>2, <2>8, <2>14 DEF AllRows
<1>6. CASE s.mode \in {"START_OF_RECORD", "COMMENT"}
  <2>1. ~s.inRecord /\ m.at \in {"record", "comment"}
    BY <1>1, <1>6 DEF Told, BetweenRecords, Held
  <2>2. LastEvents = (<<>> \o <<>>) \o <<E>>
    BY <1>3, <1>6, <2>1
  <2>3. (<<>> \o <<>>) \o <<E>> = <<E>>
    <3>1. <<E>> \in Seq(Events) /\ <<>> \in Seq(Events)
      BY <1>2, EmptySeq
    <3> QED BY <3>1, ConcatEmptySeq
  <2>4. HeardIn(events \o LastEvents) = HeardIn(events)
    BY <1>1, <1>4, <2>2, <2>3
  <2>5. HeardIn(events).rows = m.rows
    BY DEF Reported
  <2> QED BY <2>1, <2>4, <2>5 DEF AllRows
<1>7. CASE s.mode \notin {"UNQUOTED_FIELD", "START_OF_RECORD", "COMMENT"}
  <2>1. s.mode = "START_OF_FIELD"
    BY <1>1, <1>7 DEF Held, Modes, FieldModes, UnterminatedQuote
  <2>2. m.at = "field" /\ s.inRecord
    BY <1>1, <2>1 DEF Held, Told, InField
  <2>3. LastEvents = (<<>> \o <<R>>) \o <<E>>
    BY <1>3, <2>1, <2>2
  <2>4. (<<>> \o <<R>>) = <<R>>
    <3>1. <<R>> \in Seq(Events)
      BY <1>2, OneEvent
    <3> QED BY <3>1, ConcatEmptySeq
  <2> PICK y \in Seq(Events) : y = <<R>>
    BY <1>2, OneEvent
  <2> PICK z \in Seq(Events) : z = <<E>>
    BY <1>2, OneEvent
  <2>5. events \o (y \o z) = (events \o y) \o z
    BY <1>1, ConcatAssociative
  <2>6. PICK evs \in Seq(Events) : evs = events \o y /\ evs = Append(events, R)
    <3>1. events \o y = Append(events, R) /\ Append(events, R) \in Seq(Events)
      BY <1>1, <1>2, AppendIsConcat, AppendProperties
    <3> QED BY <3>1
  <2>7. Reported(Append(events, R), [rows |-> Append(m.rows, m.row), row |-> <<>>])
    <3>1. PICK q : q = [rows |-> Append(m.rows, m.row), row |-> <<>>]
      OBVIOUS
    <3>2. q.rows = Append(m.rows, m.row) /\ q.row = <<>>
      BY <3>1
    <3> QED BY <1>1, <1>2, <3>1, <3>2, HeardRecordEnd
  <2>8. HeardIn(evs).rows = Append(m.rows, m.row)
    <3>1. HeardIn(Append(events, R)).rows = Append(m.rows, m.row)
      BY <2>7 DEF Reported
    <3>2. evs = Append(events, R)
      BY <2>6
    <3> QED BY <3>1, <3>2
  <2>9. HeardIn(events \o LastEvents) = HeardIn(evs)
    BY <1>4, <2>3, <2>4, <2>5, <2>6
  <2> QED BY <2>2, <2>8, <2>9 DEF AllRows
<1> QED BY <1>5, <1>6, <1>7

LEMMA FinishMatches ==
  ASSUME PlainDialect, Inv, Inv', Matches, Finish
  PROVE  Matches'
<1>1. /\ pc = "idle" /\ ~finished /\ finished' = TRUE
      /\ UNCHANGED <<pc, resumed, chunk, offset, input>>
  BY DEF Finish
<1>2. Fed'
  BY <1>1 DEF Matches, Fed, Base
<1>3. PICK m : m = Shaped(input)
  OBVIOUS
<1>4. At(offset) = m /\ s.mode \in Modes
  BY <1>1, <1>3, BetweenCallsAt
<1>5. aborted = "no" => Follow(s, m, events, offset, FALSE)
  BY <1>1, <1>4 DEF Matches, Follow
<1>6. ASSUME InLimit(s)', aborted' = "no", ~Odd(m), m.at # "bad"
      PROVE  s'.error = FinishStatus(m) /\ HeardIn(events').rows = AllRows(m)
  <2>1. CASE /\ UnterminatedQuote /\ UNCHANGED <<events, aborted>>
             /\ s' = [Quit EXCEPT !.error = "UNTERMINATED_QUOTE"]
    <3>1. s.mode # "END" /\ aborted = "no"
      BY <1>6, <2>1 DEF UnterminatedQuote
    <3>2. InLimit(s) /\ Reported(events, m)
      BY <1>5, <1>6, <3>1 DEF Follow
    <3>3. Held(s, m, offset, FALSE)
      BY <1>5, <1>6, <3>1, <3>2 DEF Follow
    <3>4. m.at \in {"quoted", "closed"}
      BY <2>1, <3>3 DEF Held, UnterminatedQuote
    <3>5. s'.error = "UNTERMINATED_QUOTE"
      <4>1. s \in Stream
        BY DEF Inv, Typed
      <4> QED BY <2>1, <4>1 DEF Quit, Stream
    <3>6. HeardIn(events').rows = m.rows
      BY <2>1, <3>2 DEF Reported
    <3> QED BY <3>4, <3>5, <3>6 DEF AllRows, FinishStatus
  <2>2. ASSUME ~UnterminatedQuote, NEW n \in 0..Len(LastEvents),
               events' = events \o SubSeq(LastEvents, 1, n),
               s' = IF n = Len(LastEvents) THEN Quit ELSE s,
               aborted' \in IF n = Len(LastEvents) THEN {aborted, "refused"}
                            ELSE {IF n = 0 THEN "oom" ELSE "refused"}
        PROVE  s'.error = FinishStatus(m) /\ HeardIn(events').rows = AllRows(m)
    <3>1. n = Len(LastEvents) /\ aborted = "no"
      BY <1>6, <2>2
    <3>2. events' = events \o LastEvents
      <4>1. LastEvents \in Seq(Events)
        BY <1>1, <2>2, LastEventsTold
      <4> QED BY <2>2, <3>1, <4>1, SubSeqFull
    <3>3. InLimit(s)
      <4>1. s \in Stream
        BY DEF Inv, Typed
      <4>2. Quit.error = s.error
        BY <4>1 DEF Quit, Stream
      <4> QED BY <1>6, <2>2, <3>1, <4>2 DEF InLimit
    <3>4. Reported(events, m) /\ IF s.error = "OK" THEN Held(s, m, offset, FALSE)
                                 ELSE m.at = "bad"
      BY <1>5, <1>6, <3>1, <3>3 DEF Follow
    <3>5. s.error = "OK" /\ Held(s, m, offset, FALSE)
      BY <1>6, <3>4
    <3>6. m.at \in {"record", "comment", "field", "plain"} /\ HeardIn(events').rows = AllRows(m)
      BY <1>1, <2>2, <3>1, <3>2, <3>4, <3>5, LastEventsHeard
    <3>7. s'.error = "OK"
      <4>1. s \in Stream
        BY DEF Inv, Typed
      <4> QED BY <2>2, <3>1, <3>5, <4>1 DEF Quit, Stream
    <3> QED BY <3>6, <3>7 DEF FinishStatus
  <2> QED BY <2>1, <2>2 DEF Finish
<1>7. (finished /\ InLimit(s) => FinishCompletesText)'
  <2> SUFFICES ASSUME InLimit(s)', aborted' = "no", ~Odd(m), m.at # "bad"
               PROVE  s'.error = FinishStatus(m) /\ Heard'.rows = AllRows(m)
    BY <1>1, <1>3 DEF FinishCompletesText, BetweenCalls, Odd
  <2>1. Heard' = HeardIn(events')
    BY DEF Heard, HeardIn, Unheard
  <2> QED BY <1>6, <2>1
<1> QED BY <1>1, <1>2, <1>7 DEF Matches

LEMMA InitMatches == Init => Matches
<1> SUFFICES ASSUME Init PROVE Matches
  OBVIOUS
<1>1. /\ <<>> \in Seq(Bytes) /\ <<>> \in Seq(Events) /\ Len(<<>>) = 0
  BY EmptySeq
<1>2. /\ input = <<>> /\ chunk = <<>> /\ events = <<>> /\ offset = 0 /\ pc = "idle"
      /\ ~finished /\ s.error = "OK" /\ s.mode = "START_OF_RECORD" /\ s.fieldCount = 0
  BY DEF Init
<1>3. Fed
  <2>1. \A i \in 1..0 : FALSE
    OBVIOUS
  <2> QED BY <1>1, <1>2, <2>1 DEF Fed
<1>4. At(offset) = NotShaped
  <2>1. Base + offset = 0
    BY <1>1, <1>2 DEF Base
  <2>2. ReadUpTo(<<>>, 0) = NotShaped
    BY <1>1, ReadNothing
  <2> QED BY <1>2, <2>1, <2>2 DEF At
<1>5. HeardIn(events) = Unheard
  <2>1. Folded(Hearings, HearStep, Unheard, <<>>, HeardIn(<<>>))
    BY <1>1, HearFolded
  <2> QED BY <1>2, <2>1, FoldedNothing
<1>6. Reported(events, NotShaped) /\ Held(s, NotShaped, offset, FALSE)
  BY <1>2, <1>5 DEF Reported, Unheard, NotShaped, Held
<1>7. Follow(s, At(offset), events, offset, pc = "fall")
  BY <1>2, <1>4, <1>6 DEF Follow, InLimit
<1> QED BY <1>2, <1>3, <1>7 DEF Matches

LEMMA NextMatches ==
  ASSUME PlainDialect, Inv, Inv', Matches, [Next]_vars
  PROVE  Matches'
<1>1. ASSUME NEW data \in Chunks, Feed(data) PROVE Matches'
  BY <1>1, FeedMatches
<1>2. CASE Turn
  BY <1>2, TurnMatches
<1>3. CASE Finish
  BY <1>3, FinishMatches
<1>4. CASE UNCHANGED vars
  <2>1. /\ s' = s /\ pc' = pc /\ resumed' = resumed /\ chunk' = chunk /\ offset' = offset
        /\ input' = input /\ events' = events /\ aborted' = aborted /\ finished' = finished
    BY <1>4 DEF vars
  <2>2. Fed' /\ At(offset)' = At(offset)
    BY <2>1 DEF Matches, Fed, Base, At
  <2>3. PICK m : m = At(offset)
    OBVIOUS
  <2>4. Held(s, m, offset, pc = "fall")' <=> Held(s, m, offset, pc = "fall")
    BY <2>1 DEF Held, InQuotes, Placed, Copyable, Begins, Raw, Pointed, Base, Byte
  <2>5. Follow(s, m, events, offset, pc = "fall")' <=> Follow(s, m, events, offset, pc = "fall")
    BY <2>1, <2>4 DEF Follow, Reported
  <2>6. FinishCompletesText' <=> FinishCompletesText
    BY <2>1 DEF FinishCompletesText, BetweenCalls, Heard
  <2> QED BY <2>1, <2>2, <2>3, <2>5, <2>6 DEF Matches
<1> QED BY <1>1, <1>2, <1>3, <1>4 DEF Next

LEMMA StreamMatches ==
  ASSUME PlainDialect
  PROVE  Spec => []Matches
<1>1. Inv /\ Inv' /\ Matches /\ [Next]_vars => Matches'
  BY NextMatches
<1> QED BY <1>1, InitInv, NextKeeps, InitMatches, PTL DEF Spec

\* However the text is cut into chunks, between two calls the records and
\* fields reported are those of the text fed so far, and an error other than a
\* limit is reported exactly when the text is malformed, for every length of
\* the text and of the chunks, in the dialects of PlainDialect.
THEOREM RecordsOfText ==
  ASSUME PlainDialect
  PROVE  Spec => [](InLimit(s) => RecordsMatchText)
<1>1. Inv /\ Matches /\ InLimit(s) => RecordsMatchText
  <2> SUFFICES ASSUME Inv, Matches, InLimit(s), BetweenCalls, ~finished, NEW m,
                      m = Shaped(input), ~Odd(m)
               PROVE  Agrees(m)
    BY DEF RecordsMatchText, Odd
  <2>1. At(offset) = m /\ s.mode \in Modes
    BY BetweenCallsAt DEF BetweenCalls
  <2>2. Follow(s, m, events, offset, FALSE)
    BY <2>1 DEF Matches, BetweenCalls, Follow
  <2>3. /\ Reported(events, m)
        /\ s.error = "OK" => Held(s, m, offset, FALSE)
        /\ s.error # "OK" => m.at = "bad"
    BY <2>2 DEF Follow
  <2>4. Held(s, m, offset, FALSE) => m.at # "bad"
    BY <2>1 DEF Held, Modes, FieldModes
  <2> QED BY <2>3, <2>4, HeardIsReported DEF Agrees
<1> QED BY <1>1, StreamSound, StreamMatches, PTL

\* However the text was cut into chunks, as long as no limit was exceeded, no call
\* was refused or lacked memory, and the text has neither of the two odd shapes and was
\* not refused by feed (RecordsOfText says when that is): finish reports an unterminated
\* quote if the text ends within quotes or right behind them, else it succeeds, and all
\* records of the text were told; of one that ends behind a delimiter without the empty
\* field there.
THEOREM FinishCompletesRecords ==
  ASSUME PlainDialect
  PROVE  Spec => [](InLimit(s) => FinishCompletesText)
<1>1. Matches /\ InLimit(s) => FinishCompletesText
  <2>1. ~finished => FinishCompletesText
    BY DEF FinishCompletesText
  <2> QED BY <2>1 DEF Matches
<1> QED BY <1>1, StreamMatches, PTL

=============================================================================
