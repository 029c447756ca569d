-------------------------- MODULE CsvWriter_proofs --------------------------
(***************************************************************************)
(* What the CSV writer writes reads back: for all options that quote when  *)
(* needed, fields, tables and sinks, the output of a writer that left none *)
(* of its calls half done is, read by CsvText, the records the caller      *)
(* wrote (WhatIsWrittenReadsBack).                                         *)
(*                                                                         *)
(* A call computes its writes before it makes the first.  The proof shows  *)
(* once per call that reading them leads from the records before the call  *)
(* to those after it; the writes themselves only move bytes from what is   *)
(* to be written to what is written.  Of the sinks: they keep room for the *)
(* terminator, and a fixed buffer keeps a prefix of what it was offered.   *)
(***************************************************************************)
EXTENDS CsvWriter, DataLemmas

-----------------------------------------------------------------------------
(* Reading one byte after the other, with either escape e.                 *)

Records  == Seq(Seq(Seq(Byte)))
Places   == {"record", "field", "plain", "quoted", "closed", "escaped", "comment", "bad"}
Readings == [at : Places, rows : Records, row : Seq(Seq(Byte)), cur : Seq(Byte)]
At(where, rows, row, cur) == [at |-> where, rows |-> rows, row |-> row, cur |-> cur]
Nothing  == At("record", <<>>, <<>>, <<>>)

Step(e, r, b) == IF e = "doubled" THEN Doubled!ReadByte(r, b) ELSE Backslash!ReadByte(r, b)
Reads(e, text) == IF e = "doubled" THEN Doubled!Meaning(text) ELSE Backslash!Meaning(text)
DoubledStep   == [x \in Readings \X Byte |-> Doubled!ReadByte(x[1], x[2])]
BackslashStep == [x \in Readings \X Byte |-> Backslash!ReadByte(x[1], x[2])]

LEMMA ByteFacts ==
  /\ "delim" \in Byte /\ "quote" \in Byte /\ "bslash" \in Byte /\ "lf" \in Byte /\ "cr" \in Byte
BY ByteAssumption

LEMMA AtReads ==
  ASSUME NEW where \in Places, NEW rows \in Records, NEW row \in Seq(Seq(Byte)),
         NEW cur \in Seq(Byte)
  PROVE  At(where, rows, row, cur) \in Readings
BY DEF At, Readings

LEMMA NothingRead ==
  /\ Nothing \in Readings /\ Doubled!Unread = Nothing /\ Backslash!Unread = Nothing
<1>1. /\ "record" \in Places /\ <<>> \in Records /\ <<>> \in Seq(Seq(Byte)) /\ <<>> \in Seq(Byte)
  BY EmptySeq DEF Places, Records
<1>2. Nothing \in Readings
  BY <1>1, AtReads DEF Nothing
<1>3. Doubled!Unread = Nothing /\ Backslash!Unread = Nothing
  BY DEF Doubled!Unread, Backslash!Unread, Nothing, At
<1> QED BY <1>2, <1>3

\* What a byte does to a reading.
Adds(r, b, where) == [r EXCEPT !.cur = Append(r.cur, b), !.at = where]
Closes(r)         == [r EXCEPT !.row = Append(r.row, r.cur), !.cur = <<>>, !.at = "field"]
Ends(r)           == [r EXCEPT !.rows = Append(r.rows, Append(r.row, r.cur)), !.row = <<>>,
                               !.cur = <<>>, !.at = "record"]
Form(r, b, m) ==
    \/ m = r \/ m = Closes(r) \/ m = Ends(r)
    \/ \E where \in Places : m = [r EXCEPT !.at = where]
    \/ \E x \in {b, "lf"}, where \in Places : m = Adds(r, x, where)

LEMMA FormReads ==
  ASSUME NEW r \in Readings, NEW b \in Byte, NEW m, Form(r, b, m)
  PROVE  m \in Readings
<1>1. r.rows \in Records /\ r.row \in Seq(Seq(Byte)) /\ r.cur \in Seq(Byte) /\ r.at \in Places
  BY DEF Readings
<1>2. CASE m = r
  BY <1>2
<1>3. ASSUME NEW where \in Places, m = [r EXCEPT !.at = where] PROVE m \in Readings
  BY <1>3 DEF Readings
<1>4. ASSUME NEW x \in {b, "lf"}, NEW where \in Places, m = Adds(r, x, where) PROVE m \in Readings
  <2>1. x \in Byte
    BY ByteFacts
  <2>2. PICK cur \in Seq(Byte) : cur = Append(r.cur, x)
    BY <1>1, <2>1, AppendProperties
  <2>3. m = [r EXCEPT !.cur = cur, !.at = where]
    BY <1>4, <2>2 DEF Adds
  <2> QED BY <2>3 DEF Readings
<1>5. PICK none \in Seq(Byte) : none = <<>>
  BY EmptySeq
<1>6. PICK row \in Seq(Seq(Byte)) : row = Append(r.row, r.cur)
  BY <1>1, AppendProperties
<1>7. CASE m = Closes(r)
  <2>1. m = [r EXCEPT !.row = row, !.cur = none, !.at = "field"] /\ "field" \in Places
    BY <1>5, <1>6, <1>7 DEF Closes, Places
  <2> QED BY <2>1 DEF Readings
<1>8. CASE m = Ends(r)
  <2>1. PICK rows \in Records : rows = Append(r.rows, row)
    BY <1>1, AppendProperties DEF Records
  <2>2. PICK empty \in Seq(Seq(Byte)) : empty = <<>>
    BY EmptySeq
  <2>3. m = [r EXCEPT !.rows = rows, !.row = empty, !.cur = none, !.at = "record"] /\ "record" \in Places
    BY <1>5, <1>6, <1>8, <2>1, <2>2 DEF Ends, Places
  <2> QED BY <2>3 DEF Readings
<1> QED BY <1>2, <1>3, <1>4, <1>7, <1>8 DEF Form

LEMMA DoubledForms ==
  ASSUME NEW r, NEW b
  PROVE  Form(r, b, Doubled!ReadByte(r, b))
<1>1. /\ "quoted" \in Places /\ "closed" \in Places /\ "escaped" \in Places
      /\ "comment" \in Places /\ "plain" \in Places /\ "bad" \in Places /\ "record" \in Places
  BY DEF Places
<1>2. /\ Form(r, b, r) /\ Form(r, b, Doubled!CloseField(r)) /\ Form(r, b, Doubled!CloseRow(r))
      /\ \A where \in Places : Form(r, b, [r EXCEPT !.at = where])
      /\ \A where \in Places : Form(r, b, Doubled!AddByte(r, b, where))
  <2>1. /\ Doubled!CloseField(r) = Closes(r) /\ Doubled!CloseRow(r) = Ends(r)
        /\ \A where : Doubled!AddByte(r, b, where) = Adds(r, b, where)
    BY DEF Doubled!CloseField, Doubled!CloseRow, Doubled!AddByte, Closes, Ends, Adds
  <2> QED BY <2>1 DEF Form
<1>3. \A where \in Places : Form(r, b, Doubled!AddByte(r, Doubled!EscapedByte(b), where))
  <2>1. Doubled!EscapedByte(b) \in {b, "lf"}
    BY DEF Doubled!EscapedByte
  <2>2. \A x, where : Doubled!AddByte(r, x, where) = Adds(r, x, where)
    BY DEF Doubled!AddByte, Adds
  <2> QED BY <2>1, <2>2 DEF Form
<1>4. Form(r, b, Doubled!ReadOutside(r, b))
  <2>1. [r EXCEPT !.at = IF r.at = "plain" THEN "bad" ELSE "quoted"] \in
          {[r EXCEPT !.at = "bad"], [r EXCEPT !.at = "quoted"]}
    OBVIOUS
  <2>2. Form(r, b, [r EXCEPT !.at = IF r.at = "plain" THEN "bad" ELSE "quoted"])
    BY <1>1, <1>2, <2>1
  <2> QED BY <1>1, <1>2, <2>2 DEF Doubled!ReadOutside
<1>5. Form(r, b, Doubled!ReadInside(r, b)) /\ Form(r, b, Doubled!ReadEscaped(r, b))
  BY <1>1, <1>2, <1>3 DEF Doubled!ReadInside, Doubled!ReadEscaped
<1>6. Form(r, b, Doubled!ReadClosed(r, b))
  BY <1>1, <1>2, <1>4 DEF Doubled!ReadClosed
<1> QED BY <1>1, <1>2, <1>4, <1>5, <1>6 DEF Doubled!ReadByte

LEMMA BackslashForms ==
  ASSUME NEW r, NEW b
  PROVE  Form(r, b, Backslash!ReadByte(r, b))
<1>1. /\ "quoted" \in Places /\ "closed" \in Places /\ "escaped" \in Places
      /\ "comment" \in Places /\ "plain" \in Places /\ "bad" \in Places /\ "record" \in Places
  BY DEF Places
<1>2. /\ Form(r, b, r) /\ Form(r, b, Backslash!CloseField(r)) /\ Form(r, b, Backslash!CloseRow(r))
      /\ \A where \in Places : Form(r, b, [r EXCEPT !.at = where])
      /\ \A where \in Places : Form(r, b, Backslash!AddByte(r, b, where))
  <2>1. /\ Backslash!CloseField(r) = Closes(r) /\ Backslash!CloseRow(r) = Ends(r)
        /\ \A where : Backslash!AddByte(r, b, where) = Adds(r, b, where)
    BY DEF Backslash!CloseField, Backslash!CloseRow, Backslash!AddByte, Closes, Ends, Adds
  <2> QED BY <2>1 DEF Form
<1>3. \A where \in Places : Form(r, b, Backslash!AddByte(r, Backslash!EscapedByte(b), where))
  <2>1. Backslash!EscapedByte(b) \in {b, "lf"}
    BY DEF Backslash!EscapedByte
  <2>2. \A x, where : Backslash!AddByte(r, x, where) = Adds(r, x, where)
    BY DEF Backslash!AddByte, Adds
  <2> QED BY <2>1, <2>2 DEF Form
<1>4. Form(r, b, Backslash!ReadOutside(r, b))
  <2>1. [r EXCEPT !.at = IF r.at = "plain" THEN "bad" ELSE "quoted"] \in
          {[r EXCEPT !.at = "bad"], [r EXCEPT !.at = "quoted"]}
    OBVIOUS
  <2>2. Form(r, b, [r EXCEPT !.at = IF r.at = "plain" THEN "bad" ELSE "quoted"])
    BY <1>1, <1>2, <2>1
  <2> QED BY <1>1, <1>2, <2>2 DEF Backslash!ReadOutside
<1>5. Form(r, b, Backslash!ReadInside(r, b)) /\ Form(r, b, Backslash!ReadEscaped(r, b))
  BY <1>1, <1>2, <1>3 DEF Backslash!ReadInside, Backslash!ReadEscaped
<1>6. Form(r, b, Backslash!ReadClosed(r, b))
  BY <1>1, <1>2, <1>4 DEF Backslash!ReadClosed
<1> QED BY <1>1, <1>2, <1>4, <1>5, <1>6 DEF Backslash!ReadByte

LEMMA StepReads ==
  ASSUME NEW r \in Readings, NEW b \in Byte, NEW e
  PROVE  Step(e, r, b) \in Readings
<1>1. Doubled!ReadByte(r, b) \in Readings /\ Backslash!ReadByte(r, b) \in Readings
  BY DoubledForms, BackslashForms, FormReads
<1> QED BY <1>1 DEF Step

LEMMA StepFunctions ==
  /\ Nothing \in Readings
  /\ DoubledStep \in [Readings \X Byte -> Readings]
  /\ BackslashStep \in [Readings \X Byte -> Readings]
  /\ \A r \in Readings, b \in Byte : DoubledStep[<<r, b>>] = Doubled!ReadByte(r, b)
  /\ \A r \in Readings, b \in Byte : BackslashStep[<<r, b>>] = Backslash!ReadByte(r, b)
<1>1. \A r \in Readings, b \in Byte : Doubled!ReadByte(r, b) \in Readings
                                     /\ Backslash!ReadByte(r, b) \in Readings
  BY DoubledForms, BackslashForms, FormReads
<1>2. \A x \in Readings \X Byte : Doubled!ReadByte(x[1], x[2]) \in Readings
                                /\ Backslash!ReadByte(x[1], x[2]) \in Readings
  BY <1>1
<1> QED BY <1>2, NothingRead DEF DoubledStep, BackslashStep

LEMMA DoubledFolded ==
  ASSUME NEW seq \in Seq(Byte)
  PROVE  Folded(Readings, DoubledStep, Nothing, seq, Doubled!Meaning(seq))
<1> DEFINE N == Len(seq)
           e(g, T) == IF T = {} THEN Nothing ELSE Doubled!ReadByte(g[T \ {Max(T)}], seq[Max(T)])
           d(g, T) == IF T = {} THEN Nothing ELSE DoubledStep[<<g[T \ {Max(T)}], seq[Max(T)]>>]
           Iter(g) == g = [T \in SUBSET (1..N) |-> e(g, T)]
<1>1. N \in Nat /\ (\A k \in 1..N : seq[k] \in Byte) /\ DOMAIN seq = 1..N
  BY LenProperties, ElementOfSeq
<1>2. /\ Nothing \in Readings /\ DoubledStep \in [Readings \X Byte -> Readings]
      /\ \A r \in Readings, b \in Byte : DoubledStep[<<r, b>>] = Doubled!ReadByte(r, b)
  BY StepFunctions
<1>3. ASSUME NEW g, NEW T \in SUBSET (1..N), T # {} => g[T \ {Max(T)}] \in Readings
      PROVE  d(g, T) = e(g, T)
  <2>1. CASE T # {}
    <3>1. Max(T) \in 1..N
      BY <1>1, <2>1, MaxIsIn
    <3>2. g[T \ {Max(T)}] \in Readings /\ seq[Max(T)] \in Byte
      BY <1>1, <1>3, <2>1, <3>1
    <3> QED BY <1>2, <2>1, <3>2
  <2> QED BY <2>1
<1>4. \E g : Iter(g)
  <2>1. PICK g : FoldIs(g, DoubledStep, Nothing, seq) /\ \A T \in SUBSET (1..N) : g[T] \in Readings
    BY <1>2, FoldExists
  <2>2. g = [T \in SUBSET (1..N) |-> d(g, T)]
    BY <2>1 DEF FoldIs
  <2>3. \A T \in SUBSET (1..N) : d(g, T) = e(g, T)
    <3> SUFFICES ASSUME NEW T \in SUBSET (1..N) PROVE d(g, T) = e(g, T)
      OBVIOUS
    <3>1. T \ {Max(T)} \in SUBSET (1..N)
      OBVIOUS
    <3>2. g[T \ {Max(T)}] \in Readings
      BY <2>1, <3>1
    <3> HIDE DEF d, e
    <3> QED BY <1>3, <3>2
  <2> HIDE DEF d, e
  <2>4. Iter(g)
    BY <2>2, <2>3
  <2> QED BY <2>4
<1> DEFINE g == CHOOSE g : Iter(g)
<1>5. Iter(g)
  BY <1>4
<1>6. Doubled!Meaning(seq) = g[1..N]
  BY <1>1, NothingRead DEF Doubled!Meaning, Doubled!FoldLeft, Doubled!MapThenFoldSet, Doubled!Max, Max
<1> HIDE DEF g
<1>7. g[{}] = Nothing
  <2>1. {} \in SUBSET (1..N)
    OBVIOUS
  <2> QED BY <1>5, <2>1
<1>8. ASSUME NEW T \in SUBSET (1..N), T # {}, g[T \ {Max(T)}] \in Readings
      PROVE  g[T] = DoubledStep[<<g[T \ {Max(T)}], seq[Max(T)]>>]
  <2>1. g[T] = e(g, T)
    BY <1>5
  <2>2. d(g, T) = e(g, T)
    BY <1>3, <1>8
  <2> QED BY <1>8, <2>1, <2>2
<1>9. \A T \in SUBSET (1..Len(seq)) : T # {} /\ g[T \ {Max(T)}] \in Readings =>
         g[T] = DoubledStep[<<g[T \ {Max(T)}], seq[Max(T)]>>]
  BY <1>8
<1>10. Folded(Readings, DoubledStep, Nothing, seq, g[1..Len(seq)])
  BY <1>2, <1>7, <1>9, FoldedBySets
<1> QED BY <1>6, <1>10

LEMMA BackslashFolded ==
  ASSUME NEW seq \in Seq(Byte)
  PROVE  Folded(Readings, BackslashStep, Nothing, seq, Backslash!Meaning(seq))
<1> DEFINE N == Len(seq)
           e(g, T) == IF T = {} THEN Nothing ELSE Backslash!ReadByte(g[T \ {Max(T)}], seq[Max(T)])
           d(g, T) == IF T = {} THEN Nothing ELSE BackslashStep[<<g[T \ {Max(T)}], seq[Max(T)]>>]
           Iter(g) == g = [T \in SUBSET (1..N) |-> e(g, T)]
<1>1. N \in Nat /\ (\A k \in 1..N : seq[k] \in Byte) /\ DOMAIN seq = 1..N
  BY LenProperties, ElementOfSeq
<1>2. /\ Nothing \in Readings /\ BackslashStep \in [Readings \X Byte -> Readings]
      /\ \A r \in Readings, b \in Byte : BackslashStep[<<r, b>>] = Backslash!ReadByte(r, b)
  BY StepFunctions
<1>3. ASSUME NEW g, NEW T \in SUBSET (1..N), T # {} => g[T \ {Max(T)}] \in Readings
      PROVE  d(g, T) = e(g, T)
  <2>1. CASE T # {}
    <3>1. Max(T) \in 1..N
      BY <1>1, <2>1, MaxIsIn
    <3>2. g[T \ {Max(T)}] \in Readings /\ seq[Max(T)] \in Byte
      BY <1>1, <1>3, <2>1, <3>1
    <3> QED BY <1>2, <2>1, <3>2
  <2> QED BY <2>1
<1>4. \E g : Iter(g)
  <2>1. PICK g : FoldIs(g, BackslashStep, Nothing, seq) /\ \A T \in SUBSET (1..N) : g[T] \in Readings
    BY <1>2, FoldExists
  <2>2. g = [T \in SUBSET (1..N) |-> d(g, T)]
    BY <2>1 DEF FoldIs
  <2>3. \A T \in SUBSET (1..N) : d(g, T) = e(g, T)
    <3> SUFFICES ASSUME NEW T \in SUBSET (1..N) PROVE d(g, T) = e(g, T)
      OBVIOUS
    <3>1. T \ {Max(T)} \in SUBSET (1..N)
      OBVIOUS
    <3>2. g[T \ {Max(T)}] \in Readings
      BY <2>1, <3>1
    <3> HIDE DEF d, e
    <3> QED BY <1>3, <3>2
  <2> HIDE DEF d, e
  <2>4. Iter(g)
    BY <2>2, <2>3
  <2> QED BY <2>4
<1> DEFINE g == CHOOSE g : Iter(g)
<1>5. Iter(g)
  BY <1>4
<1>6. Backslash!Meaning(seq) = g[1..N]
  BY <1>1, NothingRead DEF Backslash!Meaning, Backslash!FoldLeft, Backslash!MapThenFoldSet, Backslash!Max, Max
<1> HIDE DEF g
<1>7. g[{}] = Nothing
  <2>1. {} \in SUBSET (1..N)
    OBVIOUS
  <2> QED BY <1>5, <2>1
<1>8. ASSUME NEW T \in SUBSET (1..N), T # {}, g[T \ {Max(T)}] \in Readings
      PROVE  g[T] = BackslashStep[<<g[T \ {Max(T)}], seq[Max(T)]>>]
  <2>1. g[T] = e(g, T)
    BY <1>5
  <2>2. d(g, T) = e(g, T)
    BY <1>3, <1>8
  <2> QED BY <1>8, <2>1, <2>2
<1>9. \A T \in SUBSET (1..Len(seq)) : T # {} /\ g[T \ {Max(T)}] \in Readings =>
         g[T] = BackslashStep[<<g[T \ {Max(T)}], seq[Max(T)]>>]
  BY <1>8
<1>10. Folded(Readings, BackslashStep, Nothing, seq, g[1..Len(seq)])
  BY <1>2, <1>7, <1>9, FoldedBySets
<1> QED BY <1>6, <1>10

LEMMA ReadOneMore ==
  ASSUME NEW e, NEW text \in Seq(Byte), NEW b \in Byte
  PROVE  /\ Reads(e, text) \in Readings
         /\ Reads(e, Append(text, b)) = Step(e, Reads(e, text), b)
<1> DEFINE f == IF e = "doubled" THEN DoubledStep ELSE BackslashStep
<1>1. Append(text, b) \in Seq(Byte)
  BY AppendProperties
<1>2. \A x \in Seq(Byte) : Folded(Readings, f, Nothing, x, Reads(e, x))
  BY DoubledFolded, BackslashFolded DEF Reads
<1>3. \A r \in Readings : f[<<r, b>>] = Step(e, r, b)
  BY StepFunctions DEF Step
<1> HIDE DEF f
<1>4. PICK r : r = Reads(e, text)
  OBVIOUS
<1>5. PICK q : q = Reads(e, Append(text, b))
  OBVIOUS
<1>6. Folded(Readings, f, Nothing, text, r) /\ Folded(Readings, f, Nothing, Append(text, b), q)
  BY <1>1, <1>2, <1>4, <1>5
<1>7. r \in Readings /\ q = f[<<r, b>>]
  BY <1>6, FoldedOneMore
<1> QED BY <1>3, <1>4, <1>5, <1>7

LEMMA ReadNothing ==
  ASSUME NEW e
  PROVE  Reads(e, <<>>) = Nothing
<1>1. <<>> \in Seq(Byte)
  BY EmptySeq
<1>2. Folded(Readings, DoubledStep, Nothing, <<>>, Doubled!Meaning(<<>>))
      /\ Folded(Readings, BackslashStep, Nothing, <<>>, Backslash!Meaning(<<>>))
  BY <1>1, DoubledFolded, BackslashFolded
<1>3. Doubled!Meaning(<<>>) = Nothing /\ Backslash!Meaning(<<>>) = Nothing
  BY <1>2, FoldedNothing
<1> QED BY <1>3 DEF Reads

-----------------------------------------------------------------------------
(* What a byte leads to, at the places the writer's bytes are read.        *)

Escapes == {"doubled", "backslash"}

LEMMA AtFields ==
  ASSUME NEW where, NEW rows, NEW row, NEW cur, NEW m, m = At(where, rows, row, cur)
  PROVE  /\ m.at = where /\ m.rows = rows /\ m.row = row /\ m.cur = cur
         /\ \A x : [m EXCEPT !.at = x] = At(x, rows, row, cur)
         /\ \A x, b : Adds(m, b, x) = At(x, rows, row, Append(cur, b))
         /\ Closes(m) = At("field", rows, Append(row, cur), <<>>)
         /\ Ends(m) = At("record", Append(rows, Append(row, cur)), <<>>, <<>>)
<1>1. m.at = where /\ m.rows = rows /\ m.row = row /\ m.cur = cur
  BY DEF At
<1>2. ASSUME NEW x PROVE [m EXCEPT !.at = x] = At(x, rows, row, cur)
  BY DEF At
<1>3. ASSUME NEW x, NEW b PROVE Adds(m, b, x) = At(x, rows, row, Append(cur, b))
  <2>1. PICK c : c = Append(cur, b)
    OBVIOUS
  <2>2. Adds(m, b, x) = [m EXCEPT !.cur = c, !.at = x]
    BY <1>1, <2>1 DEF Adds
  <2>3. PICK n : n = [m EXCEPT !.cur = c]
    OBVIOUS
  <2>4. n = At(where, rows, row, c)
    BY <2>3 DEF At
  <2>5. [n EXCEPT !.at = x] = At(x, rows, row, c)
    BY <2>4 DEF At
  <2>6. [m EXCEPT !.cur = c, !.at = x] = [n EXCEPT !.at = x]
    BY <2>3
  <2> QED BY <2>1, <2>2, <2>5, <2>6
<1>4. PICK none : none = <<>>
  OBVIOUS
<1>5. PICK more : more = Append(row, cur)
  OBVIOUS
<1>6. PICK all : all = Append(rows, more)
  OBVIOUS
<1>7. Closes(m) = [m EXCEPT !.row = more, !.cur = none, !.at = "field"]
  BY <1>1, <1>4, <1>5 DEF Closes
<1>8. Ends(m) = [m EXCEPT !.rows = all, !.row = none, !.cur = none, !.at = "record"]
  BY <1>1, <1>4, <1>5, <1>6 DEF Ends
<1>9. [m EXCEPT !.row = more, !.cur = none, !.at = "field"] = At("field", rows, more, none)
  <2>1. PICK n : n = [m EXCEPT !.row = more]
    OBVIOUS
  <2>2. n = At(where, rows, more, cur)
    BY <2>1 DEF At
  <2>3. PICK o : o = [n EXCEPT !.cur = none]
    OBVIOUS
  <2>4. o = At(where, rows, more, none)
    BY <2>2, <2>3 DEF At
  <2>5. [o EXCEPT !.at = "field"] = At("field", rows, more, none)
    BY <2>4 DEF At
  <2>6. [m EXCEPT !.row = more, !.cur = none, !.at = "field"] = [o EXCEPT !.at = "field"]
    BY <2>1, <2>3
  <2> QED BY <2>5, <2>6
<1>10. [m EXCEPT !.rows = all, !.row = none, !.cur = none, !.at = "record"] = At("record", all, none, none)
  <2>1. PICK n : n = [m EXCEPT !.rows = all]
    OBVIOUS
  <2>2. n = At(where, all, row, cur)
    BY <2>1 DEF At
  <2>3. PICK o : o = [n EXCEPT !.row = none]
    OBVIOUS
  <2>4. o = At(where, all, none, cur)
    BY <2>2, <2>3 DEF At
  <2>5. PICK u : u = [o EXCEPT !.cur = none]
    OBVIOUS
  <2>6. u = At(where, all, none, none)
    BY <2>4, <2>5 DEF At
  <2>7. [u EXCEPT !.at = "record"] = At("record", all, none, none)
    BY <2>6 DEF At
  <2>8. [m EXCEPT !.rows = all, !.row = none, !.cur = none, !.at = "record"] = [u EXCEPT !.at = "record"]
    BY <2>1, <2>3, <2>5
  <2> QED BY <2>7, <2>8
<1> QED BY <1>1, <1>2, <1>3, <1>4, <1>5, <1>6, <1>7, <1>8, <1>9, <1>10

LEMMA TextSteps ==
  ASSUME NEW m, NEW b
  PROVE  /\ Doubled!CloseField(m) = Closes(m) /\ Backslash!CloseField(m) = Closes(m)
         /\ Doubled!CloseRow(m) = Ends(m) /\ Backslash!CloseRow(m) = Ends(m)
         /\ \A x, where : Doubled!AddByte(m, x, where) = Adds(m, x, where)
         /\ \A x, where : Backslash!AddByte(m, x, where) = Adds(m, x, where)
BY DEF Doubled!CloseField, Doubled!CloseRow, Doubled!AddByte, Backslash!CloseField,
       Backslash!CloseRow, Backslash!AddByte, Closes, Ends, Adds

\* An ordinary byte outside of quotes.
LEMMA PlainStep ==
  ASSUME NEW e, NEW m, m.at \in {"record", "field", "plain"}, NEW b, b \notin {"delim", "quote", "lf"}
  PROVE  Step(e, m, b) = Adds(m, b, "plain")
<1>1. Doubled!ReadOutside(m, b) = Adds(m, b, "plain")
  BY TextSteps DEF Doubled!ReadOutside
<1>2. Backslash!ReadOutside(m, b) = Adds(m, b, "plain")
  BY TextSteps DEF Backslash!ReadOutside
<1>3. Doubled!ReadByte(m, b) = Adds(m, b, "plain")
  BY <1>1 DEF Doubled!ReadByte
<1>4. Backslash!ReadByte(m, b) = Adds(m, b, "plain")
  BY <1>2 DEF Backslash!ReadByte
<1> QED BY <1>3, <1>4 DEF Step

\* A quote that opens a field.
LEMMA OpeningStep ==
  ASSUME NEW e, NEW m, m.at \in {"record", "field"}
  PROVE  Step(e, m, "quote") = [m EXCEPT !.at = "quoted"]
<1>1. Doubled!ReadOutside(m, "quote") = [m EXCEPT !.at = "quoted"]
  BY DEF Doubled!ReadOutside
<1>2. Backslash!ReadOutside(m, "quote") = [m EXCEPT !.at = "quoted"]
  BY DEF Backslash!ReadOutside
<1>3. Doubled!ReadByte(m, "quote") = [m EXCEPT !.at = "quoted"]
  BY <1>1 DEF Doubled!ReadByte
<1>4. Backslash!ReadByte(m, "quote") = [m EXCEPT !.at = "quoted"]
  BY <1>2 DEF Backslash!ReadByte
<1> QED BY <1>3, <1>4 DEF Step

\* A delimiter and a newline behind a field.
LEMMA ClosingStep ==
  ASSUME NEW e, NEW m, m.at \in {"field", "plain", "closed"}
  PROVE  Step(e, m, "delim") = Closes(m) /\ Step(e, m, "lf") = Ends(m)
<1>1. Doubled!ReadOutside(m, "delim") = Closes(m) /\ Doubled!ReadOutside(m, "lf") = Ends(m)
  BY TextSteps DEF Doubled!ReadOutside
<1>2. Backslash!ReadOutside(m, "delim") = Closes(m) /\ Backslash!ReadOutside(m, "lf") = Ends(m)
  BY TextSteps DEF Backslash!ReadOutside
<1>3. Doubled!ReadClosed(m, "delim") = Closes(m) /\ Doubled!ReadClosed(m, "lf") = Ends(m)
  BY <1>1 DEF Doubled!ReadClosed
<1>4. Backslash!ReadClosed(m, "delim") = Closes(m) /\ Backslash!ReadClosed(m, "lf") = Ends(m)
  BY <1>2 DEF Backslash!ReadClosed
<1>5. Doubled!ReadByte(m, "delim") = Closes(m) /\ Doubled!ReadByte(m, "lf") = Ends(m)
  BY <1>1, <1>3 DEF Doubled!ReadByte
<1>6. Backslash!ReadByte(m, "delim") = Closes(m) /\ Backslash!ReadByte(m, "lf") = Ends(m)
  BY <1>2, <1>4 DEF Backslash!ReadByte
<1> QED BY <1>5, <1>6 DEF Step

\* The same at the start of a record: a delimiter closes an empty field, a
\* newline is a blank line.
LEMMA BlankStep ==
  ASSUME NEW e, NEW m, m.at = "record"
  PROVE  Step(e, m, "delim") = Closes(m) /\ Step(e, m, "lf") = m
<1>1. Doubled!ReadOutside(m, "delim") = Closes(m)
  BY TextSteps DEF Doubled!ReadOutside
<1>2. Backslash!ReadOutside(m, "delim") = Closes(m)
  BY TextSteps DEF Backslash!ReadOutside
<1>3. Doubled!ReadByte(m, "delim") = Closes(m) /\ Doubled!ReadByte(m, "lf") = m
  BY <1>1 DEF Doubled!ReadByte
<1>4. Backslash!ReadByte(m, "delim") = Closes(m) /\ Backslash!ReadByte(m, "lf") = m
  BY <1>2 DEF Backslash!ReadByte
<1> QED BY <1>3, <1>4 DEF Step

\* Within quotes.
LEMMA InsideStep ==
  ASSUME NEW e \in Escapes, NEW m, m.at = "quoted", NEW b
  PROVE  /\ Step(e, m, "quote") = [m EXCEPT !.at = "closed"]
         /\ b # "quote" /\ (e = "doubled" \/ b # "bslash") => Step(e, m, b) = Adds(m, b, "quoted")
         /\ e = "backslash" => Step(e, m, "bslash") = [m EXCEPT !.at = "escaped"]
<1>1. /\ Doubled!ReadInside(m, "quote") = [m EXCEPT !.at = "closed"]
      /\ b # "quote" => Doubled!ReadInside(m, b) = Adds(m, b, "quoted")
  BY TextSteps DEF Doubled!ReadInside
<1>2. /\ Backslash!ReadInside(m, "quote") = [m EXCEPT !.at = "closed"]
      /\ b # "quote" /\ b # "bslash" => Backslash!ReadInside(m, b) = Adds(m, b, "quoted")
      /\ Backslash!ReadInside(m, "bslash") = [m EXCEPT !.at = "escaped"]
  BY TextSteps DEF Backslash!ReadInside
<1>3. \A x : Doubled!ReadByte(m, x) = Doubled!ReadInside(m, x)
  BY DEF Doubled!ReadByte
<1>4. \A x : Backslash!ReadByte(m, x) = Backslash!ReadInside(m, x)
  BY DEF Backslash!ReadByte
<1>5. CASE e = "doubled"
  BY <1>1, <1>3, <1>5 DEF Step
<1>6. CASE e = "backslash"
  BY <1>2, <1>4, <1>6 DEF Step
<1> QED BY <1>5, <1>6 DEF Escapes

\* The second byte of an escape.
LEMMA SecondStep ==
  ASSUME NEW m, NEW b
  PROVE  /\ m.at = "closed" => Step("doubled", m, "quote") = Adds(m, "quote", "quoted")
         /\ m.at = "escaped" /\ b \in {"quote", "bslash"} =>
               Step("backslash", m, b) = Adds(m, b, "quoted")
<1>1. Doubled!ReadClosed(m, "quote") = Adds(m, "quote", "quoted")
  BY TextSteps DEF Doubled!ReadClosed
<1>2. b \in {"quote", "bslash"} => Backslash!ReadEscaped(m, b) = Adds(m, b, "quoted")
  BY TextSteps DEF Backslash!ReadEscaped, Backslash!EscapedByte
<1>3. m.at = "closed" => Doubled!ReadByte(m, "quote") = Adds(m, "quote", "quoted")
  BY <1>1 DEF Doubled!ReadByte
<1>4. m.at = "escaped" /\ b \in {"quote", "bslash"} => Backslash!ReadByte(m, b) = Adds(m, b, "quoted")
  BY <1>2 DEF Backslash!ReadByte
<1> QED BY <1>3, <1>4 DEF Step

-----------------------------------------------------------------------------
(* What bytes lead to.                                                     *)

Leads(e, r, bytes, q) == \A t \in Seq(Byte) : Reads(e, t) = r => Reads(e, t \o bytes) = q

LEMMA NothingLeads ==
  ASSUME NEW e, NEW r
  PROVE  Leads(e, r, <<>>, r)
<1>1. \A t \in Seq(Byte) : t \o <<>> = t
  BY ConcatEmptySeq
<1> QED BY <1>1 DEF Leads

LEMMA OneLeads ==
  ASSUME NEW e, NEW r, NEW b \in Byte
  PROVE  Leads(e, r, <<b>>, Step(e, r, b))
<1> SUFFICES ASSUME NEW t \in Seq(Byte), Reads(e, t) = r PROVE Reads(e, t \o <<b>>) = Step(e, r, b)
  BY DEF Leads
<1>1. Append(t, b) = t \o <<b>>
  BY AppendIsConcat
<1>2. Reads(e, Append(t, b)) = Step(e, Reads(e, t), b)
  BY ReadOneMore
<1> QED BY <1>1, <1>2

LEMMA BothLead ==
  ASSUME NEW e, NEW r, NEW u \in Seq(Byte), NEW q, NEW v \in Seq(Byte), NEW s,
         Leads(e, r, u, q), Leads(e, q, v, s)
  PROVE  Leads(e, r, u \o v, s)
<1> SUFFICES ASSUME NEW t \in Seq(Byte), Reads(e, t) = r PROVE Reads(e, t \o (u \o v)) = s
  BY DEF Leads
<1>1. PICK tu \in Seq(Byte) : tu = t \o u
  BY ConcatProperties
<1>2. Reads(e, tu) = q
  BY <1>1 DEF Leads
<1>3. Reads(e, tu \o v) = s
  BY <1>2 DEF Leads
<1>4. (t \o u) \o v = t \o (u \o v)
  BY ConcatAssociative
<1> QED BY <1>1, <1>3, <1>4

\* Bytes in parts, each of which leads from one reading of p to the next.
LEMMA PartsLead ==
  ASSUME NEW e, NEW parts \in Seq(Seq(Byte)), NEW p,
         \A k \in 1..Len(parts) : Leads(e, p[k - 1], parts[k], p[k])
  PROVE  Leads(e, p[0], FlattenSeq(parts), p[Len(parts)])
<1> DEFINE N == Len(parts)
<1>1. N \in Nat /\ \A k \in 1..N : parts[k] \in Seq(Byte)
  BY LenProperties, ElementOfSeq
<1>2. PICK v : IsJoin(v, Byte, parts) /\ FlattenSeq(parts) = v[N]
  BY FlattenSeqJoins
<1>3. v \in [0..N -> Seq(Byte)] /\ v[0] = <<>> /\ \A k \in 1..N : v[k] = v[k - 1] \o parts[k]
  BY <1>2 DEF IsJoin
<1>4. \A k \in 1..N : Leads(e, p[k - 1], parts[k], p[k])
  OBVIOUS
<1> HIDE DEF N
<1> DEFINE In == {k \in Nat : k <= N => Leads(e, p[0], v[k], p[k])}
<1>5. 0 \in In
  BY <1>3, NothingLeads
<1>6. ASSUME NEW k \in Nat, k \in In PROVE k + 1 \in In
  <2>1. CASE k + 1 <= N
    <3>1. PICK m \in 1..N : m = k + 1 /\ m - 1 = k /\ k \in 0..N
      BY <1>1, <2>1
    <3>2. PICK a \in Seq(Byte), b \in Seq(Byte) : a = v[k] /\ b = parts[m]
      BY <1>1, <1>3, <3>1
    <3>3. Leads(e, p[0], a, p[k])
      BY <1>6, <2>1, <3>1, <3>2
    <3>4. Leads(e, p[k], b, p[m])
      BY <1>4, <3>1, <3>2
    <3>5. Leads(e, p[0], a \o b, p[m])
      BY <3>3, <3>4, BothLead
    <3>6. v[m] = a \o b
      BY <1>3, <3>1, <3>2
    <3>7. m \in In
      <4>1. m \in Nat /\ Leads(e, p[0], v[m], p[m])
        BY <1>1, <3>1, <3>5, <3>6
      <4> QED BY <4>1
    <3> HIDE DEF In
    <3> QED BY <3>1, <3>7
  <2>2. CASE ~(k + 1 <= N)
    BY <2>2
  <2> QED BY <2>1, <2>2
<1>7. N \in In
  <2> HIDE DEF In
  <2> QED BY <1>1, <1>5, <1>6, NatSetInduction
<1> QED BY <1>1, <1>2, <1>7 DEF N

-----------------------------------------------------------------------------
(* The bytes of a sequence of writes.                                      *)

WriteSet == [bytes : Seq(Byte), null : BOOLEAN, heap : BOOLEAN]
PartsOf(writes) == [i \in DOMAIN writes |-> writes[i].bytes]

LEMMA OneBuilt ==
  ASSUME NEW S, NEW x \in S
  PROVE  \E s \in Seq(S) : s = <<x>> /\ Len(s) = 1 /\ s[1] = x
<1>1. <<x>> \in Seq(S)
  BY OneIsSeq
<1>2. Len(<<x>>) = 1 /\ <<x>>[1] = x
  OBVIOUS
<1> QED BY <1>1, <1>2

LEMMA BothBuilt ==
  ASSUME NEW S, NEW s \in Seq(S), NEW t \in Seq(S), NEW c, c = s \o t, NEW a, a = Len(s),
         NEW b, b = Len(t)
  PROVE  /\ c \in Seq(S) /\ a \in Nat /\ b \in Nat /\ Len(c) = a + b
         /\ \A i \in 1..a : c[i] = s[i]
         /\ \A i \in 1..(a + b) : ~(i <= a) => c[i] = t[i - a]
<1>1. s \o t \in Seq(S) /\ Len(s \o t) = Len(s) + Len(t)
      /\ \A i \in 1..(Len(s) + Len(t)) : (s \o t)[i] = IF i <= Len(s) THEN s[i] ELSE t[i - Len(s)]
  BY ConcatProperties
<1>2. a \in Nat /\ b \in Nat
  BY LenProperties
<1>3. \A i \in 1..a : i \in 1..(a + b) /\ i <= a
  BY <1>2
<1> QED BY <1>1, <1>2, <1>3

LEMMA PartsBuilt ==
  ASSUME NEW S, NEW s \in Seq(Seq(S)), NEW t \in Seq(Seq(S)), NEW c, c = s \o t,
         NEW a, a = Len(s), NEW b, b = Len(t)
  PROVE  /\ c \in Seq(Seq(S)) /\ Len(c) = a + b
         /\ \A i \in 1..a : c[i] = s[i]
         /\ \A i \in 1..(a + b) : ~(i <= a) => c[i] = t[i - a]
<1>1. c \in Seq(Seq(S))
  BY BothBuilt
<1>2. Len(c) = a + b
  BY BothBuilt
<1>3. \A i \in 1..a : c[i] = s[i]
  BY BothBuilt
<1>4. \A i \in 1..(a + b) : ~(i <= a) => c[i] = t[i - a]
  BY BothBuilt
<1> QED BY <1>1, <1>2, <1>3, <1>4

LEMMA PartsType ==
  ASSUME NEW writes \in Seq(WriteSet)
  PROVE  /\ PartsOf(writes) \in Seq(Seq(Byte)) /\ Len(PartsOf(writes)) = Len(writes)
         /\ \A i \in 1..Len(writes) : PartsOf(writes)[i] = writes[i].bytes /\ writes[i].bytes \in Seq(Byte)
<1>1. Len(writes) \in Nat /\ DOMAIN writes = 1..Len(writes) /\ \A i \in 1..Len(writes) : writes[i] \in WriteSet
  BY LenProperties, ElementOfSeq
<1>2. PICK n \in Nat : n = Len(writes)
  BY <1>1
<1>3. \A i \in 1..n : writes[i].bytes \in Seq(Byte)
  BY <1>1, <1>2 DEF WriteSet
<1>4. PICK f \in [1..n -> Seq(Byte)] : f = PartsOf(writes)
  BY <1>1, <1>2, <1>3 DEF PartsOf
<1>5. f \in Seq(Seq(Byte)) /\ Len(f) = n
  BY TupleIsSeq
<1>6. \A i \in 1..n : f[i] = writes[i].bytes
  BY <1>1, <1>2, <1>4 DEF PartsOf
<1> QED BY <1>2, <1>3, <1>4, <1>5, <1>6

LEMMA AllBytesType ==
  ASSUME NEW writes \in Seq(WriteSet)
  PROVE  AllBytes(writes) = FlattenSeq(PartsOf(writes)) /\ AllBytes(writes) \in Seq(Byte)
<1>1. AllBytes(writes) = FlattenSeq(PartsOf(writes))
  BY DEF AllBytes, PartsOf
<1>2. PICK p \in Seq(Seq(Byte)) : p = PartsOf(writes)
  BY PartsType
<1>3. FlattenSeq(p) \in Seq(Byte)
  BY FlattenSeqType
<1> QED BY <1>1, <1>2, <1>3

LEMMA AllBytesBoth ==
  ASSUME NEW v \in Seq(WriteSet), NEW w1 \in Seq(WriteSet)
  PROVE  /\ v \o w1 \in Seq(WriteSet)
         /\ AllBytes(v \o w1) = AllBytes(v) \o AllBytes(w1)
<1>1. PICK a \in Nat, b \in Nat : a = Len(v) /\ b = Len(w1)
  BY LenProperties
<1>2. PICK vw \in Seq(WriteSet) : vw = v \o w1
  BY ConcatProperties
<1>3. Len(vw) = a + b /\ \A i \in 1..(a + b) : vw[i] = IF i <= a THEN v[i] ELSE w1[i - a]
  BY <1>1, <1>2, ConcatProperties
<1>4. PICK p \in Seq(Seq(Byte)) : p = PartsOf(v) /\ Len(p) = a /\ \A i \in 1..a : p[i] = v[i].bytes
  BY <1>1, PartsType
<1>5. PICK q \in Seq(Seq(Byte)) : q = PartsOf(w1) /\ Len(q) = b /\ \A i \in 1..b : q[i] = w1[i].bytes
  BY <1>1, PartsType
<1>6. PICK pq \in Seq(Seq(Byte)) : /\ pq = PartsOf(vw) /\ Len(pq) = a + b
                                   /\ \A i \in 1..(a + b) : pq[i] = vw[i].bytes
  BY <1>3, PartsType
<1>7. PICK x : x = p \o q
  OBVIOUS
<1>71. /\ x \in Seq(Seq(Byte)) /\ Len(x) = a + b /\ (\A i \in 1..a : x[i] = p[i])
       /\ \A i \in 1..(a + b) : ~(i <= a) => x[i] = q[i - a]
  <2>1. a = Len(p) /\ b = Len(q)
    BY <1>4, <1>5
  <2>2. x \in Seq(Seq(Byte))
    BY <1>7, <2>1, PartsBuilt
  <2>3. Len(x) = a + b
    BY <1>7, <2>1, PartsBuilt
  <2>4. \A i \in 1..a : x[i] = p[i]
    BY <1>7, <2>1, PartsBuilt
  <2>5. \A i \in 1..(a + b) : ~(i <= a) => x[i] = q[i - a]
    BY <1>7, <2>1, PartsBuilt
  <2> QED BY <2>2, <2>3, <2>4, <2>5
<1>8. ASSUME NEW i \in 1..(a + b) PROVE pq[i] = x[i]
  <2>1. CASE i <= a
    <3>1. i \in 1..a
      BY <2>1
    <3>2. pq[i] = vw[i].bytes /\ vw[i] = v[i]
      BY <1>3, <1>6, <2>1
    <3>3. x[i] = p[i] /\ p[i] = v[i].bytes
      BY <1>4, <1>71, <2>1, <3>1
    <3> QED BY <3>2, <3>3
  <2>2. CASE ~(i <= a)
    <3>1. PICK j \in 1..b : j = i - a
      BY <2>2
    <3>2. vw[i] = w1[j] /\ x[i] = q[j]
      BY <1>3, <1>71, <2>2, <3>1
    <3> QED BY <1>5, <1>6, <3>2
  <2> QED BY <2>1, <2>2
<1>9. Len(pq) = Len(x) /\ \A i \in 1..Len(pq) : pq[i] = x[i]
  BY <1>6, <1>71, <1>8
<1>10. pq = x
  BY <1>71, <1>9, SeqEqual
<1>11. FlattenSeq(p \o q) = FlattenSeq(p) \o FlattenSeq(q)
  BY FlattenSeqBoth
<1>12. /\ AllBytes(v) = FlattenSeq(p) /\ AllBytes(w1) = FlattenSeq(q)
       /\ AllBytes(vw) = FlattenSeq(pq)
  BY <1>4, <1>5, <1>6, AllBytesType
<1> QED BY <1>2, <1>7, <1>10, <1>11, <1>12

LEMMA AllBytesOne ==
  ASSUME NEW x \in WriteSet
  PROVE  <<x>> \in Seq(WriteSet) /\ AllBytes(<<x>>) = x.bytes
<1>1. PICK s \in Seq(WriteSet) : s = <<x>> /\ Len(s) = 1 /\ s[1] = x
  BY OneBuilt
<1>2. PICK b \in Seq(Byte) : b = x.bytes
  BY DEF WriteSet
<1>3. PICK p \in Seq(Seq(Byte)) : p = PartsOf(s) /\ Len(p) = 1 /\ p[1] = b
  <2>1. PICK p \in Seq(Seq(Byte)) : p = PartsOf(s) /\ Len(p) = Len(s) /\ \A i \in 1..Len(s) : p[i] = s[i].bytes
    BY PartsType
  <2>2. 1 \in 1..Len(s)
    BY <1>1
  <2> QED BY <1>1, <1>2, <2>1, <2>2
<1>4. PICK t \in Seq(Seq(Byte)) : t = <<b>> /\ Len(t) = 1 /\ t[1] = b
  BY OneBuilt
<1>5. p = t
  <2>1. Len(p) = Len(t) /\ \A i \in 1..Len(p) : p[i] = t[i]
    BY <1>3, <1>4
  <2> QED BY <2>1, SeqEqual
<1>6. FlattenSeq(<<b>>) = b
  BY FlattenSeqOne
<1> QED BY <1>1, <1>2, <1>3, <1>4, <1>5, <1>6, AllBytesType

LEMMA AllBytesNone == <<>> \in Seq(WriteSet) /\ AllBytes(<<>>) = <<>>
<1>1. <<>> \in Seq(WriteSet)
  BY EmptySeq
<1>2. PICK p \in Seq(Seq(Byte)) : p = PartsOf(<<>>) /\ Len(p) = 0
  <2>1. Len(<<>>) = 0
    BY EmptySeq
  <2> QED BY <1>1, <2>1, PartsType
<1>3. p = <<>>
  BY <1>2, EmptySeq
<1> QED BY <1>1, <1>2, <1>3, AllBytesType, FlattenSeqEmpty

\* The first write, and the others.
LEMMA AllBytesFirst ==
  ASSUME NEW writes \in Seq(WriteSet), writes # <<>>
  PROVE  /\ Head(writes) \in WriteSet /\ Tail(writes) \in Seq(WriteSet)
         /\ AllBytes(writes) = Head(writes).bytes \o AllBytes(Tail(writes))
<1>1. PICK h \in WriteSet : h = Head(writes)
  BY HeadTailProperties
<1>2. PICK t \in Seq(WriteSet) : t = Tail(writes)
  BY HeadTailProperties
<1>3. writes = <<h>> \o t
  <2>1. PICK s \in Seq(WriteSet) : s = <<h>> /\ Len(s) = 1 /\ s[1] = h
    BY OneBuilt
  <2>2. PICK n \in Nat : Len(writes) = n + 1
    <3>1. Len(writes) \in Nat /\ Len(writes) # 0
      BY EmptySeq, LenProperties
    <3>2. Len(writes) - 1 \in Nat /\ Len(writes) = (Len(writes) - 1) + 1
      BY <3>1
    <3> QED BY <3>2
  <2>3. Len(t) = n /\ \A i \in 1..n : t[i] = writes[i + 1]
    <3>1. Len(t) = n
      BY <1>2, <2>2, HeadTailProperties
    <3> QED BY <1>2, <3>1, HeadTailProperties
  <2>4. PICK c : c = s \o t
    OBVIOUS
  <2>41. /\ c \in Seq(WriteSet) /\ Len(c) = 1 + n /\ (\A i \in 1..1 : c[i] = s[i])
         /\ \A i \in 1..(1 + n) : ~(i <= 1) => c[i] = t[i - 1]
    BY <2>1, <2>3, <2>4, BothBuilt
  <2>5. ASSUME NEW i \in 1..(n + 1) PROVE c[i] = writes[i]
    <3>1. CASE i = 1
      BY <1>1, <2>1, <2>41, <3>1
    <3>2. CASE i # 1
      <4>1. PICK j \in 1..n : i = j + 1 /\ j = i - 1 /\ ~(i <= 1)
        <5>1. i - 1 \in 1..n /\ i = (i - 1) + 1 /\ ~(i <= 1)
          BY <3>2
        <5> QED BY <5>1
      <4> QED BY <2>3, <2>41, <4>1
    <3> QED BY <3>1, <3>2
  <2>6. Len(c) = Len(writes) /\ \A i \in 1..Len(c) : c[i] = writes[i]
    BY <2>2, <2>41, <2>5
  <2>7. c = writes
    BY <2>41, <2>6, SeqEqual
  <2> QED BY <2>1, <2>4, <2>7
<1>4. <<h>> \in Seq(WriteSet) /\ AllBytes(<<h>>) = h.bytes
  BY AllBytesOne
<1>5. PICK s \in Seq(WriteSet) : s = <<h>>
  BY <1>4
<1>6. AllBytes(s \o t) = AllBytes(s) \o AllBytes(t)
  BY AllBytesBoth
<1> QED BY <1>1, <1>2, <1>3, <1>4, <1>5, <1>6

\* One call after the other.
LEMMA WritesLead ==
  ASSUME NEW e, NEW r, NEW u \in Seq(WriteSet), NEW q, NEW v \in Seq(WriteSet), NEW s,
         Leads(e, r, AllBytes(u), q), Leads(e, q, AllBytes(v), s)
  PROVE  u \o v \in Seq(WriteSet) /\ Leads(e, r, AllBytes(u \o v), s)
<1>1. PICK a \in Seq(Byte), b \in Seq(Byte) : a = AllBytes(u) /\ b = AllBytes(v)
  BY AllBytesType
<1>2. Leads(e, r, a \o b, s)
  BY <1>1, BothLead
<1>3. u \o v \in Seq(WriteSet) /\ AllBytes(u \o v) = AllBytes(u) \o AllBytes(v)
  BY AllBytesBoth
<1> QED BY <1>1, <1>2, <1>3

LEMMA GroupsLead ==
  ASSUME NEW e, NEW groups \in Seq(Seq(WriteSet)), NEW p,
         \A k \in 1..Len(groups) : Leads(e, p[k - 1], AllBytes(groups[k]), p[k])
  PROVE  /\ FlattenSeq(groups) \in Seq(WriteSet)
         /\ Leads(e, p[0], AllBytes(FlattenSeq(groups)), p[Len(groups)])
<1> DEFINE N == Len(groups)
<1>1. N \in Nat /\ \A k \in 1..N : groups[k] \in Seq(WriteSet)
  BY LenProperties, ElementOfSeq
<1>2. PICK v : IsJoin(v, WriteSet, groups) /\ FlattenSeq(groups) = v[N]
  BY FlattenSeqJoins
<1>3. v \in [0..N -> Seq(WriteSet)] /\ v[0] = <<>> /\ \A k \in 1..N : v[k] = v[k - 1] \o groups[k]
  BY <1>2 DEF IsJoin
<1>4. \A k \in 1..N : Leads(e, p[k - 1], AllBytes(groups[k]), p[k])
  OBVIOUS
<1> HIDE DEF N
<1> DEFINE In == {k \in Nat : k <= N => Leads(e, p[0], AllBytes(v[k]), p[k])}
<1>5. 0 \in In
  BY <1>3, NothingLeads, AllBytesNone
<1>6. ASSUME NEW k \in Nat, k \in In PROVE k + 1 \in In
  <2>1. CASE k + 1 <= N
    <3>1. PICK m \in 1..N : m = k + 1 /\ m - 1 = k /\ k \in 0..N
      BY <1>1, <2>1
    <3>2. PICK a \in Seq(WriteSet), b \in Seq(WriteSet) : a = v[k] /\ b = groups[m]
      BY <1>1, <1>3, <3>1
    <3>3. Leads(e, p[0], AllBytes(a), p[k])
      BY <1>6, <2>1, <3>1, <3>2
    <3>4. Leads(e, p[k], AllBytes(b), p[m])
      BY <1>4, <3>1, <3>2
    <3>5. Leads(e, p[0], AllBytes(a \o b), p[m])
      BY <3>3, <3>4, WritesLead
    <3>6. v[m] = a \o b
      BY <1>3, <3>1, <3>2
    <3>7. m \in In
      <4>1. m \in Nat /\ Leads(e, p[0], AllBytes(v[m]), p[m])
        BY <1>1, <3>1, <3>5, <3>6
      <4> QED BY <4>1
    <3> HIDE DEF In
    <3> QED BY <3>1, <3>7
  <2>2. CASE ~(k + 1 <= N)
    BY <2>2
  <2> QED BY <2>1, <2>2
<1>7. N \in In
  <2> HIDE DEF In
  <2> QED BY <1>1, <1>5, <1>6, NatSetInduction
<1>8. v[N] \in Seq(WriteSet)
  BY <1>1, <1>3
<1> QED BY <1>1, <1>2, <1>7, <1>8 DEF N


-----------------------------------------------------------------------------
(* The bytes of a field.                                                   *)

\* Bytes read one by one, each of which takes one reading of p to the next.
LEMMA BytesLead ==
  ASSUME NEW e, NEW f \in Seq(Byte), NEW p,
         \A k \in 1..Len(f) : Step(e, p[k - 1], f[k]) = p[k]
  PROVE  Leads(e, p[0], f, p[Len(f)])
<1> DEFINE N == Len(f)
           L(k) == Leads(e, p[0], SubSeq(f, 1, k), p[k])
           In == {k \in Nat : k <= N => L(k)}
<1>1. N \in Nat /\ \A k \in 1..N : f[k] \in Byte
  BY LenProperties, ElementOfSeq
<1>2. 0 \in In
  <2>1. SubSeq(f, 1, 0) = <<>>
    BY SubSeqEmpty
  <2>2. L(0)
    BY <2>1, NothingLeads
  <2> HIDE DEF L
  <2> QED BY <2>2
<1>3. ASSUME NEW k \in Nat, k \in In PROVE k + 1 \in In
  <2>1. CASE k + 1 <= N
    <3>1. PICK m \in 1..N : m = k + 1 /\ m - 1 = k
      BY <1>1, <2>1
    <3>2. PICK a \in Seq(Byte) : a = SubSeq(f, 1, k)
      <4>1. SubSeq(f, 1, k) \in Seq(Byte)
        BY <1>1, <2>1, PrefixType
      <4> QED BY <4>1
    <3>3. PICK b \in Byte : b = f[m]
      BY <1>1, <3>1
    <3>4. SubSeq(f, 1, m) = a \o <<b>> /\ <<b>> \in Seq(Byte)
      <4>1. SubSeq(f, 1, k + 1) = Append(SubSeq(f, 1, k), f[k + 1])
        BY <2>1, SubSeqOneMore
      <4>2. Append(a, b) = a \o <<b>> /\ <<b>> \in Seq(Byte)
        BY AppendIsConcat, OneIsSeq
      <4> QED BY <3>1, <3>2, <3>3, <4>1, <4>2
    <3>5. Leads(e, p[0], a, p[k])
      BY <1>1, <1>3, <2>1, <3>2
    <3>6. Leads(e, p[k], <<b>>, p[m])
      <4>1. Step(e, p[k], b) = p[m]
        BY <3>1, <3>3
      <4>2. Leads(e, p[k], <<b>>, Step(e, p[k], b))
        BY OneLeads
      <4> QED BY <4>1, <4>2
    <3>7. Leads(e, p[0], a \o <<b>>, p[m])
      BY <3>4, <3>5, <3>6, BothLead
    <3>8. L(m)
      BY <3>4, <3>7
    <3> HIDE DEF L
    <3> QED BY <3>1, <3>8
  <2>2. CASE ~(k + 1 <= N)
    BY <2>2
  <2> QED BY <2>1, <2>2
<1>4. L(N)
  <2>1. N \in In
    <3> HIDE DEF In
    <3> QED BY <1>1, <1>2, <1>3, NatSetInduction
  <2> HIDE DEF L
  <2> QED BY <1>1, <2>1
<1>5. SubSeq(f, 1, N) = f
  BY SubSeqFull
<1> QED BY <1>4, <1>5

LEMMA AtAt == \A where, R, F, c : At(where, R, F, c).at = where
BY DEF At

LEMMA AtMoves == \A where, R, F, c, x : [At(where, R, F, c) EXCEPT !.at = x] = At(x, R, F, c)
BY DEF At

LEMMA AtAdds ==
  \A where, R, F, c, x, b : Adds(At(where, R, F, c), b, x) = At(x, R, F, Append(c, b))
<1> SUFFICES ASSUME NEW where, NEW R, NEW F, NEW c, NEW x, NEW b
             PROVE  Adds(At(where, R, F, c), b, x) = At(x, R, F, Append(c, b))
  OBVIOUS
<1>1. PICK m : m = At(where, R, F, c)
  OBVIOUS
<1>2. \A y, d : Adds(m, d, y) = At(y, R, F, Append(c, d))
  BY <1>1, AtFields
<1> QED BY <1>1, <1>2

LEMMA AtCloses ==
  \A where, R, F, c : /\ Closes(At(where, R, F, c)) = At("field", R, Append(F, c), <<>>)
                      /\ Ends(At(where, R, F, c)) = At("record", Append(R, Append(F, c)), <<>>, <<>>)
<1> SUFFICES ASSUME NEW where, NEW R, NEW F, NEW c
             PROVE  /\ Closes(At(where, R, F, c)) = At("field", R, Append(F, c), <<>>)
                    /\ Ends(At(where, R, F, c)) = At("record", Append(R, Append(F, c)), <<>>, <<>>)
  OBVIOUS
<1>1. PICK m : m = At(where, R, F, c)
  OBVIOUS
<1>2. /\ Closes(m) = At("field", R, Append(F, c), <<>>)
      /\ Ends(m) = At("record", Append(R, Append(F, c)), <<>>, <<>>)
  BY <1>1, AtFields
<1> QED BY <1>1, <1>2

LEMMA TwoBytes == \A x, y : <<x>> \o <<y>> = <<x, y>>
<1> SUFFICES ASSUME NEW x, NEW y PROVE <<x>> \o <<y>> = <<x, y>>
  OBVIOUS
<1>1. <<x>> \in Seq({x, y})
  BY OneIsSeq
<1>2. Append(<<x>>, y) = <<x>> \o <<y>>
  BY <1>1, AppendIsConcat
<1>3. Append(<<x>>, y) = <<x, y>>
  <2>1. PICK o \in Seq({x, y}) : o = <<x>> /\ Len(o) = 1 /\ o[1] = x
    BY OneBuilt
  <2>2. PICK s \in Seq({x, y}) : s = Append(o, y) /\ Len(s) = 2 /\ s[1] = x /\ s[2] = y
    <3>1. Append(o, y) \in Seq({x, y}) /\ Len(Append(o, y)) = Len(o) + 1
          /\ (\A i \in 1..Len(o) : Append(o, y)[i] = o[i]) /\ Append(o, y)[Len(o) + 1] = y
      BY AppendProperties
    <3>2. Len(o) + 1 = 2 /\ 1 \in 1..Len(o)
      BY <2>1
    <3> QED BY <2>1, <3>1, <3>2
  <2>3. PICK t \in Seq({x, y}) : t = <<x, y>> /\ Len(t) = 2 /\ t[1] = x /\ t[2] = y
    <3>1. <<x, y>> \in Seq({x, y})
      OBVIOUS
    <3>2. Len(<<x, y>>) = 2 /\ <<x, y>>[1] = x /\ <<x, y>>[2] = y
      OBVIOUS
    <3> QED BY <3>1, <3>2
  <2>4. Len(s) = Len(t) /\ \A i \in 1..Len(s) : s[i] = t[i]
    BY <2>2, <2>3
  <2>5. s = t
    BY <2>4, SeqEqual
  <2> QED BY <2>1, <2>2, <2>3, <2>5
<1> QED BY <1>2, <1>3

\* A byte as csv_field_escape writes it.
LEMMA EscapedByteLeads ==
  ASSUME opts.escape \in {"doubled", "backslash"}, NEW R, NEW F, NEW c, NEW b \in Byte
  PROVE  /\ EscapedByte(b) \in Seq(Byte)
         /\ Leads(opts.escape, At("quoted", R, F, c), EscapedByte(b), At("quoted", R, F, Append(c, b)))
<1> DEFINE e == opts.escape
           q == At("quoted", R, F, Append(c, b))
<1>1. PICK m : m = At("quoted", R, F, c)
  OBVIOUS
<1>2. /\ m.at = "quoted" /\ Adds(m, b, "quoted") = q
      /\ \A x : [m EXCEPT !.at = x] = At(x, R, F, c)
  BY <1>1, AtAt, AtAdds, AtMoves
<1>3. e \in Escapes
  BY DEF Escapes
<1>4. <<b>> \in Seq(Byte) /\ <<"bslash">> \in Seq(Byte)
  BY OneIsSeq, ByteFacts
<1>5. CASE e = "doubled" /\ b = "quote"
  <2>1. EscapedByte(b) = <<"quote", "quote">>
    BY <1>5 DEF EscapedByte
  <2>2. PICK n : n = At("closed", R, F, c)
    OBVIOUS
  <2>3. n.at = "closed" /\ Adds(n, "quote", "quoted") = At("quoted", R, F, Append(c, "quote"))
    BY <2>2, AtAt, AtAdds
  <2>4. Step(e, m, "quote") = n
    BY <1>2, <1>3, <2>2, InsideStep
  <2>5. Step(e, n, "quote") = q
    BY <1>5, <2>3, SecondStep
  <2>6. Leads(e, m, <<"quote">>, n) /\ Leads(e, n, <<"quote">>, q)
    BY <2>4, <2>5, OneLeads, ByteFacts
  <2>7. <<"quote">> \in Seq(Byte) /\ <<"quote">> \o <<"quote">> = <<"quote", "quote">>
    BY <1>4, <1>5, TwoBytes
  <2>8. Leads(e, m, <<"quote">> \o <<"quote">>, q) /\ <<"quote">> \o <<"quote">> \in Seq(Byte)
    BY <2>6, <2>7, BothLead, ConcatProperties
  <2> QED BY <1>1, <2>1, <2>7, <2>8
<1>6. CASE e = "backslash" /\ b \in {"quote", "bslash"}
  <2>1. EscapedByte(b) = <<"bslash", b>>
    BY <1>6 DEF EscapedByte
  <2>2. PICK n : n = At("escaped", R, F, c)
    OBVIOUS
  <2>3. n.at = "escaped" /\ Adds(n, b, "quoted") = q
    BY <2>2, AtAt, AtAdds
  <2>4. Step(e, m, "bslash") = n
    BY <1>2, <1>3, <1>6, <2>2, InsideStep
  <2>5. Step(e, n, b) = q
    BY <1>6, <2>3, SecondStep
  <2>6. Leads(e, m, <<"bslash">>, n) /\ Leads(e, n, <<b>>, q)
    BY <2>4, <2>5, OneLeads, ByteFacts
  <2>7. <<"bslash">> \o <<b>> = <<"bslash", b>>
    BY TwoBytes
  <2>8. Leads(e, m, <<"bslash">> \o <<b>>, q) /\ <<"bslash">> \o <<b>> \in Seq(Byte)
    BY <1>4, <2>6, BothLead, ConcatProperties
  <2> QED BY <1>1, <2>1, <2>7, <2>8
<1>7. CASE ~(e = "doubled" /\ b = "quote") /\ ~(e = "backslash" /\ b \in {"quote", "bslash"})
  <2>1. EscapedByte(b) = <<b>>
    BY <1>7 DEF EscapedByte
  <2>2. b # "quote" /\ (e = "doubled" \/ b # "bslash")
    BY <1>7
  <2>3. Step(e, m, b) = q
    BY <1>2, <1>3, <2>2, InsideStep
  <2>4. Leads(e, m, <<b>>, q)
    BY <2>3, OneLeads
  <2> QED BY <1>1, <1>4, <2>1, <2>4
<1> QED BY <1>5, <1>6, <1>7

LEMMA EscapedLeads ==
  ASSUME opts.escape \in {"doubled", "backslash"}, NEW R, NEW F, NEW f \in Seq(Byte)
  PROVE  /\ Escaped(f) \in Seq(Byte)
         /\ Leads(opts.escape, At("quoted", R, F, <<>>), Escaped(f), At("quoted", R, F, f))
<1> DEFINE N == Len(f)
           p == [k \in 0..N |-> At("quoted", R, F, SubSeq(f, 1, k))]
<1>1. N \in Nat /\ DOMAIN f = 1..N /\ \A k \in 1..N : f[k] \in Byte
  BY LenProperties, ElementOfSeq
<1>2. \A b \in Byte : EscapedByte(b) \in Seq(Byte)
  BY EscapedByteLeads
<1>3. PICK n \in Nat : n = N
  BY <1>1
<1>4. PICK g \in [1..n -> Seq(Byte)] : g = [i \in DOMAIN f |-> EscapedByte(f[i])]
  BY <1>1, <1>2, <1>3
<1>5. g \in Seq(Seq(Byte)) /\ Len(g) = n
  BY TupleIsSeq
<1>6. Escaped(f) = FlattenSeq(g)
  BY <1>4 DEF Escaped
<1>7. ASSUME NEW k \in 1..n PROVE Leads(opts.escape, p[k - 1], g[k], p[k])
  <2>1. PICK j \in 0..n : j = k - 1 /\ k = j + 1 /\ j \in Nat /\ k \in 0..n
    BY <1>3
  <2>2. PICK b \in Byte : b = f[k]
    BY <1>1, <1>3
  <2>3. SubSeq(f, 1, k) = Append(SubSeq(f, 1, j), b)
    BY <1>1, <1>3, <2>1, <2>2, SubSeqOneMore
  <2>4. g[k] = EscapedByte(b)
    BY <1>1, <1>3, <1>4, <2>2
  <2>5. p[j] = At("quoted", R, F, SubSeq(f, 1, j)) /\ p[k] = At("quoted", R, F, SubSeq(f, 1, k))
    BY <1>3, <2>1
  <2>6. Leads(opts.escape, At("quoted", R, F, SubSeq(f, 1, j)), EscapedByte(b),
              At("quoted", R, F, Append(SubSeq(f, 1, j), b)))
    BY EscapedByteLeads
  <2> HIDE DEF p
  <2> QED BY <2>1, <2>3, <2>4, <2>5, <2>6
<1>8. p[0] = At("quoted", R, F, <<>>) /\ p[n] = At("quoted", R, F, f)
  <2>1. SubSeq(f, 1, 0) = <<>> /\ SubSeq(f, 1, N) = f
    BY SubSeqEmpty, SubSeqFull
  <2>2. 0 \in 0..N /\ N \in 0..N
    BY <1>1
  <2> QED BY <1>3, <2>1, <2>2
<1> HIDE DEF p
<1>9. Leads(opts.escape, p[0], FlattenSeq(g), p[Len(g)])
  BY <1>5, <1>7, PartsLead
<1>10. FlattenSeq(g) \in Seq(Byte)
  BY <1>5, FlattenSeqType
<1> QED BY <1>5, <1>6, <1>8, <1>9, <1>10

\* A field without quotes.
LEMMA PlainLeads ==
  ASSUME NEW e, NEW at \in {"record", "field"}, NEW R, NEW F, NEW f \in Seq(Byte),
         \A i \in 1..Len(f) : f[i] \notin {"delim", "quote", "lf"}
  PROVE  Leads(e, At(at, R, F, <<>>), f, At(IF f = <<>> THEN at ELSE "plain", R, F, f))
<1> DEFINE N == Len(f)
           Where(k) == IF k = 0 THEN at ELSE "plain"
           p == [k \in 0..N |-> At(Where(k), R, F, SubSeq(f, 1, k))]
<1>1. N \in Nat /\ \A k \in 1..N : f[k] \in Byte
  BY LenProperties, ElementOfSeq
<1>2. ASSUME NEW k \in 1..N PROVE Step(e, p[k - 1], f[k]) = p[k]
  <2>1. PICK j \in 0..N : j = k - 1 /\ k = j + 1 /\ j \in Nat /\ k \in 0..N /\ k # 0
    BY <1>1
  <2>2. PICK b : b = f[k] /\ b \notin {"delim", "quote", "lf"}
    OBVIOUS
  <2>3. SubSeq(f, 1, k) = Append(SubSeq(f, 1, j), b)
    BY <1>1, <2>1, <2>2, SubSeqOneMore
  <2>4. PICK m : m = At(Where(j), R, F, SubSeq(f, 1, j))
    OBVIOUS
  <2>5. m.at = Where(j) /\ Adds(m, b, "plain") = At("plain", R, F, Append(SubSeq(f, 1, j), b))
    BY <2>4, AtAt, AtAdds
  <2>6. Where(j) \in {"record", "field", "plain"} /\ Where(k) = "plain"
    BY <2>1
  <2>7. p[j] = m /\ p[k] = At("plain", R, F, SubSeq(f, 1, k))
    BY <2>1, <2>4, <2>6
  <2> HIDE DEF p, Where
  <2>8. Step(e, m, b) = Adds(m, b, "plain")
    BY <2>2, <2>5, <2>6, PlainStep
  <2> QED BY <2>1, <2>2, <2>3, <2>5, <2>7, <2>8
<1>3. p[0] = At(at, R, F, <<>>)
  <2>1. SubSeq(f, 1, 0) = <<>> /\ 0 \in 0..N
    BY <1>1, SubSeqEmpty
  <2> QED BY <2>1
<1>4. p[N] = At(IF f = <<>> THEN at ELSE "plain", R, F, f)
  <2>1. SubSeq(f, 1, N) = f /\ N \in 0..N
    BY <1>1, SubSeqFull
  <2>2. N = 0 <=> f = <<>>
    BY EmptySeq
  <2> QED BY <2>1, <2>2
<1> HIDE DEF p
<1>5. Leads(e, p[0], f, p[N])
  BY <1>2, BytesLead
<1> QED BY <1>3, <1>4, <1>5

-----------------------------------------------------------------------------
(* The writes of a field.                                                  *)

LEMMA EscapedByteType == \A b \in Byte : EscapedByte(b) \in Seq(Byte)
<1> SUFFICES ASSUME NEW b \in Byte PROVE EscapedByte(b) \in Seq(Byte)
  OBVIOUS
<1>1. <<b>> \in Seq(Byte) /\ <<"quote">> \in Seq(Byte) /\ <<"bslash">> \in Seq(Byte)
  BY OneIsSeq, ByteFacts
<1>2. <<"quote">> \o <<"quote">> \in Seq(Byte) /\ <<"bslash">> \o <<b>> \in Seq(Byte)
  BY <1>1, ConcatProperties
<1>3. <<"quote", "quote">> \in Seq(Byte) /\ <<"bslash", b>> \in Seq(Byte)
  BY <1>2, TwoBytes
<1> QED BY <1>1, <1>3 DEF EscapedByte

LEMMA EscapedType ==
  ASSUME NEW f \in Seq(Byte)
  PROVE  Escaped(f) \in Seq(Byte)
<1>1. Len(f) \in Nat /\ DOMAIN f = 1..Len(f) /\ \A k \in 1..Len(f) : f[k] \in Byte
  BY LenProperties, ElementOfSeq
<1>2. PICK n \in Nat : n = Len(f)
  BY <1>1
<1>3. PICK g \in [1..n -> Seq(Byte)] : g = [i \in DOMAIN f |-> EscapedByte(f[i])]
  BY <1>1, <1>2, EscapedByteType
<1>4. g \in Seq(Seq(Byte))
  BY TupleIsSeq
<1>5. FlattenSeq(g) \in Seq(Byte)
  BY <1>4, FlattenSeqType
<1> QED BY <1>3, <1>5 DEF Escaped

LEMMA WriteTypes ==
  /\ Quote \in WriteSet /\ Quote.bytes = <<"quote">>
  /\ Delimiter \in WriteSet /\ Delimiter.bytes = <<"delim">>
  /\ Newline \in WriteSet /\ Newline.bytes = <<"lf">>
  /\ NullWrite \in WriteSet /\ NullWrite.bytes = <<>>
  /\ \A f \in Seq(Byte) : /\ Write(f) \in WriteSet /\ Write(f).bytes = f
                          /\ EscapedWrite(f) \in WriteSet /\ EscapedWrite(f).bytes = Escaped(f)
<1>1. /\ <<"quote">> \in Seq(Byte) /\ <<"delim">> \in Seq(Byte) /\ <<"lf">> \in Seq(Byte)
      /\ <<>> \in Seq(Byte)
  BY OneIsSeq, ByteFacts, EmptySeq
<1>2. ASSUME NEW f \in Seq(Byte) PROVE Write(f) \in WriteSet /\ Write(f).bytes = f
  BY DEF Write, WriteSet
<1>3. ASSUME NEW f \in Seq(Byte)
      PROVE  EscapedWrite(f) \in WriteSet /\ EscapedWrite(f).bytes = Escaped(f)
  <2>1. PICK b \in Seq(Byte) : b = Escaped(f)
    BY EscapedType
  <2>2. PICK h \in BOOLEAN : h = (Len(Escaped(f)) >= StackBuffer)
    <3>1. (Len(Escaped(f)) >= StackBuffer) \in BOOLEAN
      OBVIOUS
    <3> QED BY <3>1, Zenon
  <2>3. EscapedWrite(f) = [bytes |-> b, null |-> FALSE, heap |-> h]
    BY <2>1, <2>2 DEF EscapedWrite
  <2> QED BY <2>1, <2>3 DEF WriteSet
<1>4. NullWrite \in WriteSet /\ NullWrite.bytes = <<>>
  BY <1>1 DEF NullWrite, WriteSet
<1> QED BY <1>1, <1>2, <1>3, <1>4 DEF Quote, Delimiter, Newline

LEMMA NoWrites == <<>> \in Seq(WriteSet)
BY EmptySeq

LEMMA FieldWritesType ==
  ASSUME NEW f \in Seq(Byte), NEW null \in BOOLEAN
  PROVE  FieldWrites(f, null) \in Seq(WriteSet)
<1>1. /\ <<Quote>> \in Seq(WriteSet) /\ <<EscapedWrite(f)>> \in Seq(WriteSet)
      /\ <<NullWrite>> \in Seq(WriteSet) /\ <<Write(f)>> \in Seq(WriteSet)
  BY WriteTypes, OneIsSeq
<1>2. PICK mid \in Seq(WriteSet) : mid = IF f = <<>> THEN <<>> ELSE <<EscapedWrite(f)>>
  <2>1. CASE f = <<>>
    BY <2>1, NoWrites
  <2>2. CASE f # <<>>
    BY <1>1, <2>2
  <2> QED BY <2>1, <2>2
<1>3. PICK q \in Seq(WriteSet) : q = <<Quote>>
  BY <1>1
<1>4. PICK qm \in Seq(WriteSet) : qm = q \o mid
  BY ConcatProperties
<1>5. qm \o q \in Seq(WriteSet)
  BY ConcatProperties
<1>6. <<Quote>> \o (IF f = <<>> THEN <<>> ELSE <<EscapedWrite(f)>>) \o <<Quote>> = qm \o q
  BY <1>2, <1>3, <1>4
<1> QED BY <1>1, <1>5, <1>6 DEF FieldWrites

\* Options under which the output can be read back.
Readable == opts.escape \in {"doubled", "backslash"} /\ (opts.quoteIfNeeded \/ opts.quoteAll)
\* Where a field that begins at the place ends.
EndOf(f, at) == IF NeedsQuoting(f) THEN "closed" ELSE IF f = <<>> THEN at ELSE "plain"

LEMMA OneWriteLeads ==
  ASSUME NEW e, NEW r, NEW x \in WriteSet, NEW q, Leads(e, r, x.bytes, q)
  PROVE  <<x>> \in Seq(WriteSet) /\ Leads(e, r, AllBytes(<<x>>), q)
BY AllBytesOne

LEMMA FieldLeads ==
  ASSUME Readable, NEW at \in {"record", "field"}, NEW R, NEW F, NEW f \in Seq(Byte),
         NEW null \in BOOLEAN
  PROVE  Leads(opts.escape, At(at, R, F, <<>>), AllBytes(FieldWrites(f, null)), At(EndOf(f, at), R, F, f))
<1> DEFINE e == opts.escape
<1>1. e \in Escapes /\ opts.escape \in {"doubled", "backslash"}
  BY DEF Readable, Escapes
<1>2. CASE NeedsQuoting(f)
  <2>1. Leads(e, At(at, R, F, <<>>), <<"quote">>, At("quoted", R, F, <<>>))
    <3>1. PICK m : m = At(at, R, F, <<>>)
      OBVIOUS
    <3>2. m.at \in {"record", "field"} /\ [m EXCEPT !.at = "quoted"] = At("quoted", R, F, <<>>)
      BY <3>1, AtAt, AtMoves
    <3>3. Step(e, m, "quote") = At("quoted", R, F, <<>>)
      BY <3>2, OpeningStep
    <3>4. Leads(e, m, <<"quote">>, Step(e, m, "quote"))
      BY OneLeads, ByteFacts
    <3> QED BY <3>1, <3>3, <3>4
  <2>2. Leads(e, At("quoted", R, F, f), <<"quote">>, At("closed", R, F, f))
    <3>1. PICK m : m = At("quoted", R, F, f)
      OBVIOUS
    <3>2. m.at = "quoted" /\ [m EXCEPT !.at = "closed"] = At("closed", R, F, f)
      BY <3>1, AtAt, AtMoves
    <3>3. Step(e, m, "quote") = At("closed", R, F, f)
      BY <1>1, <3>2, InsideStep, ByteFacts
    <3>4. Leads(e, m, <<"quote">>, Step(e, m, "quote"))
      BY OneLeads, ByteFacts
    <3> QED BY <3>1, <3>3, <3>4
  <2>3. PICK q \in Seq(WriteSet) : /\ q = <<Quote>>
                                   /\ Leads(e, At(at, R, F, <<>>), AllBytes(q), At("quoted", R, F, <<>>))
                                   /\ Leads(e, At("quoted", R, F, f), AllBytes(q), At("closed", R, F, f))
    <3>1. PICK x \in WriteSet : x = Quote /\ x.bytes = <<"quote">>
      BY WriteTypes
    <3>2. <<x>> \in Seq(WriteSet)
          /\ Leads(e, At(at, R, F, <<>>), AllBytes(<<x>>), At("quoted", R, F, <<>>))
      BY <2>1, <3>1, OneWriteLeads
    <3>3. Leads(e, At("quoted", R, F, f), AllBytes(<<x>>), At("closed", R, F, f))
      BY <2>2, <3>1, OneWriteLeads
    <3> QED BY <3>1, <3>2, <3>3
  <2>4. PICK mid \in Seq(WriteSet) :
            /\ mid = IF f = <<>> THEN <<>> ELSE <<EscapedWrite(f)>>
            /\ Leads(e, At("quoted", R, F, <<>>), AllBytes(mid), At("quoted", R, F, f))
    <3>1. CASE f = <<>>
      <4>1. Leads(e, At("quoted", R, F, <<>>), AllBytes(<<>>), At("quoted", R, F, f))
        BY <3>1, AllBytesNone, NothingLeads
      <4> QED BY <3>1, <4>1, NoWrites
    <3>2. CASE f # <<>>
      <4>1. Leads(e, At("quoted", R, F, <<>>), Escaped(f), At("quoted", R, F, f))
        BY <1>1, EscapedLeads
      <4>2. <<EscapedWrite(f)>> \in Seq(WriteSet)
            /\ Leads(e, At("quoted", R, F, <<>>), AllBytes(<<EscapedWrite(f)>>), At("quoted", R, F, f))
        BY <4>1, WriteTypes, OneWriteLeads
      <4> QED BY <3>2, <4>2
    <3> QED BY <3>1, <3>2
  <2>5. PICK qm \in Seq(WriteSet) :
            qm = q \o mid /\ Leads(e, At(at, R, F, <<>>), AllBytes(qm), At("quoted", R, F, f))
    <3>1. PICK r, m, s : r = At(at, R, F, <<>>) /\ m = At("quoted", R, F, <<>>) /\ s = At("quoted", R, F, f)
      OBVIOUS
    <3>2. Leads(e, r, AllBytes(q), m) /\ Leads(e, m, AllBytes(mid), s)
      BY <2>3, <2>4, <3>1
    <3>3. q \o mid \in Seq(WriteSet) /\ Leads(e, r, AllBytes(q \o mid), s)
      BY <3>2, WritesLead
    <3> QED BY <3>1, <3>3
  <2>6. Leads(e, At(at, R, F, <<>>), AllBytes(qm \o q), At("closed", R, F, f))
    BY <2>3, <2>5, WritesLead
  <2>7. FieldWrites(f, null) = qm \o q
    BY <1>2, <2>3, <2>4, <2>5 DEF FieldWrites
  <2>8. EndOf(f, at) = "closed"
    BY <1>2 DEF EndOf
  <2> QED BY <2>6, <2>7, <2>8
<1>3. CASE ~NeedsQuoting(f)
  <2>1. ~opts.quoteAll /\ opts.quoteIfNeeded /\ ~Has(f, {"delim", "quote", "lf", "cr"})
    BY <1>3 DEF Readable, NeedsQuoting
  <2>2. ~Has(f, {"quote"}) /\ \A i \in 1..Len(f) : f[i] \notin {"delim", "quote", "lf"}
    <3>1. DOMAIN f = 1..Len(f)
      BY LenProperties
    <3>2. \A i \in DOMAIN f : f[i] \notin {"delim", "quote", "lf", "cr"}
      BY <2>1 DEF Has
    <3> QED BY <3>1, <3>2 DEF Has
  <2>3. Leads(e, At(at, R, F, <<>>), f, At(IF f = <<>> THEN at ELSE "plain", R, F, f))
    BY <2>2, PlainLeads
  <2>4. EndOf(f, at) = IF f = <<>> THEN at ELSE "plain"
    BY <1>3 DEF EndOf
  <2>5. PICK x \in WriteSet : x.bytes = f /\ FieldWrites(f, null) = <<x>>
    <3>1. CASE f = <<>> /\ null
      BY <1>3, <2>2, <3>1, WriteTypes DEF FieldWrites
    <3>2. CASE ~(f = <<>> /\ null)
      BY <1>3, <2>2, <3>2, WriteTypes DEF FieldWrites
    <3> QED BY <3>1, <3>2
  <2> QED BY <2>3, <2>4, <2>5, OneWriteLeads
<1> QED BY <1>2, <1>3

-----------------------------------------------------------------------------
(* The records a reader sees.                                              *)

VisibleStep(o) == [x \in Records \X Seq(Seq(Byte)) |-> AddVisible(o, x[1], x[2])]

LEMMA VisibleStepType ==
  ASSUME NEW o
  PROVE  /\ <<>> \in Records
         /\ VisibleStep(o) \in [Records \X Seq(Seq(Byte)) -> Records]
         /\ \A r \in Records, b \in Seq(Seq(Byte)) : VisibleStep(o)[<<r, b>>] = AddVisible(o, r, b)
<1>1. ASSUME NEW r \in Records, NEW b \in Seq(Seq(Byte)) PROVE AddVisible(o, r, b) \in Records
  <2>1. Append(r, b) \in Records
    BY AppendProperties DEF Records
  <2> QED BY <2>1 DEF AddVisible
<1>2. \A x \in Records \X Seq(Seq(Byte)) : AddVisible(o, x[1], x[2]) \in Records
  BY <1>1
<1>3. <<>> \in Records
  BY EmptySeq DEF Records
<1> QED BY <1>2, <1>3 DEF VisibleStep

LEMMA VisibleFolded ==
  ASSUME NEW o, NEW seq \in Records
  PROVE  Folded(Records, VisibleStep(o), <<>>, seq, VisibleRecords(o, seq))
<1> DEFINE N == Len(seq)
           f == VisibleStep(o)
           e(g, T) == IF T = {} THEN <<>> ELSE AddVisible(o, g[T \ {Max(T)}], seq[Max(T)])
           d(g, T) == IF T = {} THEN <<>> ELSE f[<<g[T \ {Max(T)}], seq[Max(T)]>>]
           Iter(g) == g = [T \in SUBSET (1..N) |-> e(g, T)]
<1>1. N \in Nat /\ (\A k \in 1..N : seq[k] \in Seq(Seq(Byte))) /\ DOMAIN seq = 1..N
  BY LenProperties, ElementOfSeq DEF Records
<1>2. /\ <<>> \in Records /\ f \in [Records \X Seq(Seq(Byte)) -> Records]
      /\ \A r \in Records, b \in Seq(Seq(Byte)) : f[<<r, b>>] = AddVisible(o, r, b)
  BY VisibleStepType
<1> HIDE DEF f
<1>3. ASSUME NEW g, NEW T \in SUBSET (1..N), T # {} => g[T \ {Max(T)}] \in Records
      PROVE  d(g, T) = e(g, T)
  <2>1. CASE T # {}
    <3>1. Max(T) \in 1..N
      BY <1>1, <2>1, MaxIsIn
    <3>2. g[T \ {Max(T)}] \in Records /\ seq[Max(T)] \in Seq(Seq(Byte))
      BY <1>1, <1>3, <2>1, <3>1
    <3> QED BY <1>2, <2>1, <3>2
  <2> QED BY <2>1
<1>4. \E g : Iter(g)
  <2>0. seq \in Seq(Seq(Seq(Byte)))
    BY DEF Records
  <2>1. PICK g : FoldIs(g, f, <<>>, seq) /\ \A T \in SUBSET (1..N) : g[T] \in Records
    BY <1>2, <2>0, FoldExists
  <2>2. g = [T \in SUBSET (1..N) |-> d(g, T)]
    BY <2>1 DEF FoldIs
  <2>3. \A T \in SUBSET (1..N) : d(g, T) = e(g, T)
    <3> SUFFICES ASSUME NEW T \in SUBSET (1..N) PROVE d(g, T) = e(g, T)
      OBVIOUS
    <3>1. T \ {Max(T)} \in SUBSET (1..N)
      OBVIOUS
    <3>2. g[T \ {Max(T)}] \in Records
      BY <2>1, <3>1
    <3> HIDE DEF d, e
    <3> QED BY <1>3, <3>2
  <2> HIDE DEF d, e
  <2>4. Iter(g)
    BY <2>2, <2>3
  <2> QED BY <2>4
<1> DEFINE g == CHOOSE g : Iter(g)
<1>5. Iter(g)
  BY <1>4
<1>6. VisibleRecords(o, seq) = g[1..N]
  BY <1>1 DEF VisibleRecords, FoldLeft, MapThenFoldSet, Max
<1> HIDE DEF g
<1>7. g[{}] = <<>>
  <2>1. {} \in SUBSET (1..N)
    OBVIOUS
  <2> QED BY <1>5, <2>1
<1>8. ASSUME NEW T \in SUBSET (1..N), T # {}, g[T \ {Max(T)}] \in Records
      PROVE  g[T] = f[<<g[T \ {Max(T)}], seq[Max(T)]>>]
  <2>1. g[T] = e(g, T)
    BY <1>5
  <2>2. d(g, T) = e(g, T)
    BY <1>3, <1>8
  <2> QED BY <1>8, <2>1, <2>2
<1>9. \A T \in SUBSET (1..Len(seq)) : T # {} /\ g[T \ {Max(T)}] \in Records =>
         g[T] = f[<<g[T \ {Max(T)}], seq[Max(T)]>>]
  BY <1>8
<1>10. Folded(Records, f, <<>>, seq, g[1..Len(seq)])
  <2>1. seq \in Seq(Seq(Seq(Byte)))
    BY DEF Records
  <2> QED BY <1>2, <1>7, <1>9, <2>1, FoldedBySets
<1> QED BY <1>6, <1>10 DEF f

LEMMA VisibleNone ==
  ASSUME NEW o
  PROVE  VisibleRecords(o, <<>>) = <<>>
BY VisibleFolded, VisibleStepType, FoldedNothing

LEMMA VisibleOneMore ==
  ASSUME NEW o, NEW seq \in Records, NEW row \in Seq(Seq(Byte))
  PROVE  /\ VisibleRecords(o, seq) \in Records
         /\ VisibleRecords(o, Append(seq, row)) = AddVisible(o, VisibleRecords(o, seq), row)
<1>1. Append(seq, row) \in Records
  BY AppendProperties DEF Records
<1>2. PICK r, q : r = VisibleRecords(o, seq) /\ q = VisibleRecords(o, Append(seq, row))
  OBVIOUS
<1>3. Folded(Records, VisibleStep(o), <<>>, seq, r)
      /\ Folded(Records, VisibleStep(o), <<>>, Append(seq, row), q)
  BY <1>1, <1>2, VisibleFolded
<1>4. seq \in Seq(Seq(Seq(Byte)))
  BY DEF Records
<1>5. r \in Records /\ q = VisibleStep(o)[<<r, row>>]
  BY <1>3, <1>4, FoldedOneMore
<1> QED BY <1>2, <1>5, VisibleStepType

-----------------------------------------------------------------------------
(* What a call leads to.                                                   *)

\* The reading of the fields F of a record behind the rows R.
PlaceOf(f, first) == EndOf(f, IF first THEN "record" ELSE "field")
Opened(R, F) ==
    IF F = <<>> THEN At("record", R, <<>>, <<>>)
    ELSE At(PlaceOf(F[Len(F)], Len(F) = 1), R, SubSeq(F, 1, Len(F) - 1), F[Len(F)])

LEMMA OpenedMore ==
  ASSUME NEW R, NEW F \in Seq(Seq(Byte)), NEW f \in Seq(Byte)
  PROVE  Opened(R, Append(F, f)) = At(PlaceOf(f, F = <<>>), R, F, f)
<1>1. PICK n \in Nat : n = Len(F)
  BY LenProperties
<1>2. PICK G \in Seq(Seq(Byte)) : G = Append(F, f) /\ Len(G) = n + 1 /\ G[n + 1] = f
                                  /\ \A i \in 1..n : G[i] = F[i]
  <2>1. Append(F, f) \in Seq(Seq(Byte)) /\ Len(Append(F, f)) = Len(F) + 1
    BY AppendProperties
  <2>2. Append(F, f)[Len(F) + 1] = f /\ \A i \in 1..Len(F) : Append(F, f)[i] = F[i]
    BY AppendProperties
  <2> QED BY <1>1, <2>1, <2>2
<1>3. G # <<>>
  BY <1>2, EmptySeq
<1>4. n = 0 <=> F = <<>>
  BY <1>1, EmptySeq
<1>5. SubSeq(G, 1, n) = F
  <2>1. PICK H \in Seq(Seq(Byte)) : H = SubSeq(G, 1, n) /\ Len(H) = n
    BY <1>2, PrefixType
  <2>2. ASSUME NEW i \in 1..n PROVE H[i] = F[i]
    <3>1. H[i] = G[i]
      <4>1. 1 \in 1..(n + 1) /\ n \in 0..(n + 1)
        OBVIOUS
      <4> QED BY <1>2, <2>1, <4>1, SubSeqProperties
    <3> QED BY <1>2, <3>1
  <2>3. Len(H) = Len(F) /\ \A i \in 1..Len(H) : H[i] = F[i]
    BY <1>1, <2>1, <2>2
  <2> QED BY <2>1, <2>3, SeqEqual
<1>6. Len(G) - 1 = n /\ (Len(G) = 1 <=> F = <<>>)
  BY <1>2, <1>4
<1>7. Opened(R, G) = At(PlaceOf(G[Len(G)], Len(G) = 1), R, SubSeq(G, 1, Len(G) - 1), G[Len(G)])
  BY <1>3 DEF Opened
<1>8. (Len(G) = 1) = (F = <<>>)
  BY <1>6
<1>9. Opened(R, G) = At(PlaceOf(f, F = <<>>), R, F, f)
  BY <1>2, <1>5, <1>6, <1>7, <1>8
<1> QED BY <1>2, <1>9

\* Where a reading of fields stands, and what the last of them is.
LEMMA OpenedAt ==
  ASSUME NEW R, NEW F \in Seq(Seq(Byte)), F # <<>>
  PROVE  \E G \in Seq(Seq(Byte)), f \in Seq(Byte) :
            F = Append(G, f) /\ Opened(R, F) = At(PlaceOf(f, G = <<>>), R, G, f)
<1>1. PICK n \in Nat : Len(F) = n + 1
  <2>1. Len(F) \in Nat /\ Len(F) # 0
    BY EmptySeq, LenProperties
  <2>2. Len(F) - 1 \in Nat /\ Len(F) = (Len(F) - 1) + 1
    BY <2>1
  <2> QED BY <2>2
<1>2. PICK f \in Seq(Byte) : f = F[n + 1]
  BY <1>1, ElementOfSeq
<1>3. PICK G \in Seq(Seq(Byte)) : G = SubSeq(F, 1, n)
  <2>1. n <= Len(F)
    BY <1>1
  <2>2. SubSeq(F, 1, n) \in Seq(Seq(Byte))
    BY <2>1, PrefixType
  <2> QED BY <2>2
<1>4. Append(G, f) = F
  <2>1. SubSeq(F, 1, n + 1) = Append(SubSeq(F, 1, n), F[n + 1])
    BY <1>1, SubSeqOneMore
  <2>2. SubSeq(F, 1, Len(F)) = F
    BY SubSeqFull
  <2> QED BY <1>1, <1>2, <1>3, <2>1, <2>2
<1> QED BY <1>4, OpenedMore

\* A delimiter behind the fields F.
LEMMA DelimiterLeads ==
  ASSUME NEW e, NEW R, NEW F \in Seq(Seq(Byte)), F # <<>>
  PROVE  Leads(e, Opened(R, F), <<"delim">>, At("field", R, F, <<>>))
<1>1. PICK G \in Seq(Seq(Byte)), g \in Seq(Byte) :
         F = Append(G, g) /\ Opened(R, F) = At(PlaceOf(g, G = <<>>), R, G, g)
  BY OpenedAt
<1>2. PICK m : m = Opened(R, F)
  OBVIOUS
<1>3. m.at \in {"record", "field", "plain", "closed"}
  <2>1. m.at = PlaceOf(g, G = <<>>)
    BY <1>1, <1>2, AtAt
  <2> QED BY <2>1 DEF PlaceOf, EndOf
<1>4. Closes(m) = At("field", R, F, <<>>)
  BY <1>1, <1>2, AtCloses
<1>5. Step(e, m, "delim") = Closes(m)
  BY <1>3, ClosingStep, BlankStep
<1>6. Leads(e, m, <<"delim">>, Step(e, m, "delim"))
  BY OneLeads, ByteFacts
<1> QED BY <1>2, <1>4, <1>5, <1>6

LEMMA EmptyNeedsQuoting == NeedsQuoting(<<>>) <=> opts.quoteAll \/ opts.quoteEmpty
<1>1. ~Has(<<>>, {"delim", "quote", "lf", "cr"})
  BY DEF Has
<1> QED BY <1>1 DEF NeedsQuoting

\* The newline behind them: a blank line is no record.
LEMMA NewlineLeads ==
  ASSUME NEW e, NEW R, NEW F \in Seq(Seq(Byte))
  PROVE  Leads(e, Opened(R, F), <<"lf">>, Opened(AddVisible(opts, R, F), <<>>))
<1> DEFINE after == Opened(AddVisible(opts, R, F), <<>>)
<1>1. PICK m : m = Opened(R, F)
  OBVIOUS
<1>2. Leads(e, m, <<"lf">>, Step(e, m, "lf"))
  BY OneLeads, ByteFacts
<1>3. \A Q : Opened(Q, <<>>) = At("record", Q, <<>>, <<>>)
  BY DEF Opened
<1>4. CASE F = <<>>
  <2>1. m.at = "record" /\ m = At("record", R, <<>>, <<>>)
    BY <1>1, <1>3, <1>4, AtAt
  <2>2. AddVisible(opts, R, F) = R
    BY <1>4 DEF AddVisible, Visible
  <2>3. Step(e, m, "lf") = after
    BY <1>3, <2>1, <2>2, BlankStep
  <2> QED BY <1>1, <1>2, <2>3
<1>5. CASE F # <<>>
  <2>1. PICK G \in Seq(Seq(Byte)), g \in Seq(Byte) :
           F = Append(G, g) /\ m = At(PlaceOf(g, G = <<>>), R, G, g)
    BY <1>1, <1>5, OpenedAt
  <2>2. m.at = PlaceOf(g, G = <<>>)
    BY <2>1, AtAt
  <2>3. F = <<<<>>>> <=> G = <<>> /\ g = <<>>
    <3>1. Len(Append(G, g)) = Len(G) + 1 /\ Append(G, g)[Len(G) + 1] = g /\ Len(G) \in Nat
      BY AppendProperties, LenProperties
    <3>2. Len(<<<<>>>>) = 1 /\ <<<<>>>>[1] = <<>>
      OBVIOUS
    <3>3. ASSUME F = <<<<>>>> PROVE G = <<>> /\ g = <<>>
      <4>1. Len(G) = 0
        BY <2>1, <3>1, <3>2, <3>3
      <4>2. G = <<>>
        BY <4>1, EmptySeq
      <4>3. g = <<>>
        BY <2>1, <3>1, <3>2, <3>3, <4>1
      <4> QED BY <4>2, <4>3
    <3>4. ASSUME G = <<>>, g = <<>> PROVE F = <<<<>>>>
      <4>1. Append(<<>>, <<>>) = <<<<>>>>
        OBVIOUS
      <4> QED BY <2>1, <3>4, <4>1
    <3> QED BY <3>3, <3>4
  <2>4. CASE G = <<>> /\ g = <<>> /\ ~NeedsQuoting(<<>>)
    <3>1. m.at = "record" /\ m = At("record", R, <<>>, <<>>)
      BY <2>1, <2>2, <2>4 DEF PlaceOf, EndOf
    <3>2. AddVisible(opts, R, F) = R
      BY <2>3, <2>4, EmptyNeedsQuoting DEF AddVisible, Visible
    <3>3. Step(e, m, "lf") = after
      BY <1>3, <3>1, <3>2, BlankStep
    <3> QED BY <1>1, <1>2, <3>3
  <2>5. CASE ~(G = <<>> /\ g = <<>> /\ ~NeedsQuoting(<<>>))
    <3>1. m.at \in {"field", "plain", "closed"}
      BY <2>2, <2>5 DEF PlaceOf, EndOf
    <3>2. AddVisible(opts, R, F) = Append(R, F)
      BY <1>5, <2>3, <2>5, EmptyNeedsQuoting DEF AddVisible, Visible
    <3>3. Ends(m) = after
      BY <1>3, <2>1, <3>2, AtCloses
    <3>4. Step(e, m, "lf") = after
      BY <3>1, <3>3, ClosingStep
    <3> QED BY <1>1, <1>2, <3>4
  <2> QED BY <2>4, <2>5
<1> QED BY <1>4, <1>5

LEMMA NewlineCallLeads ==
  ASSUME NEW e, NEW R, NEW F \in Seq(Seq(Byte))
  PROVE  /\ <<Newline>> \in Seq(WriteSet)
         /\ Leads(e, Opened(R, F), AllBytes(<<Newline>>), Opened(AddVisible(opts, R, F), <<>>))
<1>1. PICK x \in WriteSet : x = Newline /\ x.bytes = <<"lf">>
  BY WriteTypes
<1>2. Leads(e, Opened(R, F), x.bytes, Opened(AddVisible(opts, R, F), <<>>))
  BY <1>1, NewlineLeads
<1> QED BY <1>1, <1>2, OneWriteLeads

\* A field behind the fields F.
FieldCall(more, f, null) == (IF more THEN <<Delimiter>> ELSE <<>>) \o FieldWrites(f, null)

LEMMA FieldCallType ==
  ASSUME NEW more \in BOOLEAN, NEW f \in Seq(Byte), NEW null \in BOOLEAN
  PROVE  FieldCall(more, f, null) \in Seq(WriteSet)
<1>1. PICK x \in Seq(WriteSet) : x = FieldWrites(f, null)
  BY FieldWritesType
<1>2. PICK d \in Seq(WriteSet) : d = IF more THEN <<Delimiter>> ELSE <<>>
  <2>1. CASE more
    BY <2>1, WriteTypes, OneIsSeq
  <2>2. CASE ~more
    BY <2>2, NoWrites
  <2> QED BY <2>1, <2>2
<1>3. d \o x \in Seq(WriteSet)
  BY ConcatProperties
<1> QED BY <1>1, <1>2, <1>3 DEF FieldCall

LEMMA FieldCallLeads ==
  ASSUME Readable, NEW R, NEW F \in Seq(Seq(Byte)), NEW more \in BOOLEAN, more <=> F # <<>>,
         NEW f \in Seq(Byte), NEW null \in BOOLEAN
  PROVE  Leads(opts.escape, Opened(R, F), AllBytes(FieldCall(more, f, null)), Opened(R, Append(F, f)))
<1> DEFINE e == opts.escape
<1>1. PICK x \in Seq(WriteSet) : x = FieldWrites(f, null)
  BY FieldWritesType
<1>2. Opened(R, Append(F, f)) = At(PlaceOf(f, F = <<>>), R, F, f)
  BY OpenedMore
<1>3. CASE F = <<>>
  <2>1. Leads(e, At("record", R, F, <<>>), AllBytes(x), At(EndOf(f, "record"), R, F, f))
    BY <1>1, FieldLeads
  <2>2. Opened(R, F) = At("record", R, F, <<>>)
    BY <1>3 DEF Opened
  <2>3. PlaceOf(f, F = <<>>) = EndOf(f, "record")
    BY <1>3 DEF PlaceOf
  <2>4. FieldCall(more, f, null) = x
    <3>1. <<>> \o x = x
      BY ConcatEmptySeq
    <3> QED BY <1>1, <1>3, <3>1 DEF FieldCall
  <2> QED BY <1>2, <2>1, <2>2, <2>3, <2>4
<1>4. CASE F # <<>>
  <2>1. Leads(e, At("field", R, F, <<>>), AllBytes(x), At(EndOf(f, "field"), R, F, f))
    BY <1>1, FieldLeads
  <2>2. PlaceOf(f, F = <<>>) = EndOf(f, "field")
    BY <1>4 DEF PlaceOf
  <2>3. PICK d \in Seq(WriteSet) :
           d = <<Delimiter>> /\ Leads(e, Opened(R, F), AllBytes(d), At("field", R, F, <<>>))
    <3>1. PICK y \in WriteSet : y = Delimiter /\ y.bytes = <<"delim">>
      BY WriteTypes
    <3>2. Leads(e, Opened(R, F), y.bytes, At("field", R, F, <<>>))
      BY <1>4, <3>1, DelimiterLeads
    <3>3. <<y>> \in Seq(WriteSet) /\ Leads(e, Opened(R, F), AllBytes(<<y>>), At("field", R, F, <<>>))
      BY <3>2, OneWriteLeads
    <3> QED BY <3>1, <3>3
  <2>4. PICK r, m, s : /\ r = Opened(R, F) /\ m = At("field", R, F, <<>>)
                       /\ s = At(EndOf(f, "field"), R, F, f)
    OBVIOUS
  <2>5. Leads(e, r, AllBytes(d), m) /\ Leads(e, m, AllBytes(x), s)
    BY <2>1, <2>3, <2>4
  <2>6. Leads(e, r, AllBytes(d \o x), s)
    BY <2>5, WritesLead
  <2>7. FieldCall(more, f, null) = d \o x
    BY <1>1, <1>4, <2>3 DEF FieldCall
  <2> QED BY <1>2, <2>2, <2>4, <2>6, <2>7
<1> QED BY <1>3, <1>4

LEMMA RowWritesLead ==
  ASSUME NEW row \in Seq(Seq(Byte))
  PROVE  /\ RowWrites(row) \in Seq(WriteSet)
         /\ \A R : Readable => Leads(opts.escape, Opened(R, <<>>), AllBytes(RowWrites(row)),
                                     Opened(AddVisible(opts, R, row), <<>>))
<1> DEFINE e == opts.escape
<1>1. PICK n \in Nat : n = Len(row) /\ DOMAIN row = 1..n
  BY LenProperties
<1>2. \A i \in 1..n : row[i] \in Seq(Byte)
  BY <1>1, ElementOfSeq
<1>3. \A i \in 1..n : FieldCall(i > 1, row[i], FALSE) \in Seq(WriteSet)
  <2> SUFFICES ASSUME NEW i \in 1..n PROVE FieldCall(i > 1, row[i], FALSE) \in Seq(WriteSet)
    OBVIOUS
  <2>1. PICK f \in Seq(Byte) : f = row[i]
    BY <1>2
  <2>2. CASE i > 1
    <3>1. FieldCall(TRUE, f, FALSE) \in Seq(WriteSet)
      BY FieldCallType
    <3>2. FieldCall(i > 1, f, FALSE) = FieldCall(TRUE, f, FALSE)
      BY <2>2 DEF FieldCall
    <3> QED BY <2>1, <3>1, <3>2
  <2>3. CASE ~(i > 1)
    <3>1. FieldCall(FALSE, f, FALSE) \in Seq(WriteSet)
      BY FieldCallType
    <3>2. FieldCall(i > 1, f, FALSE) = FieldCall(FALSE, f, FALSE)
      BY <2>3 DEF FieldCall
    <3> QED BY <2>1, <3>1, <3>2
  <2> QED BY <2>2, <2>3
<1>4. PICK g \in [1..n -> Seq(WriteSet)] :
         g = [i \in 1..n |-> FieldCall(i > 1, row[i], FALSE)]
  BY <1>3
<1>5. g \in Seq(Seq(WriteSet)) /\ Len(g) = n
  BY TupleIsSeq
<1>6. PICK fs \in Seq(WriteSet) : fs = FlattenSeq(g)
  BY <1>5, FlattenSeqType
<1>7. PICK nl \in Seq(WriteSet) : nl = <<Newline>>
  BY NewlineCallLeads, WriteTypes, OneIsSeq
<1>8. RowWrites(row) = fs \o nl
  BY <1>1, <1>4, <1>6, <1>7 DEF RowWrites, FieldCall
<1>9. fs \o nl \in Seq(WriteSet)
  BY ConcatProperties
<1>10. ASSUME NEW R, Readable
       PROVE  Leads(e, Opened(R, <<>>), AllBytes(RowWrites(row)), Opened(AddVisible(opts, R, row), <<>>))
  <2> DEFINE p == [k \in 0..n |-> Opened(R, SubSeq(row, 1, k))]
  <2>1. ASSUME NEW k \in 1..n PROVE Leads(e, p[k - 1], AllBytes(g[k]), p[k])
    <3>1. PICK j \in 0..n : j = k - 1 /\ k = j + 1 /\ j \in Nat /\ k \in 0..n /\ j <= Len(row)
                            /\ j + 1 <= Len(row)
      BY <1>1
    <3>2. PICK F \in Seq(Seq(Byte)) : F = SubSeq(row, 1, j) /\ Len(F) = j
      BY <3>1, PrefixType
    <3>3. PICK f \in Seq(Byte) : f = row[k]
      BY <1>2
    <3>4. SubSeq(row, 1, k) = Append(F, f)
      BY <3>1, <3>2, <3>3, SubSeqOneMore
    <3>5. PICK more \in BOOLEAN : more <=> F # <<>>
      OBVIOUS
    <3>6. more <=> k > 1
      <4>1. F = <<>> <=> j = 0
        BY <3>2, EmptySeq
      <4> QED BY <3>1, <3>5, <4>1
    <3>7. g[k] = FieldCall(more, f, FALSE)
      BY <1>4, <3>3, <3>6 DEF FieldCall
    <3>8. Leads(e, Opened(R, F), AllBytes(FieldCall(more, f, FALSE)), Opened(R, Append(F, f)))
      BY <1>10, <3>5, FieldCallLeads
    <3>9. p[j] = Opened(R, F) /\ p[k] = Opened(R, Append(F, f))
      BY <3>1, <3>2, <3>4
    <3> HIDE DEF p
    <3> QED BY <3>1, <3>7, <3>8, <3>9
  <2>2. p[0] = Opened(R, <<>>) /\ p[n] = Opened(R, row)
    <3>1. SubSeq(row, 1, 0) = <<>> /\ SubSeq(row, 1, n) = row
      BY <1>1, SubSeqEmpty, SubSeqFull
    <3>2. 0 \in 0..n /\ n \in 0..n
      OBVIOUS
    <3> QED BY <3>1, <3>2
  <2> HIDE DEF p
  <2>3. Leads(e, p[0], AllBytes(FlattenSeq(g)), p[Len(g)])
    BY <1>5, <2>1, GroupsLead
  <2>4. Leads(e, Opened(R, <<>>), AllBytes(fs), Opened(R, row))
    BY <1>5, <1>6, <2>2, <2>3
  <2>5. Leads(e, Opened(R, row), AllBytes(nl), Opened(AddVisible(opts, R, row), <<>>))
    BY <1>7, NewlineCallLeads
  <2>6. Leads(e, Opened(R, <<>>), AllBytes(fs \o nl), Opened(AddVisible(opts, R, row), <<>>))
    BY <2>4, <2>5, WritesLead
  <2> QED BY <1>8, <2>6
<1> QED BY <1>8, <1>9, <1>10

LEMMA TrimmedType ==
  ASSUME NEW row \in Seq(Seq(Byte))
  PROVE  Trimmed(row) \in Seq(Seq(Byte))
<1>1. PICK n \in Nat : n = Len(row) /\ DOMAIN row = 1..n
  BY LenProperties
<1> DEFINE U == {0} \union {i \in DOMAIN row : row[i] # <<>>}
<1>2. U \in SUBSET (0..n) /\ U # {}
  BY <1>1
<1>3. IsFiniteSet(0..n)
  <2>1. 0 \in Int /\ n \in Int
    OBVIOUS
  <2> QED BY <2>1, FS_Interval
<1>4. IsFiniteSet(U) /\ U \in SUBSET Nat
  BY <1>2, <1>3, FS_Subset
<1>5. Max(U) \in U
  BY <1>2, <1>4, MaxProperties
<1>6. PICK k \in 0..n : k = LastNonEmpty(row)
  BY <1>2, <1>5 DEF LastNonEmpty
<1>7. k \in Nat /\ k <= Len(row)
  BY <1>1
<1>8. SubSeq(row, 1, k) \in Seq(Seq(Byte))
  BY <1>7, PrefixType
<1> QED BY <1>6, <1>8 DEF Trimmed

\* The rows of a table, as they are written.
RowsOf(table) == [i \in DOMAIN table |-> Trimmed(table[i])]

LEMMA RowsOfType ==
  ASSUME NEW table \in Records
  PROVE  /\ RowsOf(table) \in Records /\ Len(RowsOf(table)) = Len(table)
         /\ \A i \in 1..Len(table) : RowsOf(table)[i] = Trimmed(table[i])
<1>1. PICK n \in Nat : n = Len(table) /\ DOMAIN table = 1..n
  BY LenProperties DEF Records
<1>2. \A i \in 1..n : Trimmed(table[i]) \in Seq(Seq(Byte))
  BY <1>1, ElementOfSeq, TrimmedType DEF Records
<1>3. PICK rows \in [1..n -> Seq(Seq(Byte))] : rows = RowsOf(table)
  BY <1>1, <1>2 DEF RowsOf
<1>4. rows \in Records /\ Len(rows) = n
  BY TupleIsSeq DEF Records
<1>5. \A i \in 1..n : rows[i] = Trimmed(table[i])
  BY <1>1, <1>3 DEF RowsOf
<1> QED BY <1>1, <1>3, <1>4, <1>5

LEMMA TableWritesLead ==
  ASSUME NEW table \in Records, NEW given \in Records
  PROVE  /\ TableWrites(table) \in Seq(WriteSet)
         /\ Readable =>
              Leads(opts.escape, Opened(VisibleRecords(opts, given), <<>>), AllBytes(TableWrites(table)),
                    Opened(VisibleRecords(opts, given \o RowsOf(table)), <<>>))
<1> DEFINE e == opts.escape
           V(g) == VisibleRecords(opts, g)
           Goal == Leads(e, Opened(V(given), <<>>), AllBytes(TableWrites(table)),
                         Opened(V(given \o RowsOf(table)), <<>>))
<1>1. PICK n \in Nat : n = Len(table) /\ DOMAIN table = 1..n
  BY LenProperties DEF Records
<1>2. PICK rows \in Records : /\ rows = RowsOf(table) /\ Len(rows) = n
                              /\ \A i \in 1..n : rows[i] = Trimmed(table[i])
  BY <1>1, RowsOfType
<1>3. \A i \in 1..n : rows[i] \in Seq(Seq(Byte))
  BY <1>2, ElementOfSeq DEF Records
<1>4. CASE table = <<>>
  <2>1. given \o rows = given
    <3>1. n = 0
      BY <1>1, <1>4, EmptySeq
    <3>2. rows = <<>>
      BY <1>2, <3>1, EmptySeq DEF Records
    <3> QED BY <3>2, ConcatEmptySeq DEF Records
  <2>2. CASE opts.trailingNewline
    <3>1. TableWrites(table) = <<Newline>>
      BY <1>4, <2>2 DEF TableWrites
    <3>2. <<>> \in Seq(Seq(Byte))
      BY EmptySeq
    <3>3. AddVisible(opts, V(given), <<>>) = V(given)
      BY DEF AddVisible, Visible
    <3>4. <<Newline>> \in Seq(WriteSet)
          /\ Leads(e, Opened(V(given), <<>>), AllBytes(<<Newline>>),
                   Opened(AddVisible(opts, V(given), <<>>), <<>>))
      BY <3>2, NewlineCallLeads
    <3>5. Goal
      <4> HIDE DEF V
      <4> QED BY <1>2, <2>1, <3>1, <3>3, <3>4
    <3> QED BY <3>1, <3>4, <3>5
  <2>3. CASE ~opts.trailingNewline
    <3>1. TableWrites(table) = <<>>
      BY <1>4, <2>3 DEF TableWrites
    <3>2. Leads(e, Opened(V(given), <<>>), AllBytes(<<>>), Opened(V(given), <<>>))
      BY AllBytesNone, NothingLeads
    <3>3. Goal
      <4> HIDE DEF V
      <4> QED BY <1>2, <2>1, <3>1, <3>2
    <3> QED BY <3>1, <3>3, NoWrites
  <2> QED BY <2>2, <2>3
<1>5. CASE table # <<>>
  <2>1. \A i \in 1..n : RowWrites(rows[i]) \in Seq(WriteSet)
    BY <1>3, RowWritesLead
  <2>2. PICK g \in [1..n -> Seq(WriteSet)] : g = [i \in 1..n |-> RowWrites(rows[i])]
    BY <2>1
  <2>3. g \in Seq(Seq(WriteSet)) /\ Len(g) = n
    BY TupleIsSeq
  <2>4. g = [i \in DOMAIN table |-> RowWrites(Trimmed(table[i]))]
    BY <1>1, <1>2, <2>2
  <2>5. TableWrites(table) = FlattenSeq(g)
    BY <1>5, <2>4 DEF TableWrites
  <2>6. FlattenSeq(g) \in Seq(WriteSet)
    BY <2>3, FlattenSeqType
  <2>7. ASSUME Readable PROVE Goal
    <3> DEFINE p == [k \in 0..n |-> Opened(V(given \o SubSeq(rows, 1, k)), <<>>)]
    <3>0. given \in Seq(Seq(Seq(Byte))) /\ rows \in Seq(Seq(Seq(Byte)))
      BY DEF Records
    <3>1. ASSUME NEW k \in 1..n PROVE Leads(e, p[k - 1], AllBytes(g[k]), p[k])
      <4>1. PICK j \in 0..n : /\ j = k - 1 /\ k = j + 1 /\ j \in Nat /\ k \in 0..n
                              /\ j <= Len(rows) /\ j + 1 <= Len(rows)
        BY <1>2
      <4>2. PICK F \in Records : F = SubSeq(rows, 1, j)
        BY <3>0, <4>1, PrefixType DEF Records
      <4>3. PICK row \in Seq(Seq(Byte)) : row = rows[k]
        BY <1>3
      <4>4. SubSeq(rows, 1, k) = Append(F, row)
        BY <3>0, <4>1, <4>2, <4>3, SubSeqOneMore
      <4>5. PICK G \in Records : G = given \o F
        BY ConcatProperties DEF Records
      <4>6. given \o Append(F, row) = Append(G, row)
        BY <4>5, ConcatAppend, SMTT(30) DEF Records
      <4>7. V(Append(G, row)) = AddVisible(opts, V(G), row)
        BY VisibleOneMore
      <4>8. g[k] = RowWrites(row)
        BY <2>2, <4>3
      <4>9. Leads(e, Opened(V(G), <<>>), AllBytes(RowWrites(row)), Opened(AddVisible(opts, V(G), row), <<>>))
        BY <2>7, RowWritesLead
      <4>10. p[j] = Opened(V(G), <<>>) /\ p[k] = Opened(V(Append(G, row)), <<>>)
        <5> HIDE DEF V
        <5> QED BY <4>1, <4>2, <4>4, <4>5, <4>6
      <4> HIDE DEF p, V
      <4> QED BY <4>1, <4>7, <4>8, <4>9, <4>10
    <3>2. p[0] = Opened(V(given), <<>>) /\ p[n] = Opened(V(given \o rows), <<>>)
      <4>1. SubSeq(rows, 1, 0) = <<>> /\ SubSeq(rows, 1, n) = rows /\ given \o <<>> = given
        BY <1>2, <3>0, SubSeqEmpty, SubSeqFull, ConcatEmptySeq
      <4>2. 0 \in 0..n /\ n \in 0..n
        OBVIOUS
      <4> HIDE DEF V
      <4> QED BY <4>1, <4>2
    <3> HIDE DEF p, V
    <3>3. Leads(e, p[0], AllBytes(FlattenSeq(g)), p[Len(g)])
      BY <2>3, <3>1, GroupsLead
    <3> QED BY <1>2, <2>3, <2>5, <3>2, <3>3
  <2> QED BY <2>5, <2>6, <2>7
<1> QED BY <1>4, <1>5

-----------------------------------------------------------------------------
(* The invariant.                                                          *)

SinkOK == sink \in [kind : {"growable", "fixed"}, out : Seq(Byte), size : Nat, truncated : BOOLEAN]

\* What the records and fields written so far read as, and what they will once
\* the call a with the argument c is over.
Now == Opened(VisibleRecords(opts, records), pending)
After(c, a) ==
    IF c = "field" THEN Opened(VisibleRecords(opts, records), Append(pending, a))
    ELSE IF c = "table" THEN Opened(VisibleRecords(opts, records \o RowsOf(a)), <<>>)
    ELSE Opened(VisibleRecords(opts, Append(records, pending)), <<>>)

\* The types of the state, and the calls a record that is open allows.
Typed ==
    /\ opts \in OptionSet /\ SinkOK
    /\ w \in [state : {"INITIAL", "IN_RECORD", "FINISHED"}, hasFields : BOOLEAN,
              lastError : {"OK", "INVALID", "OOM", "WRITE"}]
    /\ call \in {"none", "field", "record_end", "finish", "table"}
    /\ todo \in Seq(WriteSet) /\ records \in Records /\ pending \in Seq(Seq(Byte))
    /\ mark \in Nat /\ torn \in BOOLEAN
    /\ call = "none" => todo = <<>>
    /\ call # "none" => mark <= Len(sink.out)
    /\ call \in {"field", "record_end", "finish"} => InRecord
    /\ call = "field" => arg \in Seq(Byte)
    /\ call = "table" => ~InRecord /\ arg \in Records
    /\ w.hasFields <=> pending # <<>>
    /\ w.hasFields => InRecord

\* What is written reads as Now while nothing of a call is stored; with what the
\* call has still to write it reads as it will after the call.
ReadsBack ==
    ~torn /\ Readable =>
        IF call = "none" THEN Reads(opts.escape, sink.out) = Now
        ELSE /\ Len(sink.out) = mark => Reads(opts.escape, sink.out) = Now
             /\ Reads(opts.escape, sink.out \o AllBytes(todo)) = After(call, arg)

-----------------------------------------------------------------------------
(* The sink moves bytes.                                                   *)

LEMMA SinkParts ==
  ASSUME SinkOK, NEW o \in Seq(Byte), NEW n \in Nat, NEW t \in BOOLEAN,
         sink' = [sink EXCEPT !.out = o, !.size = n, !.truncated = t]
  PROVE  SinkOK' /\ sink'.out = o
BY DEF SinkOK

LEMMA TakesMoves ==
  ASSUME SinkOK, NEW bytes \in Seq(Byte), SinkTakes(bytes)
  PROVE  SinkOK' /\ sink'.out = sink.out \o bytes
<1>1. sink.out \in Seq(Byte) /\ sink.size \in Nat /\ sink.truncated \in BOOLEAN
  BY DEF SinkOK
<1>2. PICK o \in Seq(Byte) : o = sink.out \o bytes
  <2>1. sink.out \o bytes \in Seq(Byte)
    BY <1>1, ConcatProperties
  <2> QED BY <2>1
<1>3. PICK n \in Nat : sink' = [sink EXCEPT !.out = o, !.size = n]
  <2>1. CASE sink.kind = "fixed" /\ Len(bytes) <= Room /\ sink' = FixedTakes(bytes)
    <3>1. ~(Len(bytes) > Room)
      <4>1. Len(bytes) \in Nat /\ Len(sink.out) \in Nat
        BY <1>1, LenProperties
      <4>2. Room \in Int
        BY <1>1, <4>1 DEF Room
      <4> QED BY <2>1, <4>1, <4>2
    <3>2. sink' = [sink EXCEPT !.out = sink.out \o bytes]
      BY <2>1, <3>1 DEF FixedTakes
    <3>3. sink' = [sink EXCEPT !.out = o, !.size = sink.size]
      BY <1>2, <3>2 DEF SinkOK
    <3> QED BY <1>1, <3>3
  <2>2. CASE sink.kind = "growable"
    <3>1. PICK size \in (IF Enough(sink.size, bytes) THEN {sink.size} ELSE GrownSizes(bytes)) :
               sink' = [sink EXCEPT !.out = @ \o bytes, !.size = size]
      BY <2>2 DEF SinkTakes
    <3>2. size \in Nat
      BY <1>1, SinkAssumption DEF GrownSizes, Doublings
    <3> QED BY <1>2, <3>1, <3>2
  <2> QED BY <2>1, <2>2 DEF SinkTakes
<1>4. sink' = [sink EXCEPT !.out = o, !.size = n, !.truncated = sink.truncated]
  BY <1>1, <1>3 DEF SinkOK
<1>5. SinkOK' /\ sink'.out = o
  BY <1>1, <1>4, SinkParts
<1> QED BY <1>2, <1>5

LEMMA RefusesKeeps ==
  ASSUME SinkOK, NEW bytes \in Seq(Byte), SinkRefuses(bytes)
  PROVE  SinkOK' /\ \E x \in Seq(Byte) : sink'.out = sink.out \o x
<1>1. sink.out \in Seq(Byte) /\ sink.size \in Nat /\ sink.truncated \in BOOLEAN
  BY DEF SinkOK
<1>2. CASE sink.kind = "fixed" /\ Len(bytes) > Room /\ sink' = FixedTakes(bytes)
  <2>1. Len(bytes) \in Nat /\ Len(sink.out) \in Nat
    BY <1>1, LenProperties
  <2>2. PICK room \in Int : room = Room
    BY <1>1, <2>1 DEF Room
  <2>3. PICK x \in Seq(Byte) : x = SubSeq(bytes, 1, Room)
    <3>1. \A i \in 1..room : bytes[i] \in Byte
      <4>1. \A i \in 1..room : i \in 1..Len(bytes)
        BY <1>2, <2>1, <2>2
      <4> QED BY <4>1, ElementOfSeq
    <3>2. SubSeq(bytes, 1, room) \in Seq(Byte)
      BY <3>1, SubSeqProperties
    <3> QED BY <2>2, <3>2
  <2>4. PICK o \in Seq(Byte) : o = sink.out \o x
    <3>1. sink.out \o x \in Seq(Byte)
      BY <1>1, ConcatProperties
    <3> QED BY <3>1
  <2>5. sink' = [sink EXCEPT !.out = sink.out \o SubSeq(bytes, 1, Room), !.truncated = TRUE]
    BY <1>2 DEF FixedTakes
  <2>6. sink' = [sink EXCEPT !.out = o, !.size = sink.size, !.truncated = TRUE]
    BY <1>1, <2>3, <2>4, <2>5 DEF SinkOK
  <2>7. SinkOK' /\ sink'.out = o
    BY <1>1, <2>6, SinkParts
  <2> QED BY <2>4, <2>7
<1>3. CASE sink' = sink
  <2>1. <<>> \in Seq(Byte) /\ sink.out \o <<>> = sink.out
    BY <1>1, EmptySeq, ConcatEmptySeq
  <2> QED BY <1>3, <2>1 DEF SinkOK
<1> QED BY <1>2, <1>3 DEF SinkRefuses

\* Behind bytes: none are added when the length stays.
LEMMA NothingAdded ==
  ASSUME NEW out \in Seq(Byte), NEW x \in Seq(Byte)
  PROVE  /\ out \o x \in Seq(Byte) /\ Len(out) <= Len(out \o x) /\ Len(out) \in Nat
         /\ Len(out \o x) \in Nat
         /\ Len(out \o x) = Len(out) => out \o x = out
<1>1. Len(out) \in Nat /\ Len(x) \in Nat
  BY LenProperties
<1>2. out \o x \in Seq(Byte) /\ Len(out \o x) = Len(out) + Len(x)
  BY ConcatProperties
<1>3. ASSUME Len(out \o x) = Len(out) PROVE out \o x = out
  <2>1. Len(x) = 0
    BY <1>1, <1>2, <1>3
  <2>2. x = <<>>
    BY <2>1, EmptySeq
  <2> QED BY <2>2, ConcatEmptySeq
<1> QED BY <1>1, <1>2, <1>3

-----------------------------------------------------------------------------
(* What the next state reads as.                                           *)

LEMMA SameOptions ==
  ASSUME UNCHANGED opts
  PROVE  /\ Readable' <=> Readable
         /\ Now' = Opened(VisibleRecords(opts, records'), pending')
<1>1. Readable' <=> Readable
  BY DEF Readable
<1>2. PICK R, F : R = VisibleRecords(opts, records') /\ F = pending'
  OBVIOUS
<1>3. VisibleRecords(opts', records') = R
  BY <1>2
<1>4. Now' = Opened(R, F)
  BY <1>2, <1>3 DEF Now, Opened, PlaceOf, EndOf, NeedsQuoting
<1> QED BY <1>1, <1>2, <1>4

LEMMA SameRecords ==
  ASSUME UNCHANGED <<opts, records, pending>>
  PROVE  /\ Readable' <=> Readable
         /\ Now' = Now
         /\ After(call, arg)' = After(call', arg')
<1>1. Readable' <=> Readable
  BY SameOptions
<1>2. Now' = Opened(VisibleRecords(opts, records'), pending')
  BY SameOptions
<1>3. Now' = Now
  BY <1>2 DEF Now
<1>4. PICK c, a : c = call' /\ a = arg'
  OBVIOUS
<1>5. After(call, arg)' = After(c, a)
  BY <1>4 DEF After, Opened, PlaceOf, EndOf, NeedsQuoting, RowsOf, Trimmed, LastNonEmpty
<1> QED BY <1>1, <1>3, <1>4, <1>5

-----------------------------------------------------------------------------
(* Every step keeps the invariant.                                         *)

LEMMA InitTyped ==
  ASSUME Init
  PROVE  Typed /\ ReadsBack
<1>1. /\ opts \in OptionSet /\ sink.out = <<>> /\ call = "none" /\ todo = <<>> /\ records = <<>>
      /\ pending = <<>> /\ mark = 0 /\ torn = FALSE
      /\ w = [state |-> "INITIAL", hasFields |-> FALSE, lastError |-> "OK"]
  BY WriterAssumption DEF Init, NewSinks
<1>2. SinkOK
  <2>1. <<>> \in Seq(Byte)
    BY EmptySeq
  <2>2. CASE sink \in [kind : {"growable"}, out : {<<>>}, size : {0}, truncated : {FALSE}]
    <3>1. sink = [kind |-> "growable", out |-> <<>>, size |-> 0, truncated |-> FALSE]
      BY <2>2
    <3> QED BY <2>1, <3>1 DEF SinkOK
  <2>3. CASE sink \in [kind : {"fixed"}, out : {<<>>}, size : SinkSizes, truncated : {FALSE}]
    <3>1. sink = [kind |-> "fixed", out |-> <<>>, size |-> sink.size, truncated |-> FALSE]
          /\ sink.size \in SinkSizes
      BY <2>3
    <3>2. PICK n \in Nat : n = sink.size
      BY <3>1, SinkAssumption
    <3>3. sink = [kind |-> "fixed", out |-> <<>>, size |-> n, truncated |-> FALSE]
      BY <3>1, <3>2
    <3> QED BY <2>1, <3>3 DEF SinkOK
  <2> QED BY <2>2, <2>3 DEF Init, NewSinks
<1>3. <<>> \in Seq(WriteSet) /\ <<>> \in Records /\ <<>> \in Seq(Seq(Byte))
  BY EmptySeq DEF Records
<1>4. Typed
  BY <1>1, <1>2, <1>3 DEF Typed, InRecord
<1>5. Reads(opts.escape, sink.out) = Now
  <2>1. VisibleRecords(opts, records) = <<>>
    BY <1>1, VisibleNone
  <2>2. Now = Nothing
    BY <1>1, <2>1 DEF Now, Opened, Nothing
  <2> QED BY <1>1, <2>2, ReadNothing
<1> QED BY <1>1, <1>4, <1>5 DEF ReadsBack

\* Steps between the calls that leave the sink and the records alone.
LEMMA IdleKeeps ==
  ASSUME Typed, ReadsBack, call = "none",
         w' \in [state : {"INITIAL", "IN_RECORD", "FINISHED"}, hasFields : BOOLEAN,
                 lastError : {"OK", "INVALID", "OOM", "WRITE"}],
         w'.hasFields <=> pending # <<>>, w'.hasFields => w'.state = "IN_RECORD",
         UNCHANGED <<opts, sink, call, arg, todo, records, pending, mark, torn>>
  PROVE  Typed' /\ ReadsBack'
<1>1. Typed'
  BY DEF Typed, SinkOK, InRecord
<1>2. (Readable' <=> Readable) /\ Now' = Now
  BY SameRecords
<1>3. ReadsBack'
  BY <1>2 DEF ReadsBack
<1> QED BY <1>1, <1>3

LEMMA RefuseKeeps ==
  ASSUME Typed, ReadsBack, Refuse
  PROVE  Typed' /\ ReadsBack'
<1>1. /\ w' \in [state : {"INITIAL", "IN_RECORD", "FINISHED"}, hasFields : BOOLEAN,
                 lastError : {"OK", "INVALID", "OOM", "WRITE"}]
      /\ w'.hasFields = w.hasFields /\ w'.state = w.state
  BY DEF Refuse, Typed
<1>2. (w.hasFields <=> pending # <<>>) /\ (w.hasFields => w.state = "IN_RECORD")
  BY DEF Typed, InRecord
<1> QED BY <1>1, <1>2, IdleKeeps DEF Refuse, history

LEMMA RecordBeginKeeps ==
  ASSUME Typed, ReadsBack, RecordBegin
  PROVE  Typed' /\ ReadsBack'
<1>1. CASE w.state = "INITIAL" /\ call = "none"
           /\ w' = [state |-> "IN_RECORD", hasFields |-> FALSE, lastError |-> "OK"] /\ pending' = <<>>
           /\ UNCHANGED <<opts, sink, call, arg, todo, offered, records, mark, torn>>
  <2>1. pending = <<>>
    BY <1>1 DEF Typed, InRecord
  <2>2. w' \in [state : {"INITIAL", "IN_RECORD", "FINISHED"}, hasFields : BOOLEAN,
                lastError : {"OK", "INVALID", "OOM", "WRITE"}]
        /\ w'.hasFields = FALSE
    BY <1>1
  <2> QED BY <1>1, <2>1, <2>2, IdleKeeps
<1> QED BY <1>1, RefuseKeeps DEF RecordBegin

\* A call is begun with writes that lead to what it is to leave.
LEMMA BeginKeeps ==
  ASSUME Typed, ReadsBack, NEW c \in {"field", "record_end", "finish", "table"}, NEW a,
         NEW writes \in Seq(WriteSet), Begin(c, a, writes),
         c # "table" => InRecord, c = "field" => a \in Seq(Byte),
         c = "table" => ~InRecord /\ a \in Records,
         Readable => Leads(opts.escape, Now, AllBytes(writes), After(c, a))
  PROVE  Typed' /\ ReadsBack'
<1>1. /\ call = "none" /\ call' = c /\ arg' = a /\ todo' = writes /\ mark' = Len(sink.out)
      /\ UNCHANGED <<opts, sink, w, records, pending, torn>>
  BY DEF Begin
<1>2. PICK out \in Seq(Byte) : out = sink.out /\ Len(out) \in Nat
  BY LenProperties DEF Typed, SinkOK
<1>3. Typed'
  <2>1. mark' \in Nat /\ mark' <= Len(sink'.out)
    BY <1>1, <1>2
  <2>2. InRecord' <=> InRecord
    BY <1>1 DEF InRecord
  <2>3. call' \in {"none", "field", "record_end", "finish", "table"} /\ call' # "none"
    BY <1>1
  <2>4. SinkOK'
    BY <1>1 DEF Typed, SinkOK
  <2> QED BY <1>1, <2>1, <2>2, <2>3, <2>4 DEF Typed
<1>4. (Readable' <=> Readable) /\ Now' = Now /\ After(call, arg)' = After(c, a)
  BY <1>1, SameRecords
<1>5. ASSUME ~torn, Readable
      PROVE  Reads(opts.escape, out) = Now /\ Reads(opts.escape, out \o AllBytes(writes)) = After(c, a)
  <2>1. Reads(opts.escape, out) = Now
    BY <1>1, <1>2, <1>5 DEF ReadsBack
  <2>2. Reads(opts.escape, out \o AllBytes(writes)) = After(c, a)
    BY <1>5, <2>1 DEF Leads
  <2> QED BY <2>1, <2>2
<1>6. AllBytes(todo)' = AllBytes(writes) /\ sink'.out = out /\ opts'.escape = opts.escape
  BY <1>1, <1>2 DEF AllBytes
<1>7. ReadsBack'
  <2>1. call' # "none" /\ torn' = torn
    BY <1>1
  <2> QED BY <1>4, <1>5, <1>6, <2>1 DEF ReadsBack
<1> QED BY <1>3, <1>7

\* A sink write moves bytes from what is to be written to what is written.
LEMMA SinkWriteKeeps ==
  ASSUME Typed, ReadsBack, SinkWrite
  PROVE  Typed' /\ ReadsBack'
<1> DEFINE e == opts.escape
<1>1. todo \in Seq(WriteSet) /\ todo # <<>> /\ call # "none" /\ SinkOK /\ mark \in Nat
      /\ mark <= Len(sink.out) /\ torn \in BOOLEAN
  BY DEF Typed, SinkWrite
<1>2. PICK h \in WriteSet, rest \in Seq(WriteSet) :
         h = Head(todo) /\ rest = Tail(todo) /\ AllBytes(todo) = h.bytes \o AllBytes(rest)
  BY <1>1, AllBytesFirst
<1>3. PICK hb \in Seq(Byte), rb \in Seq(Byte), out \in Seq(Byte) :
         hb = h.bytes /\ rb = AllBytes(rest) /\ out = sink.out
  BY <1>1, AllBytesType DEF WriteSet, SinkOK
<1>4. UNCHANGED <<opts, records, pending, mark>>
  BY DEF SinkWrite, Goes, Fails
<1>5. /\ Readable' <=> Readable
      /\ Now' = Now
      /\ After(call, arg)' = After(call', arg')
      /\ opts'.escape = opts.escape
  BY <1>4, SameRecords
<1>6. ASSUME NEW status \in {"INVALID", "OOM", "WRITE"}, Fails(status), SinkOK',
             NEW x \in Seq(Byte), sink'.out = sink.out \o x
      PROVE  Typed' /\ ReadsBack'
  <2>1. /\ call' = "none" /\ todo' = <<>> /\ torn' = (torn \/ Len(sink'.out) > mark)
        /\ w' = IF call = "table" THEN w ELSE [w EXCEPT !.lastError = status]
    BY <1>6 DEF Fails
  <2>2. /\ w' \in [state : {"INITIAL", "IN_RECORD", "FINISHED"}, hasFields : BOOLEAN,
                   lastError : {"OK", "INVALID", "OOM", "WRITE"}]
        /\ w'.hasFields = w.hasFields /\ w'.state = w.state
    BY <2>1 DEF Typed
  <2>3. torn' \in BOOLEAN
    <3>1. (torn \/ Len(sink'.out) > mark) \in BOOLEAN
      OBVIOUS
    <3> QED BY <2>1, <3>1, Zenon
  <2>4. Typed'
    <3>1. <<>> \in Seq(WriteSet)
      BY NoWrites
    <3>2. (w.hasFields <=> pending # <<>>) /\ (w.hasFields => w.state = "IN_RECORD")
      BY DEF Typed, InRecord
    <3>3. opts' \in OptionSet /\ records' \in Records /\ pending' \in Seq(Seq(Byte)) /\ mark' \in Nat
      BY <1>4 DEF Typed
    <3>4. (w'.hasFields <=> pending' # <<>>) /\ (w'.hasFields => w'.state = "IN_RECORD")
      BY <1>4, <2>2, <3>2
    <3> QED BY <1>6, <2>1, <2>2, <2>3, <3>1, <3>3, <3>4 DEF Typed, InRecord
  <2>5. ASSUME ~torn', Readable PROVE Reads(e, sink'.out) = Now
    <3>1. Len(out) \in Nat /\ Len(out \o x) \in Nat /\ Len(out) <= Len(out \o x)
          /\ (Len(out \o x) = Len(out) => out \o x = out)
      BY NothingAdded
    <3>2. ~torn /\ ~(Len(out \o x) > mark)
      BY <1>3, <1>6, <2>1, <2>5
    <3>3. Len(out) = mark /\ Len(out \o x) = Len(out)
      BY <1>1, <1>3, <3>1, <3>2
    <3>4. sink'.out = out
      BY <1>3, <1>6, <3>1, <3>3
    <3>5. Reads(e, out) = Now
      BY <1>1, <1>3, <2>5, <3>2, <3>3 DEF ReadsBack
    <3> QED BY <3>4, <3>5
  <2>6. ReadsBack'
    BY <1>5, <2>1, <2>5 DEF ReadsBack
  <2> QED BY <2>4, <2>6
<1>7. ASSUME UNCHANGED sink PROVE SinkOK' /\ \E x \in Seq(Byte) : sink'.out = sink.out \o x
  <2>1. <<>> \in Seq(Byte) /\ out \o <<>> = out
    BY EmptySeq, ConcatEmptySeq
  <2> QED BY <1>1, <1>3, <1>7, <2>1 DEF SinkOK
<1>8. CASE UNCHANGED sink /\ Fails("INVALID")
  BY <1>6, <1>7, <1>8
<1>9. CASE UNCHANGED sink /\ Fails("OOM")
  BY <1>6, <1>7, <1>9
<1>10. CASE SinkRefuses(hb) /\ Fails(IF sink.kind = "fixed" THEN "WRITE" ELSE "OOM")
  <2>1. SinkOK' /\ \E x \in Seq(Byte) : sink'.out = sink.out \o x
    BY <1>1, <1>10, RefusesKeeps
  <2>2. PICK status \in {"INVALID", "OOM", "WRITE"} : Fails(status)
    BY <1>10
  <2> QED BY <1>6, <2>1, <2>2
<1>11. CASE SinkTakes(hb) /\ Goes
  <2>1. SinkOK' /\ sink'.out = out \o hb
    BY <1>1, <1>3, <1>11, TakesMoves
  <2>2. todo' = rest /\ UNCHANGED <<opts, w, call, arg, records, pending, mark, torn>>
    BY <1>2, <1>11 DEF Goes
  <2>3. Len(out) \in Nat /\ Len(out \o hb) \in Nat /\ Len(out) <= Len(out \o hb)
        /\ (Len(out \o hb) = Len(out) => out \o hb = out)
    BY NothingAdded
  <2>4. mark <= Len(out \o hb)
    <3>1. PICK m \in Nat, a \in Nat, b \in Nat : m = mark /\ a = Len(out) /\ b = Len(out \o hb)
      BY <1>1, <2>3
    <3>2. m <= a /\ a <= b
      BY <1>1, <1>3, <2>3, <3>1
    <3>3. m <= b
      BY <3>2
    <3> QED BY <3>1, <3>3
  <2>5. Typed'
    <3>1. (InRecord' <=> InRecord) /\ call' # "none"
      BY <1>1, <2>2 DEF InRecord
    <3>2. mark' <= Len(sink'.out)
      BY <2>1, <2>2, <2>4
    <3> QED BY <2>1, <2>2, <3>1, <3>2 DEF Typed
  <2>6. ASSUME ~torn, Readable
        PROVE  /\ Len(out \o hb) = mark => Reads(e, out \o hb) = Now
               /\ Reads(e, (out \o hb) \o rb) = After(call, arg)
    <3>1. /\ Len(out) = mark => Reads(e, out) = Now
          /\ Reads(e, out \o (hb \o rb)) = After(call, arg)
      BY <1>1, <1>2, <1>3, <2>6 DEF ReadsBack
    <3>2. ASSUME Len(out \o hb) = mark PROVE Reads(e, out \o hb) = Now
      <4>1. Len(out) = mark /\ Len(out \o hb) = Len(out)
        BY <1>1, <1>3, <2>3, <3>2
      <4>2. out \o hb = out
        BY <2>3, <4>1
      <4> QED BY <3>1, <4>1, <4>2
    <3>3. (out \o hb) \o rb = out \o (hb \o rb)
      BY ConcatAssociative
    <3> QED BY <3>1, <3>2, <3>3
  <2>7. AllBytes(todo)' = rb
    BY <1>3, <2>2 DEF AllBytes
  <2>8. After(call, arg)' = After(call, arg) /\ call' = call /\ torn' = torn /\ mark' = mark
    BY <1>5, <2>2
  <2>9. ReadsBack'
    BY <1>1, <1>5, <2>1, <2>6, <2>7, <2>8 DEF ReadsBack
  <2> QED BY <2>5, <2>9
<1>12. \/ UNCHANGED sink /\ Fails("INVALID")
       \/ UNCHANGED sink /\ Fails("OOM")
       \/ SinkTakes(hb) /\ Goes
       \/ SinkRefuses(hb) /\ Fails(IF sink.kind = "fixed" THEN "WRITE" ELSE "OOM")
  BY <1>2, <1>3 DEF SinkWrite
<1> QED BY <1>8, <1>9, <1>10, <1>11, <1>12

\* The end of a call: the history takes in what was written.
LEMMA ReturnKeeps ==
  ASSUME Typed, ReadsBack, Return
  PROVE  Typed' /\ ReadsBack'
<1>1. /\ call # "none" /\ todo = <<>> /\ call' = "none" /\ arg' = <<>>
      /\ UNCHANGED <<opts, sink, todo, offered, mark, torn>>
  BY DEF Return
<1>2. /\ records \in Records /\ pending \in Seq(Seq(Byte)) /\ opts \in OptionSet
      /\ (w.hasFields <=> pending # <<>>)
      /\ (w.hasFields => w.state = "IN_RECORD")
      /\ w \in [state : {"INITIAL", "IN_RECORD", "FINISHED"}, hasFields : BOOLEAN,
                lastError : {"OK", "INVALID", "OOM", "WRITE"}]
  BY DEF Typed, InRecord
<1>3. (Readable' <=> Readable) /\ Now' = Opened(VisibleRecords(opts, records'), pending')
  BY <1>1, SameOptions
<1>4. ASSUME ~torn, Readable PROVE Reads(opts.escape, sink.out) = After(call, arg)
  <2>1. sink.out \o <<>> = sink.out
    BY ConcatEmptySeq DEF Typed, SinkOK
  <2>2. Reads(opts.escape, sink.out \o AllBytes(todo)) = After(call, arg)
    BY <1>1, <1>4 DEF ReadsBack
  <2> QED BY <1>1, <2>1, <2>2, AllBytesNone
<1>5. /\ records' \in Records /\ pending' \in Seq(Seq(Byte))
      /\ w' \in [state : {"INITIAL", "IN_RECORD", "FINISHED"}, hasFields : BOOLEAN,
                 lastError : {"OK", "INVALID", "OOM", "WRITE"}]
      /\ (w'.hasFields <=> pending' # <<>>) /\ (w'.hasFields => w'.state = "IN_RECORD")
      /\ Now' = After(call, arg)
  <2>1. CASE /\ call = "field" /\ w' = [w EXCEPT !.hasFields = TRUE]
             /\ pending' = Append(pending, arg) /\ UNCHANGED records
    <3>1. arg \in Seq(Byte) /\ w.state = "IN_RECORD"
      BY <2>1 DEF Typed, InRecord
    <3>2. Append(pending, arg) \in Seq(Seq(Byte)) /\ Append(pending, arg) # <<>>
      <4>1. Append(pending, arg) \in Seq(Seq(Byte)) /\ Len(Append(pending, arg)) = Len(pending) + 1
        BY <1>2, <3>1, AppendProperties
      <4>2. Len(pending) \in Nat
        BY <1>2, LenProperties
      <4>3. Len(Append(pending, arg)) # 0
        BY <4>1, <4>2
      <4> QED BY <4>1, <4>3, EmptySeq
    <3>3. Now' = After(call, arg)
      BY <1>3, <2>1 DEF After
    <3>4. /\ w' \in [state : {"INITIAL", "IN_RECORD", "FINISHED"}, hasFields : BOOLEAN,
                     lastError : {"OK", "INVALID", "OOM", "WRITE"}]
          /\ w'.hasFields = TRUE /\ w'.state = "IN_RECORD"
      BY <1>2, <2>1, <3>1
    <3> QED BY <1>2, <2>1, <3>2, <3>3, <3>4
  <2>2. CASE /\ call \in {"record_end", "finish"}
             /\ w' = RecordEnded(IF call = "finish" THEN "FINISHED" ELSE "INITIAL")
             /\ records' = Append(records, pending) /\ pending' = <<>>
    <3>1. Append(records, pending) \in Records
      BY <1>2, AppendProperties DEF Records
    <3>2. <<>> \in Seq(Seq(Byte))
      BY EmptySeq
    <3>3. Now' = After(call, arg)
      BY <1>3, <2>2 DEF After
    <3>4. /\ w' \in [state : {"INITIAL", "IN_RECORD", "FINISHED"}, hasFields : BOOLEAN,
                     lastError : {"OK", "INVALID", "OOM", "WRITE"}]
          /\ w'.hasFields = FALSE
      BY <1>2, <2>2 DEF RecordEnded
    <3> QED BY <2>2, <3>1, <3>2, <3>3, <3>4
  <2>3. CASE /\ call = "table"
             /\ records' = records \o [i \in DOMAIN arg |-> Trimmed(arg[i])]
             /\ UNCHANGED <<w, pending>>
    <3>1. arg \in Records /\ pending = <<>>
      BY <1>2, <2>3 DEF Typed, InRecord
    <3>2. RowsOf(arg) \in Records
      BY <3>1, RowsOfType
    <3>3. records' = records \o RowsOf(arg) /\ records' \in Records
      BY <1>2, <2>3, <3>2, ConcatProperties DEF RowsOf, Records
    <3>4. Now' = After(call, arg)
      BY <1>3, <2>3, <3>1, <3>3 DEF After
    <3> QED BY <1>2, <2>3, <3>3, <3>4
  <2> QED BY <2>1, <2>2, <2>3 DEF Return
<1>6. Typed'
  <2>1. SinkOK' /\ opts' \in OptionSet /\ mark' \in Nat /\ torn' \in BOOLEAN
    BY <1>1 DEF Typed, SinkOK
  <2>2. <<>> \in Seq(WriteSet)
    BY NoWrites
  <2> QED BY <1>1, <1>5, <2>1, <2>2 DEF Typed, InRecord
<1>7. ReadsBack'
  BY <1>1, <1>3, <1>4, <1>5 DEF ReadsBack
<1> QED BY <1>6, <1>7

-----------------------------------------------------------------------------
(* The calls.                                                              *)

LEMMA CallsKeep ==
  ASSUME Typed, ReadsBack
  PROVE  /\ \A f \in Fields, null \in BOOLEAN : Field(f, null) => Typed' /\ ReadsBack'
         /\ RecordEnd => Typed' /\ ReadsBack'
         /\ Finish => Typed' /\ ReadsBack'
         /\ \A table \in Tables : WriteTable(table) => Typed' /\ ReadsBack'
<1>1. /\ records \in Records /\ pending \in Seq(Seq(Byte)) /\ w.hasFields \in BOOLEAN
      /\ (w.hasFields <=> pending # <<>>) /\ (w.hasFields => InRecord)
  BY DEF Typed
<1>2. PICK R : R = VisibleRecords(opts, records)
  OBVIOUS
<1>3. Now = Opened(R, pending)
  BY <1>2 DEF Now
<1>4. /\ <<Newline>> \in Seq(WriteSet)
      /\ \A c \in {"record_end", "finish"} :
            Leads(opts.escape, Now, AllBytes(<<Newline>>), After(c, <<>>))
  <2>1. <<Newline>> \in Seq(WriteSet)
        /\ Leads(opts.escape, Opened(R, pending), AllBytes(<<Newline>>),
                 Opened(AddVisible(opts, R, pending), <<>>))
    BY <1>1, NewlineCallLeads
  <2>2. VisibleRecords(opts, Append(records, pending)) = AddVisible(opts, R, pending)
    BY <1>1, <1>2, VisibleOneMore
  <2>3. \A c \in {"record_end", "finish"} : After(c, <<>>) = Opened(AddVisible(opts, R, pending), <<>>)
    BY <2>2 DEF After
  <2> QED BY <1>3, <2>1, <2>3
<1>5. ASSUME RecordEnd PROVE Typed' /\ ReadsBack'
  <2>1. CASE InRecord /\ Begin("record_end", <<>>, <<Newline>>)
    BY <1>4, <2>1, BeginKeeps
  <2> QED BY <1>5, <2>1, RefuseKeeps DEF RecordEnd
<1>6. ASSUME Finish PROVE Typed' /\ ReadsBack'
  <2>1. CASE InRecord /\ Begin("finish", <<>>, <<Newline>>)
    BY <1>4, <2>1, BeginKeeps
  <2>2. CASE /\ ~InRecord /\ call = "none" /\ w' = [w EXCEPT !.state = "FINISHED"]
             /\ UNCHANGED <<opts, sink, call, arg, todo, history>>
    <3>1. /\ w' \in [state : {"INITIAL", "IN_RECORD", "FINISHED"}, hasFields : BOOLEAN,
                     lastError : {"OK", "INVALID", "OOM", "WRITE"}]
          /\ w'.hasFields = w.hasFields
      BY <2>2 DEF Typed
    <3>2. ~w.hasFields /\ pending = <<>>
      BY <1>1, <2>2
    <3> QED BY <2>2, <3>1, <3>2, IdleKeeps DEF history
  <2> QED BY <1>6, <2>1, <2>2 DEF Finish
<1>7. ASSUME NEW f \in Fields, NEW null \in BOOLEAN, Field(f, null) PROVE Typed' /\ ReadsBack'
  <2>1. CASE InRecord /\ Begin("field", f, FieldCall(w.hasFields, f, null))
    <3>1. f \in Seq(Byte)
      BY WriterAssumption
    <3>2. FieldCall(w.hasFields, f, null) \in Seq(WriteSet)
      BY <1>1, <3>1, FieldCallType
    <3>3. After("field", f) = Opened(R, Append(pending, f))
      BY <1>2 DEF After
    <3>4. Readable => Leads(opts.escape, Now, AllBytes(FieldCall(w.hasFields, f, null)), After("field", f))
      BY <1>1, <1>3, <3>1, <3>3, FieldCallLeads
    <3> QED BY <2>1, <3>1, <3>2, <3>4, BeginKeeps
  <2>2. CASE ~InRecord /\ Refuse
    BY <2>2, RefuseKeeps
  <2> QED BY <1>7, <2>1, <2>2 DEF Field, FieldCall
<1>8. ASSUME NEW table \in Tables, WriteTable(table) PROVE Typed' /\ ReadsBack'
  <2>1. table \in Records /\ ~InRecord /\ Begin("table", table, TableWrites(table))
    BY <1>8, WriterAssumption DEF WriteTable, Records
  <2>2. pending = <<>>
    BY <1>1, <2>1
  <2>3. /\ TableWrites(table) \in Seq(WriteSet)
        /\ Readable => Leads(opts.escape, Opened(R, <<>>), AllBytes(TableWrites(table)),
                             Opened(VisibleRecords(opts, records \o RowsOf(table)), <<>>))
    BY <1>1, <1>2, <2>1, TableWritesLead
  <2>4. After("table", table) = Opened(VisibleRecords(opts, records \o RowsOf(table)), <<>>)
    BY DEF After
  <2>5. Readable => Leads(opts.escape, Now, AllBytes(TableWrites(table)), After("table", table))
    BY <1>3, <2>2, <2>3, <2>4
  <2> QED BY <2>1, <2>3, <2>5, BeginKeeps
<1> QED BY <1>5, <1>6, <1>7, <1>8

LEMMA StepKeeps ==
  ASSUME Typed, ReadsBack, [Next]_vars
  PROVE  Typed' /\ ReadsBack'
<1>1. CASE Next
  BY <1>1, RecordBeginKeeps, CallsKeep, SinkWriteKeeps, ReturnKeeps DEF Next
<1>2. CASE UNCHANGED vars
  <2>1. /\ Readable' <=> Readable
        /\ Now' = Now
        /\ After(call, arg)' = After(call', arg')
        /\ AllBytes(todo)' = AllBytes(todo)
    BY <1>2, SameRecords DEF vars, AllBytes
  <2>2. Typed'
    BY <1>2 DEF vars, Typed, SinkOK, InRecord
  <2>3. ReadsBack'
    BY <1>2, <2>1 DEF vars, ReadsBack
  <2> QED BY <2>2, <2>3
<1> QED BY <1>1, <1>2

\* Between the calls the reading is that of the records and of the open one.
LEMMA ReadsBackGives ==
  ASSUME Typed, ReadsBack
  PROVE  RoundTrip
<1> SUFFICES ASSUME call = "none", ~torn, opts.escape # "none", opts.quoteIfNeeded \/ opts.quoteAll
             PROVE  /\ Reading.rows = VisibleRecords(opts, records)
                    /\ Reading.at \notin {"bad", "quoted", "escaped"}
                    /\ IF w.hasFields THEN Append(Reading.row, Reading.cur) = pending
                       ELSE Reading.at = "record"
  BY DEF RoundTrip
<1>1. Readable
  BY DEF Typed, OptionSet, Readable
<1>2. PICK R : R = VisibleRecords(opts, records)
  OBVIOUS
<1>3. PICK m : m = Reading /\ m = Opened(R, pending)
  <2>1. Reading = Reads(opts.escape, sink.out)
    BY DEF Reading, Reads
  <2>2. Reads(opts.escape, sink.out) = Now
    BY <1>1 DEF ReadsBack
  <2> QED BY <1>2, <2>1, <2>2 DEF Now
<1>4. (w.hasFields <=> pending # <<>>) /\ pending \in Seq(Seq(Byte))
  BY DEF Typed
<1>5. CASE pending = <<>>
  <2>1. m.at = "record" /\ m.rows = R
    BY <1>3, <1>5 DEF Opened, At
  <2> QED BY <1>2, <1>3, <1>4, <1>5, <2>1
<1>6. CASE pending # <<>>
  <2>1. PICK G \in Seq(Seq(Byte)), f \in Seq(Byte) :
           pending = Append(G, f) /\ m = At(PlaceOf(f, G = <<>>), R, G, f)
    BY <1>3, <1>4, <1>6, OpenedAt
  <2>2. m.at = PlaceOf(f, G = <<>>) /\ m.rows = R /\ m.row = G /\ m.cur = f
    BY <2>1 DEF At
  <2>3. m.at \notin {"bad", "quoted", "escaped"}
    BY <2>2 DEF PlaceOf, EndOf
  <2> QED BY <1>2, <1>3, <1>4, <1>6, <2>1, <2>2, <2>3
<1> QED BY <1>5, <1>6

\* Between two calls of a writer that left none of them half done, under options
\* that quote when needed, the output reads as the records completed and the
\* fields of the open one, for all options, fields, tables and sinks.
THEOREM WhatIsWrittenReadsBack == Spec => []RoundTrip
<1>1. Init => Typed /\ ReadsBack
  BY InitTyped
<1>2. Typed /\ ReadsBack /\ [Next]_vars => Typed' /\ ReadsBack'
  BY StepKeeps
<1>3. Typed /\ ReadsBack => RoundTrip
  BY ReadsBackGives
<1> QED BY <1>1, <1>2, <1>3, PTL DEF Spec

-----------------------------------------------------------------------------
(* The sinks.                                                              *)

\* What every write to a sink preserves.
SinkInv == SinkTypeOK /\ RoomForTerminator /\ FixedKeepsPrefix

LEMMA NewSinkInv ==
  ASSUME sink \in NewSinks, offered = <<>>
  PROVE  SinkInv
<1>1. <<>> \in Seq(Byte) /\ Len(<<>>) = 0
  BY EmptySeq
<1>2. PICK k \in {"growable", "fixed"}, n \in Nat :
           /\ sink = [kind |-> k, out |-> <<>>, size |-> n, truncated |-> FALSE]
           /\ k = "growable" => n = 0
           /\ k = "fixed" => n > 0
  <2>1. CASE sink \in [kind : {"growable"}, out : {<<>>}, size : {0}, truncated : {FALSE}]
    <3>1. sink = [kind |-> "growable", out |-> <<>>, size |-> 0, truncated |-> FALSE]
      BY <2>1
    <3> QED BY <3>1
  <2>2. CASE sink \in [kind : {"fixed"}, out : {<<>>}, size : SinkSizes, truncated : {FALSE}]
    <3>1. sink = [kind |-> "fixed", out |-> <<>>, size |-> sink.size, truncated |-> FALSE]
      BY <2>2
    <3>2. sink.size \in SinkSizes
      BY <2>2
    <3>3. \A n \in SinkSizes : n \in Nat /\ n # 0
      BY SinkAssumption
    <3>4. sink.size \in Nat /\ sink.size # 0
      BY <3>2, <3>3
    <3> QED BY <3>1, <3>4
  <2> QED BY <2>1, <2>2 DEF NewSinks
<1>3. SinkTypeOK /\ RoomForTerminator
  BY <1>1, <1>2 DEF SinkTypeOK, RoomForTerminator
<1>4. sink.out = offered /\ sink.truncated = FALSE
  BY DEF NewSinks
<1>5. IsPrefix(sink.out, offered)
  BY <1>1, <1>4, PrefixOfItself
<1>6. FixedKeepsPrefix
  BY <1>1, <1>4, <1>5 DEF FixedKeepsPrefix
<1> QED BY <1>3, <1>6 DEF SinkInv

LEMMA RoomType ==
  ASSUME SinkInv, sink.kind = "fixed"
  PROVE  Room \in Nat /\ Len(sink.out) + Room = sink.size - 1
BY LenProperties DEF SinkInv, SinkTypeOK, RoomForTerminator, Room

\* A fixed buffer that is not truncated holds all that was offered, one that is
\* has no room left.
LEMMA FixedCases ==
  ASSUME SinkInv, sink.kind = "fixed"
  PROVE  /\ ~sink.truncated => sink.out = offered
         /\ sink.truncated => Room = 0
<1>1. sink.out \in Seq(Byte) /\ offered \in Seq(Byte)
  BY DEF SinkInv, SinkTypeOK
<1>2. Len(sink.out) \in Nat /\ Len(offered) \in Nat
  BY <1>1, LenProperties
<1>3. ~sink.truncated => sink.out = offered
  BY <1>1, <1>2, WholePrefix DEF SinkInv, FixedKeepsPrefix
<1>4. sink.truncated => Room = 0
  BY <1>2, RoomType DEF SinkInv, FixedKeepsPrefix
<1> QED BY <1>3, <1>4

\* Writing two or one of the fields of a record with a sink's type.
LEMMA SinkFields ==
  ASSUME SinkTypeOK, NEW o \in Seq(Byte), NEW n \in Nat, NEW t \in BOOLEAN,
         sink' = [sink EXCEPT !.out = o, !.size = n, !.truncated = t],
         offered' \in Seq(Byte)
  PROVE  /\ sink'.kind = sink.kind /\ sink'.out = o /\ sink'.size = n /\ sink'.truncated = t
         /\ SinkTypeOK'
BY DEF SinkTypeOK

\* A write to a fixed buffer, taken or refused.
LEMMA FixedWriteKeepsInv ==
  ASSUME SinkInv, sink.kind = "fixed", NEW bytes \in Seq(Byte),
         sink' = FixedTakes(bytes), offered' = offered \o bytes
  PROVE  SinkInv'
<1>1. /\ SinkTypeOK /\ sink.out \in Seq(Byte) /\ offered \in Seq(Byte)
      /\ sink.size \in Nat /\ sink.truncated \in BOOLEAN
      /\ sink \in [kind : {"growable", "fixed"}, out : Seq(Byte), size : Nat, truncated : BOOLEAN]
  BY DEF SinkInv, SinkTypeOK
<1>2. Len(sink.out) \in Nat /\ Len(offered) \in Nat /\ Len(bytes) \in Nat
  BY <1>1, LenProperties
<1>3. Room \in Nat /\ Len(sink.out) + Room = sink.size - 1
  BY RoomType
<1>4. offered' \in Seq(Byte) /\ Len(offered') = Len(offered) + Len(bytes)
  BY <1>1, ConcatProperties
<1>5. IsPrefix(sink.out, offered)
  BY DEF SinkInv, FixedKeepsPrefix
<1>6. CASE Len(bytes) > Room
  <2> DEFINE kept == sink.out \o SubSeq(bytes, 1, Room)
  <2>1. Room \in 0..Len(bytes)
    BY <1>2, <1>3, <1>6
  <2>2. /\ kept \in Seq(Byte) /\ Len(kept) = Len(sink.out) + Room
        /\ IsPrefix(kept, sink.out \o bytes)
    BY <1>1, <2>1, PrefixOfPart
  <2>3. sink' = [sink EXCEPT !.out = kept, !.truncated = TRUE]
    BY <1>6 DEF FixedTakes
  <2>4. ASSUME sink.truncated
        PROVE  IsPrefix(kept, offered') /\ Len(offered') > Len(kept)
    <3>1. Room = 0
      BY <2>4, FixedCases
    <3>2. kept = sink.out
      BY <1>1, <3>1, ConcatEmptySeq, SubSeqEmpty
    <3>3. IsPrefix(kept, offered')
      BY <1>1, <1>5, <3>2, PrefixOfLonger
    <3>4. Len(offered) > Len(sink.out)
      BY <2>4 DEF SinkInv, FixedKeepsPrefix
    <3> HIDE DEF kept
    <3>5. Len(offered') > Len(kept)
      BY <1>2, <1>4, <3>2, <3>4
    <3> QED BY <3>3, <3>5
  <2> HIDE DEF kept
  <2>5. ASSUME ~sink.truncated
        PROVE  IsPrefix(kept, offered') /\ Len(offered') > Len(kept)
    <3>1. sink.out = offered
      BY <2>5, FixedCases
    <3>2. sink.out \o bytes = offered'
      BY <3>1
    <3> QED BY <1>2, <1>3, <1>4, <1>6, <2>2, <3>1, <3>2
  <2>6. IsPrefix(kept, offered') /\ Len(offered') > Len(kept)
    BY <1>1, <2>4, <2>5
  <2>7. sink' = [sink EXCEPT !.out = kept, !.size = sink.size, !.truncated = TRUE]
    BY <1>1, <2>3
  <2>8. /\ sink'.kind = "fixed" /\ sink'.out = kept /\ sink'.size = sink.size
        /\ sink'.truncated = TRUE /\ SinkTypeOK'
    BY <1>1, <1>4, <2>2, <2>7, SinkFields
  <2>9. Len(kept) = sink.size - 1 /\ Len(kept) < sink.size
    BY <1>1, <1>2, <1>3, <2>2
  <2>10. RoomForTerminator'
    BY <2>8, <2>9 DEF RoomForTerminator
  <2>11. FixedKeepsPrefix'
    BY <2>6, <2>8, <2>9 DEF FixedKeepsPrefix
  <2> QED BY <2>8, <2>10, <2>11 DEF SinkInv
<1>7. CASE ~(Len(bytes) > Room)
  <2> DEFINE kept == sink.out \o bytes
  <2>1. kept \in Seq(Byte) /\ Len(kept) = Len(sink.out) + Len(bytes)
    BY <1>1, ConcatProperties
  <2>2. sink' = [sink EXCEPT !.out = kept]
    BY <1>7 DEF FixedTakes
  <2>3. ASSUME sink.truncated
        PROVE  IsPrefix(kept, offered') /\ Len(offered') > Len(kept) /\ Len(kept) = sink.size - 1
    <3>1. Len(bytes) = 0
      BY <1>2, <1>7, <2>3, FixedCases
    <3>2. bytes = <<>>
      BY <3>1, EmptySeq
    <3>3. kept = sink.out /\ offered' = offered
      BY <1>1, <3>2, ConcatEmptySeq
    <3> QED BY <1>5, <2>3, <3>3 DEF SinkInv, FixedKeepsPrefix
  <2>4. ASSUME ~sink.truncated
        PROVE  IsPrefix(kept, offered') /\ ~(Len(offered') > Len(kept))
    <3>1. kept = offered'
      BY <2>4, FixedCases
    <3>2. IsPrefix(kept, offered')
      BY <1>4, <3>1, PrefixOfItself
    <3>3. ~(Len(offered') > Len(kept))
      BY <1>4, <1>2, <3>1
    <3> QED BY <3>2, <3>3
  <2> HIDE DEF kept
  <2>5. sink' = [sink EXCEPT !.out = kept, !.size = sink.size, !.truncated = sink.truncated]
    BY <1>1, <2>2
  <2>6. /\ sink'.kind = "fixed" /\ sink'.out = kept /\ sink'.size = sink.size
        /\ sink'.truncated = sink.truncated /\ SinkTypeOK'
    BY <1>1, <1>4, <2>1, <2>5, SinkFields
  <2>7. RoomForTerminator'
    BY <1>1, <1>2, <1>3, <1>7, <2>1, <2>6 DEF RoomForTerminator
  <2>8. CASE sink.truncated
    BY <1>1, <2>3, <2>6, <2>7, <2>8 DEF FixedKeepsPrefix, SinkInv
  <2>9. CASE ~sink.truncated
    BY <1>1, <2>4, <2>6, <2>7, <2>9 DEF FixedKeepsPrefix, SinkInv
  <2> QED BY <2>8, <2>9
<1> QED BY <1>6, <1>7

\* A write the sink takes.
LEMMA SinkTakesKeepsInv ==
  ASSUME SinkInv, NEW bytes \in Seq(Byte), SinkTakes(bytes)
  PROVE  SinkInv'
<1>1. CASE sink.kind = "fixed" /\ sink' = FixedTakes(bytes)
  BY <1>1, FixedWriteKeepsInv DEF SinkTakes
<1>2. CASE sink.kind = "growable"
  <2>1. /\ sink.out \in Seq(Byte) /\ offered \in Seq(Byte)
        /\ sink.size \in Nat /\ sink.truncated \in BOOLEAN
        /\ sink \in [kind : {"growable", "fixed"}, out : Seq(Byte), size : Nat, truncated : BOOLEAN]
    BY DEF SinkInv, SinkTypeOK
  <2>2. PICK size \in (IF Enough(sink.size, bytes) THEN {sink.size} ELSE GrownSizes(bytes)) :
             sink' = [sink EXCEPT !.out = @ \o bytes, !.size = size]
    BY <1>2 DEF SinkTakes
  <2>3. size \in Nat /\ Enough(size, bytes)
    BY <2>1, SinkAssumption DEF GrownSizes, Doublings
  <2>4. /\ sink.out \o bytes \in Seq(Byte) /\ Len(sink.out \o bytes) = Len(sink.out) + Len(bytes)
        /\ offered \o bytes \in Seq(Byte)
    BY <2>1, ConcatProperties
  <2>5. sink' = [sink EXCEPT !.out = sink.out \o bytes, !.size = size, !.truncated = sink.truncated]
    BY <2>1, <2>2
  <2>6. /\ sink'.kind = "growable" /\ sink'.out = sink.out \o bytes /\ sink'.size = size
        /\ SinkTypeOK'
    BY <1>2, <2>1, <2>3, <2>4, <2>5, SinkFields DEF SinkInv, SinkTakes
  <2>7. Len(sink.out) \in Nat /\ Len(bytes) \in Nat
    BY <2>1, LenProperties
  <2>8. RoomForTerminator'
    BY <2>3, <2>4, <2>6, <2>7 DEF RoomForTerminator, Enough, Needed
  <2>9. FixedKeepsPrefix'
    BY <2>6 DEF FixedKeepsPrefix
  <2> QED BY <2>6, <2>8, <2>9 DEF SinkInv
<1> QED BY <1>1, <1>2 DEF SinkTakes

\* A write the sink refuses.
LEMMA SinkRefusesKeepsInv ==
  ASSUME SinkInv, NEW bytes \in Seq(Byte), SinkRefuses(bytes)
  PROVE  SinkInv'
<1>1. CASE sink.kind = "fixed" /\ sink' = FixedTakes(bytes)
  BY <1>1, FixedWriteKeepsInv DEF SinkRefuses
<1>2. CASE sink.kind = "growable" /\ sink' = sink
  <2>1. offered' \in Seq(Byte)
    BY ConcatProperties DEF SinkInv, SinkTypeOK, SinkRefuses
  <2> QED BY <1>2, <2>1 DEF SinkInv, SinkTypeOK, RoomForTerminator, FixedKeepsPrefix
<1> QED BY <1>1, <1>2 DEF SinkRefuses

\* Steps that leave the sink alone.
LEMMA SinkUnchanged ==
  ASSUME SinkInv, UNCHANGED <<sink, offered>>
  PROVE  SinkInv'
BY DEF SinkInv, SinkTypeOK, RoomForTerminator, FixedKeepsPrefix

\* A step is a write to the sink, taken, refused or not made, or leaves it alone.
LEMMA SinkStepKeeps ==
  ASSUME Typed, SinkInv, [Next]_vars
  PROVE  SinkInv'
<1>1. CASE SinkWrite
  <2>1. todo \in Seq(WriteSet) /\ todo # <<>>
    BY <1>1 DEF Typed, SinkWrite
  <2>2. PICK h \in WriteSet : h = Head(todo)
    BY <2>1, AllBytesFirst
  <2>3. PICK hb \in Seq(Byte) : hb = h.bytes
    BY DEF WriteSet
  <2>4. UNCHANGED <<sink, offered>> \/ SinkTakes(hb) \/ SinkRefuses(hb)
    BY <1>1, <2>2, <2>3 DEF SinkWrite
  <2> QED BY <2>4, SinkUnchanged, SinkTakesKeepsInv, SinkRefusesKeepsInv
<1>2. CASE ~SinkWrite
  <2>1. UNCHANGED <<sink, offered>>
    <3>1. CASE UNCHANGED vars
      BY <3>1 DEF vars
    <3>2. CASE RecordBegin
      BY <3>2 DEF RecordBegin, Refuse, history
    <3>3. CASE RecordEnd
      BY <3>3 DEF RecordEnd, Refuse, Begin, history
    <3>4. CASE Finish
      BY <3>4 DEF Finish, Begin, history
    <3>5. CASE \E f \in Fields, null \in BOOLEAN : Field(f, null)
      BY <3>5 DEF Field, Refuse, Begin, history
    <3>6. CASE \E table \in Tables : WriteTable(table)
      BY <3>6 DEF WriteTable, Begin
    <3>7. CASE Return
      BY <3>7 DEF Return
    <3> QED BY <1>2, <3>1, <3>2, <3>3, <3>4, <3>5, <3>6, <3>7 DEF Next
  <2> QED BY <2>1, SinkUnchanged
<1> QED BY <1>1, <1>2

LEMMA SinkInvariant == Spec => []SinkInv
<1>1. Init => Typed /\ ReadsBack /\ SinkInv
  BY InitTyped, NewSinkInv DEF Init
<1>2. Typed /\ ReadsBack /\ [Next]_vars => Typed' /\ ReadsBack'
  BY StepKeeps
<1>3. Typed /\ SinkInv /\ [Next]_vars => SinkInv'
  BY SinkStepKeeps
<1> QED BY <1>1, <1>2, <1>3, PTL DEF Spec

\* Every sink of every size keeps room for the NUL, whatever a caller of the CSV
\* writer does and whatever write fails.
THEOREM TerminatorFits == Spec => []RoomForTerminator
<1>1. SinkInv => RoomForTerminator
  BY DEF SinkInv
<1> QED BY <1>1, SinkInvariant, PTL

\* A fixed buffer of any size holds a gapless prefix of what it was offered and
\* says so exactly when there was more, whatever a caller of the CSV writer does.
THEOREM FixedBufferKeepsPrefix == Spec => []FixedKeepsPrefix
<1>1. SinkInv => FixedKeepsPrefix
  BY DEF SinkInv
<1> QED BY <1>1, SinkInvariant, PTL
=============================================================================
