--------------------------- MODULE CsvTable_proofs --------------------------
(***************************************************************************)
(* Proofs about CsvTable for every set of names and every bound: the type  *)
(* invariant, the structural invariant gtext_csv_validate_table checks,    *)
(* the two action properties about column_count, and the three about the   *)
(* columns: cells move together in all rows, the header map with the       *)
(* header row, and checked header names stay distinct.                     *)
(***************************************************************************)
EXTENDS CsvTable, DataLemmas

-----------------------------------------------------------------------------
(* The helpers.                                                            *)

\* Rows built by a call are rows.
LEMMA RowsUpToType ==
  ASSUME NEW n \in Nat
  PROVE  RowsUpTo(n) \subseteq Row
BY SMT, SeqDef DEF RowsUpTo, Row

\* A function of the positions of rs that yields rows is a table of as many rows.
LEMMA MapRows ==
  ASSUME NEW rs \in Seq(Row), NEW f \in [DOMAIN rs -> Row]
  PROVE  f \in Seq(Row) /\ Len(f) = Len(rs) /\ DOMAIN f = DOMAIN rs
BY LenProperties, TupleIsSeq

\* The same of header maps.
LEMMA MapEntries ==
  ASSUME NEW m \in Seq(Entry), NEW f \in [DOMAIN m -> Entry]
  PROVE  f \in Seq(Entry) /\ Len(f) = Len(m)
BY LenProperties, TupleIsSeq

\* The rows of a table are rows and have a length.
LEMMA RowAt ==
  ASSUME NEW rs \in Seq(Row), NEW p \in DOMAIN rs
  PROVE  /\ rs[p] \in Row /\ Len(rs[p]) \in Nat
         /\ DOMAIN rs[p] = 1..Len(rs[p])
         /\ \A k \in 1..Len(rs[p]) : rs[p][k] \in Names
<1>1. rs[p] \in Row
  BY ElementOfSeq, LenProperties
<1> QED BY <1>1, ElementOfSeq, LenProperties DEF Row

LEMMA MapEntryType ==
  ASSUME NEW n \in Names, NEW i \in Nat
  PROVE  MapEntry(n, i) \in Entry
BY DEF MapEntry, Entry

\* Reindexing keeps the entries entries: no column number drops below 0.
LEMMA ReindexType ==
  ASSUME NEW m \in Seq(Entry), NEW c \in Nat
  PROVE  ReindexUp(m, c) \in Seq(Entry) /\ ReindexDown(m, c) \in Seq(Entry)
<1>1. \A k \in DOMAIN m : m[k] \in Entry
  BY ElementOfSeq, LenProperties
<1>2. \A k \in DOMAIN m : m[k].name \in Names /\ m[k].index \in Nat
  BY <1>1 DEF Entry
<1>3. ReindexUp(m, c) \in [DOMAIN m -> Entry]
  BY <1>1, <1>2, MapEntryType DEF ReindexUp
<1>4. ASSUME NEW k \in DOMAIN m, m[k].index > c
      PROVE  m[k].index - 1 \in Nat
  BY <1>2, <1>4
<1>5. ReindexDown(m, c) \in [DOMAIN m -> Entry]
  BY <1>1, <1>2, <1>4, MapEntryType DEF ReindexDown
<1> QED BY <1>3, <1>5, MapEntries

\* The map of a header row without its later duplicates.
LEMMA FirstWinsMapType ==
  ASSUME NEW row \in Row
  PROVE  FirstWinsMap(row) \in Seq(Entry)
<1> DEFINE K == {k \in DOMAIN row : \A j \in DOMAIN row : j < k => row[j] # row[k]}
           E == {MapEntry(row[i], i - 1) : i \in K}
           f == [i \in K |-> MapEntry(row[i], i - 1)]
<1>1. DOMAIN row = 1..Len(row) /\ Len(row) \in Nat
      /\ \A i \in DOMAIN row : row[i] \in Names
  BY LenProperties, ElementOfSeq DEF Row
<1>2. IsFiniteSet(K)
  <2>1. IsFiniteSet(DOMAIN row)
    BY <1>1, FS_Interval
  <2>2. K \in SUBSET DOMAIN row
    OBVIOUS
  <2> QED BY <2>1, <2>2, FS_Subset
<1>3. \A i \in K : MapEntry(row[i], i - 1) \in Entry
  <2>1. \A i \in K : i - 1 \in Nat /\ row[i] \in Names
    BY <1>1
  <2> QED BY <2>1, MapEntryType
<1>4. E \subseteq Entry
  BY <1>3
<1>5. f \in Surjection(K, E)
  BY DEF Surjection
<1>6. IsFiniteSet(E)
  <2> HIDE DEF f, E, K
  <2> QED BY <1>2, <1>5, FS_Surjection
<1>7. SetToSeq(E) \in Seq(E)
  BY <1>6, SetToSeqProperties
<1>8. SetToSeq(E) \in Seq(Entry)
  <2> HIDE DEF E
  <2> QED BY <1>4, <1>7, SeqMonotonic
<1> QED BY <1>8 DEF FirstWinsMap

\* The maps a parse may build.
LEMMA MapOfType ==
  ASSUME NEW row \in Row, NEW columns \in Descending(Len(row))
  PROVE  MapOf(row, columns) \in Seq(Entry)
<1>1. DOMAIN row = 1..Len(row) /\ Len(row) \in Nat
      /\ \A i \in 1..Len(row) : row[i] \in Names
  BY LenProperties, ElementOfSeq DEF Row
<1>2. PICK k \in 0..Len(row) : columns \in [1..k -> 1..Len(row)]
  BY DEF Descending
<1>3. \A i \in 1..k : columns[i] \in 1..Len(row) /\ columns[i] - 1 \in Nat
  BY <1>1, <1>2
<1>4. \A i \in 1..k : MapEntry(row[columns[i]], columns[i] - 1) \in Entry
  BY <1>1, <1>3, MapEntryType
<1>5. MapOf(row, columns) \in [1..k -> Entry]
  BY <1>2, <1>4 DEF MapOf
<1>6. k \in Nat
  BY <1>1, <1>2
<1> QED BY <1>5, <1>6, TupleIsSeq

\* Padding and cutting gives exactly n fields.
LEMMA FitProperties ==
  ASSUME NEW row \in Row, NEW n \in Nat
  PROVE  Fit(row, n) \in Row /\ Len(Fit(row, n)) = n
<1>1. Len(row) \in Nat /\ \A i \in 1..Len(row) : row[i] \in Names
  BY LenProperties, ElementOfSeq DEF Row
<1>2. Fit(row, n) \in [1..n -> Names]
  BY <1>1, EmptyAssumption DEF Fit
<1> QED BY <1>2, TupleIsSeq DEF Row

\* A cell inserted at column c makes the row one longer, or c + 1 long.
LEMMA WidenedProperties ==
  ASSUME NEW row \in Row, NEW c \in Nat, NEW v \in Names
  PROVE  /\ Widened(row, c, v) \in Row
         /\ Len(Widened(row, c, v)) = IF c > Len(row) THEN c + 1 ELSE Len(row) + 1
<1>1. Len(row) \in Nat
  BY LenProperties DEF Row
<1>2. CASE c > Len(row)
  <2>1. Fit(row, c) \in Seq(Names) /\ Len(Fit(row, c)) = c
    BY FitProperties DEF Row
  <2>2. Append(Fit(row, c), v) \in Seq(Names) /\ Len(Append(Fit(row, c), v)) = c + 1
    BY <2>1, AppendProperties
  <2> QED BY <1>2, <2>2 DEF Widened, Row
<1>3. CASE ~(c > Len(row))
  <2>1. c + 1 \in 1..(Len(row) + 1) /\ row \in Seq(Names)
    BY <1>1, <1>3 DEF Row
  <2>2. \A i \in 1..(Len(row) + 1) :
          InsertAt(row, i, v) \in Seq(Names) /\ Len(InsertAt(row, i, v)) = Len(row) + 1
    BY <2>1, InsertAtProperties
  <2> QED BY <1>3, <2>1, <2>2 DEF Widened, Row
<1> QED BY <1>2, <1>3

\* A removed column shortens exactly the rows that have it.
LEMMA WithoutColumnProperties ==
  ASSUME NEW row \in Row, NEW c \in Nat
  PROVE  /\ WithoutColumn(row, c) \in Row
         /\ Len(WithoutColumn(row, c)) = IF c < Len(row) THEN Len(row) - 1 ELSE Len(row)
<1>1. Len(row) \in Nat /\ row \in Seq(Names)
  BY LenProperties DEF Row
<1>2. CASE c < Len(row)
  <2>1. c + 1 \in 1..Len(row)
    BY <1>1, <1>2
  <2>2. /\ RemoveAt(row, c + 1) \in Seq(Names)
        /\ Len(RemoveAt(row, c + 1)) = Len(row) - 1
    BY <1>1, <2>1, RemoveAtProperties
  <2> QED BY <1>2, <2>2 DEF WithoutColumn, Row
<1>3. CASE ~(c < Len(row))
  BY <1>1, <1>3 DEF WithoutColumn, Row
<1> QED BY <1>2, <1>3

\* The largest and the smallest field count of a table with rows.
LEMMA ColCounts ==
  ASSUME NEW rs \in Seq(Row)
  PROVE  /\ MaxColCount(rs) \in Nat /\ MinColCount(rs) \in Nat
         /\ \A p \in DOMAIN rs : Len(rs[p]) <= MaxColCount(rs)
         /\ rs # <<>> => \E p \in DOMAIN rs : Len(rs[p]) = MaxColCount(rs)
<1>1. CASE rs = <<>>
  <2>1. DOMAIN rs = {}
    BY <1>1, EmptySeq, LenProperties
  <2> QED BY <1>1, <2>1 DEF MaxColCount, MinColCount
<1>2. CASE rs # <<>>
  <2> DEFINE L == {Len(rs[i]) : i \in DOMAIN rs}
  <2>1. /\ Max(L) \in L /\ \A n \in L : Max(L) >= n
        /\ Min(L) \in L /\ \A n \in L : Min(L) <= n
        /\ L \subseteq Nat
    <3>1. rs \in Seq(Seq(Names))
      BY DEF Row
    <3> QED BY <1>2, <3>1, LengthsProperties, Zenon
  <2>2. MaxColCount(rs) = Max(L) /\ MinColCount(rs) = Min(L)
    BY <1>2 DEF MaxColCount, MinColCount
  <2>3. \A p \in DOMAIN rs : Len(rs[p]) \in L
    OBVIOUS
  <2>4. \A n \in L : \E p \in DOMAIN rs : n = Len(rs[p])
    OBVIOUS
  <2> HIDE DEF L
  <2>5. \A p \in DOMAIN rs : Len(rs[p]) \in Nat /\ Len(rs[p]) <= Max(L)
    BY <2>1, <2>3
  <2> QED BY <2>1, <2>2, <2>4, <2>5
<1> QED BY <1>1, <1>2

-----------------------------------------------------------------------------
(* The inductive invariant: types, and the structure the types of the next *)
(* state depend on (clear keeps rows[1] of a table with headers).          *)

Inv == TypeOK /\ StructureValid

LEMMA InvInit == Init => Inv
<1> SUFFICES ASSUME Init PROVE Inv
  OBVIOUS
<1> USE BoundsAssumption, EmptyAssumption
<1>1. /\ <<hasHeader, hasMap, requireUnique, allowIrregular>>
           \in BOOLEAN \X BOOLEAN \X BOOLEAN \X BOOLEAN
      /\ status \in Status
      /\ hasMap => hasHeader
  BY DEF Init, NewTable, NewTableWithHeaders, ParseTable, Status
<1>2. /\ rows \in Seq(Row) /\ Len(rows) <= rowCapacity /\ rowCapacity \in Nat \ {0}
      /\ columnCount \in Nat /\ headerMap \in Seq(Entry)
      /\ hasHeader => rows # <<>>
  <2>1. CASE NewTable /\ rowCapacity = InitCapacity
    BY <2>1, EmptySeq DEF NewTable
  <2>2. CASE NewTableWithHeaders /\ rowCapacity = InitCapacity
    <3>1. PICK names \in RowsUpTo(MaxCols) \ {<<>>} :
            /\ rows = <<names>> /\ columnCount = Len(names)
            /\ headerMap = FirstWinsMap(names)
      BY <2>2 DEF NewTableWithHeaders
    <3>2. names \in Row
      BY RowsUpToType
    <3>3. columnCount \in Nat /\ headerMap \in Seq(Entry)
      BY <3>1, <3>2, LenProperties, FirstWinsMapType DEF Row
    <3>4. rows \in Seq(Row) /\ Len(rows) = 1 /\ rows # <<>>
      BY <3>1, <3>2
    <3> QED BY <2>2, <3>3, <3>4
  <2>3. CASE /\ ParseTable
             /\ \E blank \in {0, 1}, c \in 1..(InitCapacity + 2 * MaxRows + 2) :
                  FittingCapacity(c, Len(rows) + blank) /\ rowCapacity = c
    <3>1. PICK parsed \in UNION {[1..k -> RowsUpTo(MaxCols) \ {<<>>}] : k \in 0..MaxRows} :
            /\ rows = parsed
            /\ columnCount = IF parsed = <<>> THEN 0 ELSE Len(parsed[1])
            /\ \/ hasHeader = FALSE /\ headerMap = <<>>
               \/ /\ parsed # <<>>
                  /\ \E columns \in Descending(Len(parsed[1])) :
                        headerMap = MapOf(parsed[1], columns)
      BY <2>3 DEF ParseTable
    <3>2. PICK k \in 0..MaxRows : parsed \in [1..k -> RowsUpTo(MaxCols) \ {<<>>}]
      OBVIOUS
    <3>3. parsed \in [1..k -> Row] /\ k \in Nat
      BY <3>2, RowsUpToType
    <3>4. rows \in Seq(Row) /\ Len(rows) \in Nat
      BY <3>1, <3>3, TupleIsSeq
    <3>5. Len(rows) <= rowCapacity /\ rowCapacity \in Nat \ {0}
      BY <2>3, <3>4 DEF FittingCapacity
    <3>6. rows # <<>> => rows[1] \in Row /\ Len(rows[1]) \in Nat
      <4>1. rows # <<>> => 1 \in DOMAIN rows
        BY <3>4, EmptySeq, LenProperties
      <4> QED BY <3>4, <4>1, RowAt
    <3>7. columnCount \in Nat
      BY <3>1, <3>6
    <3>8. headerMap \in Seq(Entry) /\ (hasHeader => rows # <<>>)
      BY <3>1, <3>6, MapOfType, EmptySeq
    <3> QED BY <3>4, <3>5, <3>7, <3>8
  <2> QED BY <2>1, <2>2, <2>3 DEF Init
<1>3. rows # <<>> => Len(rows) > 0
  BY <1>2, EmptySeq
<1> QED BY <1>1, <1>2, <1>3 DEF Inv, TypeOK, StructureValid, ValidateTable, Mapped

\* What Inv says of the current state, in the form the steps use it.
LEMMA InvFacts ==
  ASSUME Inv
  PROVE  /\ rows \in Seq(Row) /\ Len(rows) \in Nat /\ DOMAIN rows = 1..Len(rows)
         /\ rowCapacity \in Nat \ {0} /\ Len(rows) <= rowCapacity
         /\ columnCount \in Nat /\ headerMap \in Seq(Entry)
         /\ hasHeader \in BOOLEAN /\ hasMap \in BOOLEAN
         /\ requireUnique \in BOOLEAN /\ allowIrregular \in BOOLEAN
         /\ hasMap => hasHeader
         /\ hasHeader => rows # <<>>
         /\ rows # <<>> => Len(rows) > 0 /\ 1 \in DOMAIN rows
         /\ rows = <<>> => Len(rows) = 0
         /\ DataRows = IF hasHeader THEN Len(rows) - 1 ELSE Len(rows)
         /\ DataRows \in Nat
<1>1. rows \in Seq(Row) /\ Len(rows) \in Nat /\ DOMAIN rows = 1..Len(rows)
  BY LenProperties DEF Inv, TypeOK
<1>2. (rows # <<>> => Len(rows) > 0) /\ (rows = <<>> => Len(rows) = 0)
  BY <1>1, EmptySeq
<1>3. hasHeader => rows # <<>>
  BY DEF Inv, StructureValid
<1>4. DataRows = (IF hasHeader THEN Len(rows) - 1 ELSE Len(rows)) /\ DataRows \in Nat
  BY <1>1, <1>2, <1>3 DEF DataRows
<1>5. rows # <<>> => 1 \in DOMAIN rows
  BY <1>1, <1>2
<1>6. /\ hasHeader \in BOOLEAN /\ hasMap \in BOOLEAN
      /\ requireUnique \in BOOLEAN /\ allowIrregular \in BOOLEAN
  BY DEF Inv, TypeOK
<1>7. /\ rowCapacity \in Nat \ {0} /\ Len(rows) <= rowCapacity
      /\ columnCount \in Nat /\ headerMap \in Seq(Entry)
      /\ hasMap => hasHeader
  BY DEF Inv, TypeOK, StructureValid, ValidateTable
<1> QED BY <1>1, <1>2, <1>3, <1>4, <1>5, <1>6, <1>7, Zenon

\* A call that keeps the rows array keeps the invariant.
LEMMA InvRowsKept ==
  ASSUME Inv, rows' \in Seq(Row), Len(rows') = Len(rows), columnCount' \in Nat,
         headerMap' \in Seq(Entry), status' \in Status,
         UNCHANGED <<rowCapacity, hasHeader, hasMap, policy>>
  PROVE  Inv'
<1>1. rows' # <<>> <=> rows # <<>>
  BY EmptySeq DEF Inv, TypeOK
<1> QED BY <1>1 DEF Inv, TypeOK, StructureValid, ValidateTable, Mapped, policy

\* A rejected call keeps it.
LEMMA InvFails ==
  ASSUME Inv, NEW code \in {"INVALID", "OOM"}, Fails(code)
  PROVE  Inv'
BY DEF Fails, content, policy, Inv, TypeOK, StructureValid, ValidateTable, Mapped, Status

\* A new row keeps it: the array is grown in time.
LEMMA InvRowAdded ==
  ASSUME Inv, rows' \in Seq(Row), Len(rows') = Len(rows) + 1,
         rowCapacity' = CapacityForOneMore, columnCount' \in Nat,
         status' \in Status, KeepsHeader, UNCHANGED policy
  PROVE  Inv'
<1>1. rows' # <<>>
  BY InvFacts, EmptySeq
<1>2. Len(rows') <= rowCapacity' /\ rowCapacity' \in Nat \ {0}
  BY InvFacts DEF CapacityForOneMore
<1> QED BY <1>1, <1>2, InvFacts
    DEF Inv, TypeOK, StructureValid, ValidateTable, Mapped, policy, KeepsHeader

-----------------------------------------------------------------------------
(* What each call is shown to preserve.                                    *)

CoverStep == CountCovers => CountCovers'
RectStep  == ~allowIrregular /\ Rectangular /\ HeaderReady => Rectangular'
Preserves == Inv' /\ CoverStep /\ RectStep

LEMMA SameRows ==
  ASSUME UNCHANGED <<rows, columnCount>>
  PROVE  CoverStep /\ RectStep
BY DEF CoverStep, RectStep, CountCovers, Rectangular

\* A rejected call, or one that only reports success.
LEMMA FailsPreserves ==
  ASSUME Inv, NEW code \in {"INVALID", "OOM"}, Fails(code)
  PROVE  Preserves
BY InvFails, SameRows DEF Preserves, Fails, content

LEMMA NothingPreserves ==
  ASSUME Inv, UNCHANGED content, Succeeds
  PROVE  Preserves
BY SameRows DEF Preserves, Succeeds, content, policy, Inv, TypeOK, StructureValid,
                ValidateTable, Mapped, Status

\* The rows array keeps its size and no row outgrows the column count.
LEMMA RowsKeptPreserves ==
  ASSUME Inv, rows' \in Seq(Row), Len(rows') = Len(rows), columnCount' \in Nat,
         headerMap' \in Seq(Entry), UNCHANGED <<rowCapacity, hasHeader, hasMap>>,
         Succeeds, CoverStep, RectStep
  PROVE  Preserves
<1>1. status' \in Status /\ UNCHANGED policy
  BY DEF Succeeds, Status
<1> QED BY <1>1, InvRowsKept DEF Preserves

-----------------------------------------------------------------------------
(* Row operations.                                                         *)

\* Every row after the call is an old one or the new one, whose length the
\* column count admits.
LEMMA AddedRowPreserves ==
  ASSUME Inv, NEW fields \in Row, FieldCountAccepted(Len(fields)),
         rows' \in Seq(Row), Len(rows') = Len(rows) + 1,
         \A p \in DOMAIN rows' :
            rows'[p] = fields \/ \E q \in DOMAIN rows : rows'[p] = rows[q],
         rowCapacity' = CapacityForOneMore,
         columnCount' = ColumnCountAfterRow(Len(fields)),
         KeepsHeader, Succeeds
  PROVE  Preserves
<1>1. Len(fields) \in Nat /\ columnCount \in Nat /\ columnCount' \in Nat
  BY LenProperties, InvFacts DEF Row, ColumnCountAfterRow, Bigger
<1>2. Inv'
  BY <1>1, InvRowAdded DEF Succeeds, Status
<1>3. columnCount <= columnCount' /\ Len(fields) <= columnCount'
  BY <1>1 DEF ColumnCountAfterRow, FieldCountAccepted, Bigger
<1>4. CoverStep
  <2>1. SUFFICES ASSUME CountCovers, NEW p \in DOMAIN rows'
                 PROVE  Len(rows'[p]) <= columnCount'
    BY DEF CoverStep, CountCovers
  <2>2. \A q \in DOMAIN rows : Len(rows[q]) \in Nat /\ Len(rows[q]) <= columnCount
    BY <2>1, InvFacts, RowAt DEF CountCovers
  <2> QED BY <1>1, <1>3, <2>2
<1>5. RectStep
  <2>1. SUFFICES ASSUME ~allowIrregular, Rectangular, HeaderReady,
                        NEW p \in DOMAIN rows'
                 PROVE  Len(rows'[p]) = columnCount'
    BY DEF RectStep, Rectangular
  <2>2. CASE DataRows = 0 /\ columnCount = 0
    <3>1. ~hasHeader /\ DOMAIN rows = {}
      BY <1>1, <2>1, <2>2, InvFacts DEF HeaderReady
    <3> QED BY <2>2, <3>1 DEF ColumnCountAfterRow
  <2>3. CASE ~(DataRows = 0 /\ columnCount = 0)
    <3>1. columnCount' = columnCount /\ Len(fields) = columnCount
      BY <2>1, <2>3 DEF ColumnCountAfterRow, FieldCountAccepted
    <3> QED BY <2>1, <3>1 DEF Rectangular
  <2> QED BY <2>2, <2>3
<1> QED BY <1>2, <1>4, <1>5 DEF Preserves

LEMMA RowAppendPreserves ==
  ASSUME Inv, NEW fields \in Row, RowAppend(fields)
  PROVE  Preserves
<1>1. CASE Fails("INVALID") \/ Fails("OOM")
  BY <1>1, FailsPreserves
<1>2. CASE /\ FieldCountAccepted(Len(fields))
           /\ rows' = Append(rows, fields)
           /\ rowCapacity' = CapacityForOneMore
           /\ columnCount' = ColumnCountAfterRow(Len(fields))
           /\ KeepsHeader /\ Succeeds
  <2>1. /\ rows' \in Seq(Row) /\ Len(rows') = Len(rows) + 1
        /\ \A i \in 1..Len(rows) : rows'[i] = rows[i]
        /\ rows'[Len(rows) + 1] = fields
    BY <1>2, InvFacts, AppendProperties
  <2>2. DOMAIN rows' = 1..(Len(rows) + 1)
    BY <2>1, LenProperties
  <2>3. \A p \in DOMAIN rows' :
           rows'[p] = fields \/ \E q \in DOMAIN rows : rows'[p] = rows[q]
    BY SMTT(60), <2>1, <2>2, InvFacts
  <2> QED BY <1>2, <2>1, <2>3, AddedRowPreserves
<1> QED BY <1>1, <1>2 DEF RowAppend

LEMMA RowInsertPreserves ==
  ASSUME Inv, NEW r \in Nat, NEW fields \in Row, RowInsert(r, fields)
  PROVE  Preserves
<1>1. CASE Fails("INVALID") \/ Fails("OOM")
  BY <1>1, FailsPreserves
<1>2. CASE /\ FieldCountAccepted(Len(fields)) /\ r <= DataRows
           /\ rows' = IF r = DataRows THEN Append(rows, fields)
                      ELSE InsertAt(rows, RowPos(r), fields)
           /\ rowCapacity' = CapacityForOneMore
           /\ columnCount' = ColumnCountAfterRow(Len(fields))
           /\ KeepsHeader /\ Succeeds
  <2>1. CASE r = DataRows
    <3>1. /\ rows' \in Seq(Row) /\ Len(rows') = Len(rows) + 1
          /\ \A i \in 1..Len(rows) : rows'[i] = rows[i]
          /\ rows'[Len(rows) + 1] = fields
      <4>1. rows' = Append(rows, fields) /\ rows \in Seq(Row)
        BY <1>2, <2>1, InvFacts
      <4> QED BY SMTT(60), <4>1, AppendProperties
    <3>2. DOMAIN rows' = 1..(Len(rows) + 1)
      BY <3>1, LenProperties
    <3>3. \A p \in DOMAIN rows' :
             rows'[p] = fields \/ \E q \in DOMAIN rows : rows'[p] = rows[q]
      BY <3>1, <3>2, InvFacts
    <3> QED BY <1>2, <3>1, <3>3, AddedRowPreserves
  <2>2. CASE r # DataRows
    <3>1. PICK i \in 1..(Len(rows) + 1) : i = RowPos(r)
      BY <1>2, <2>2, InvFacts DEF RowPos
    <3>2. /\ rows' \in Seq(Row) /\ Len(rows') = Len(rows) + 1
          /\ \A j \in 1..(Len(rows) + 1) :
               rows'[j] = IF j < i THEN rows[j]
                          ELSE IF j = i THEN fields ELSE rows[j - 1]
      <4>1. rows' = InsertAt(rows, i, fields) /\ rows \in Seq(Row)
        BY <1>2, <2>2, <3>1, InvFacts
      <4>2. \A S : \A s \in Seq(S) : \A k \in 1..(Len(s) + 1) : \A e \in S :
              /\ InsertAt(s, k, e) \in Seq(S)
              /\ Len(InsertAt(s, k, e)) = Len(s) + 1
              /\ \A j \in 1..(Len(s) + 1) :
                   InsertAt(s, k, e)[j] = IF j < k THEN s[j]
                                          ELSE IF j = k THEN e ELSE s[j - 1]
        BY InsertAtProperties
      <4> QED BY SMTT(60), <4>1, <4>2
    <3>3. DOMAIN rows' = 1..(Len(rows) + 1)
      BY <3>2, LenProperties
    <3>4. ASSUME NEW p \in DOMAIN rows'
          PROVE  rows'[p] = fields \/ \E q \in DOMAIN rows : rows'[p] = rows[q]
      <4>1. CASE p < i
        <5>1. p \in DOMAIN rows
          BY <3>3, <4>1, InvFacts
        <5> QED BY <3>2, <3>3, <4>1, <5>1
      <4>2. CASE p = i
        BY <3>2, <3>3, <4>2, InvFacts
      <4>3. CASE p > i
        <5>1. p - 1 \in DOMAIN rows /\ ~(p < i) /\ p # i
          BY <3>3, <4>3, InvFacts
        <5> QED BY <3>2, <3>3, <5>1
      <4> QED BY <3>3, <4>1, <4>2, <4>3
    <3> QED BY <1>2, <3>2, <3>4, AddedRowPreserves
  <2> QED BY <2>1, <2>2
<1> QED BY <1>1, <1>2 DEF RowInsert

LEMMA RowRemovePreserves ==
  ASSUME Inv, NEW r \in Nat, RowRemove(r)
  PROVE  Preserves
<1>1. CASE Fails("INVALID")
  BY <1>1, FailsPreserves
<1>2. CASE /\ r < DataRows /\ RowPos(r) <= Len(rows)
           /\ rows' = RemoveAt(rows, RowPos(r))
           /\ columnCount' = IF allowIrregular /\ Len(rows[RowPos(r)]) = columnCount
                             THEN MaxColCount(rows') ELSE columnCount
           /\ KeepsHeader /\ UNCHANGED rowCapacity /\ Succeeds
  <2>1. PICK i \in 1..Len(rows) : i = RowPos(r)
    BY SMTT(60), <1>2, InvFacts DEF RowPos
  <2>2. /\ rows' \in Seq(Row) /\ Len(rows') = Len(rows) - 1
        /\ \A j \in 1..(Len(rows) - 1) :
             rows'[j] = IF j < i THEN rows[j] ELSE rows[j + 1]
    BY ZenonT(60), <1>2, <2>1, InvFacts, RemoveAtProperties
  <2>3. DOMAIN rows' = 1..(Len(rows) - 1)
    BY <2>2, LenProperties
  <2>4. ASSUME NEW p \in DOMAIN rows'
        PROVE  \E q \in DOMAIN rows : rows'[p] = rows[q]
    <3>1. p \in DOMAIN rows /\ p + 1 \in DOMAIN rows
      BY <2>3, InvFacts
    <3>2. rows'[p] = rows[p] \/ rows'[p] = rows[p + 1]
      BY <2>2, <2>3
    <3> QED BY <3>1, <3>2
  <2>5. columnCount' \in Nat
    BY <1>2, <2>2, InvFacts, ColCounts
  <2>6. hasHeader => Len(rows') > 0
    <3>1. hasHeader => Len(rows) > 1
      BY <1>2, InvFacts
    <3> QED BY <2>2, <3>1, InvFacts
  <2>7. rows' = <<>> => Len(rows') = 0
    BY EmptySeq
  <2>8. Inv'
    BY <1>2, <2>2, <2>5, <2>6, <2>7, InvFacts
       DEF Inv, TypeOK, StructureValid, ValidateTable, Mapped, Status, KeepsHeader,
           Succeeds, policy
  <2>9. CoverStep
    BY <1>2, <2>2, <2>4, ColCounts DEF CoverStep, CountCovers
  <2>10. RectStep
    BY <1>2, <2>4 DEF RectStep, Rectangular
  <2> QED BY <2>8, <2>9, <2>10 DEF Preserves
<1> QED BY <1>1, <1>2 DEF RowRemove

\* One row is replaced; the column count admits its length.
LEMMA ReplacedRowPreserves ==
  ASSUME Inv, NEW i \in DOMAIN rows, NEW row \in Row,
         rows' = [rows EXCEPT ![i] = row],
         columnCount' \in Nat, columnCount <= columnCount',
         Len(row) <= columnCount' \/ Len(row) = Len(rows[i]),
         ~allowIrregular => columnCount' = columnCount /\ Len(row) = Len(rows[i]),
         headerMap' \in Seq(Entry), UNCHANGED <<rowCapacity, hasHeader, hasMap>>,
         Succeeds
  PROVE  Preserves
<1>1. /\ rows' \in Seq(Row) /\ Len(rows') = Len(rows)
      /\ \A j \in DOMAIN rows : rows'[j] = IF j = i THEN row ELSE rows[j]
      /\ DOMAIN rows' = DOMAIN rows
  BY InvFacts, ExceptSeq
<1>2. Len(row) \in Nat /\ \A j \in DOMAIN rows : Len(rows[j]) \in Nat
  BY InvFacts, LenProperties, RowAt DEF Row
<1>3. CoverStep
  BY <1>1, <1>2, InvFacts DEF CoverStep, CountCovers
<1>4. RectStep
  BY <1>1 DEF RectStep, Rectangular
<1> QED BY <1>1, <1>3, <1>4, RowsKeptPreserves

LEMMA RowSetPreserves ==
  ASSUME Inv, NEW r \in Nat, NEW fields \in Row, RowSet(r, fields)
  PROVE  Preserves
<1>1. CASE Fails("INVALID") \/ Fails("OOM")
  BY <1>1, FailsPreserves
<1>2. CASE /\ r < DataRows
           /\ rows' = [rows EXCEPT ![RowPos(r)] =
                         IF allowIrregular THEN fields ELSE Overwrite(@, fields)]
           /\ columnCount' = IF allowIrregular THEN Bigger(columnCount, Len(fields))
                             ELSE columnCount
           /\ KeepsHeader /\ UNCHANGED rowCapacity /\ Succeeds
  <2>1. PICK i \in DOMAIN rows : i = RowPos(r)
    BY <1>2, InvFacts DEF RowPos
  <2> DEFINE old == rows[i]
             row == IF allowIrregular THEN fields ELSE Overwrite(old, fields)
  <2>2. old \in Row /\ Len(old) \in Nat /\ (\A k \in 1..Len(old) : old[k] \in Names)
        /\ Len(fields) \in Nat /\ (\A k \in 1..Len(fields) : fields[k] \in Names)
    BY InvFacts, RowAt, LenProperties, ElementOfSeq DEF Row
  <2>3. Overwrite(old, fields) \in Row /\ Len(Overwrite(old, fields)) = Len(old)
    <3>1. Overwrite(old, fields) \in [1..Len(old) -> Names]
      BY <2>2 DEF Overwrite
    <3> QED BY <2>2, <3>1, TupleIsSeq DEF Row
  <2>4. /\ columnCount' \in Nat /\ columnCount <= columnCount'
        /\ allowIrregular => Len(fields) <= columnCount'
    BY <1>2, <2>2, InvFacts DEF Bigger
  <2>5. rows' = [rows EXCEPT ![i] = row]
    BY <1>2, <2>1
  <2>6. /\ row \in Row
        /\ Len(row) <= columnCount' \/ Len(row) = Len(rows[i])
        /\ ~allowIrregular => columnCount' = columnCount /\ Len(row) = Len(rows[i])
    BY <1>2, <2>3, <2>4
  <2> HIDE DEF row, old
  <2> QED BY <1>2, <2>4, <2>5, <2>6, InvFacts, ReplacedRowPreserves DEF KeepsHeader
<1> QED BY <1>1, <1>2 DEF RowSet

LEMMA FieldSetPreserves ==
  ASSUME Inv, NEW r \in Nat, NEW c \in Nat, NEW value \in Names, FieldSet(r, c, value)
  PROVE  Preserves
<1>1. CASE Fails("INVALID") \/ Fails("OOM")
  BY <1>1, FailsPreserves
<1>2. CASE /\ RowPos(r) <= Len(rows) /\ c < Len(rows[RowPos(r)])
           /\ rows' = [rows EXCEPT ![RowPos(r)][c + 1] = value]
           /\ KeepsHeader /\ UNCHANGED <<rowCapacity, columnCount>> /\ Succeeds
  <2>1. PICK i \in DOMAIN rows : i = RowPos(r)
    BY <1>2, InvFacts DEF RowPos
  <2>2. rows[i] \in Seq(Names) /\ c + 1 \in 1..Len(rows[i])
    BY <1>2, <2>1, InvFacts, RowAt DEF Row
  <2>3. PICK row : row = [rows[i] EXCEPT ![c + 1] = value]
    OBVIOUS
  <2>4. row \in Row /\ Len(row) = Len(rows[i])
    <3>1. \A k \in 1..Len(rows[i]) : /\ [rows[i] EXCEPT ![k] = value] \in Seq(Names)
                                     /\ Len([rows[i] EXCEPT ![k] = value]) = Len(rows[i])
      BY <2>2, ExceptSeq
    <3> QED BY <2>2, <2>3, <3>1 DEF Row
  <2>5. rows' = [rows EXCEPT ![i] = row]
    BY <1>2, <2>1, <2>3
  <2>6. columnCount' \in Nat /\ columnCount' = columnCount /\ columnCount <= columnCount'
    BY <1>2, InvFacts
  <2> QED BY <1>2, <2>4, <2>5, <2>6, InvFacts, ReplacedRowPreserves DEF KeepsHeader
<1> QED BY <1>1, <1>2 DEF FieldSet

-----------------------------------------------------------------------------
(* Column operations.                                                      *)

\* Every row is replaced by one whose length the new column count admits.
LEMMA MappedRowsPreserves ==
  ASSUME Inv, NEW f \in [DOMAIN rows -> Row], rows' = f,
         columnCount' \in Nat, headerMap' \in Seq(Entry),
         UNCHANGED <<rowCapacity, hasHeader, hasMap>>, Succeeds,
         CountCovers => \A p \in DOMAIN rows : Len(f[p]) <= columnCount',
         ~allowIrregular /\ Rectangular /\ HeaderReady
           => \A p \in DOMAIN rows : Len(f[p]) = columnCount'
  PROVE  Preserves
<1>1. rows' \in Seq(Row) /\ Len(rows') = Len(rows) /\ DOMAIN rows' = DOMAIN rows
  BY InvFacts, MapRows
<1>2. CoverStep
  BY <1>1 DEF CoverStep, CountCovers
<1>3. RectStep
  BY <1>1 DEF RectStep, Rectangular
<1> QED BY <1>1, <1>2, <1>3, RowsKeptPreserves

\* The cells of a new column: one name per row.
IsColumn(cells) == \A p \in DOMAIN rows : cells[p] \in Names

\* With a usable header no row is left out.
LEMMA AllExtended ==
  ASSUME Inv, HeaderReady, NEW p \in DOMAIN rows
  PROVE  Extended(p)
BY InvFacts DEF HeaderReady, Extended, DataPos, Mapped

LEMMA AppendCellsPreserves ==
  ASSUME Inv, NEW cells, IsColumn(cells), rows # <<>>, AppendCells(cells)
  PROVE  Preserves
<1>1. PICK f : f = [p \in DOMAIN rows |->
                      IF Extended(p) THEN Append(rows[p], cells[p]) ELSE rows[p]]
  OBVIOUS
<1>2. ASSUME NEW p \in DOMAIN rows
      PROVE  /\ f[p] \in Row /\ Len(rows[p]) \in Nat
             /\ Len(f[p]) = IF Extended(p) THEN Len(rows[p]) + 1 ELSE Len(rows[p])
  <2>1. rows[p] \in Seq(Names) /\ Len(rows[p]) \in Nat /\ cells[p] \in Names
    BY InvFacts, RowAt DEF Row, IsColumn
  <2>2. /\ Append(rows[p], cells[p]) \in Seq(Names)
        /\ Len(Append(rows[p], cells[p])) = Len(rows[p]) + 1
    BY <2>1, AppendProperties
  <2> QED BY <1>1, <2>1, <2>2 DEF Row
<1>3. f \in [DOMAIN rows -> Row]
  BY <1>1, <1>2
<1>4. headerMap' \in Seq(Entry)
  <2>1. MapEntry(cells[1], columnCount) \in Entry
    BY InvFacts, MapEntryType DEF IsColumn
  <2>2. <<MapEntry(cells[1], columnCount)>> \in Seq(Entry) /\ headerMap \in Seq(Entry)
    BY <2>1, InvFacts
  <2>3. <<MapEntry(cells[1], columnCount)>> \o headerMap \in Seq(Entry)
    BY <2>2, ConcatProperties
  <2> QED BY <2>2, <2>3 DEF AppendCells
<1>5. columnCount \in Nat /\ columnCount' = columnCount + 1
  BY InvFacts DEF AppendCells
<1>6. CountCovers => \A p \in DOMAIN rows : Len(f[p]) <= columnCount'
  BY <1>2, <1>5 DEF CountCovers
<1>7. ~allowIrregular /\ Rectangular /\ HeaderReady
        => \A p \in DOMAIN rows : Len(f[p]) = columnCount'
  BY <1>2, <1>5, AllExtended DEF Rectangular
<1>8. rows' = f /\ UNCHANGED <<rowCapacity, hasHeader, hasMap>> /\ Succeeds
  BY <1>1 DEF AppendCells
<1> QED BY <1>3, <1>4, <1>5, <1>6, <1>7, <1>8, MappedRowsPreserves

LEMMA InsertCellsPreserves ==
  ASSUME Inv, NEW c \in Nat, NEW cells, IsColumn(cells), rows # <<>>,
         InsertCells(c, cells),
         allowIrregular \/ \A p \in DOMAIN rows : Extended(p) => c <= Len(rows[p])
  PROVE  Preserves
<1>1. PICK f : f = [p \in DOMAIN rows |->
                      IF Extended(p) THEN Widened(rows[p], c, cells[p]) ELSE rows[p]]
  OBVIOUS
<1>2. ASSUME NEW p \in DOMAIN rows
      PROVE  /\ f[p] \in Row /\ Len(rows[p]) \in Nat
             /\ Len(f[p]) = IF Extended(p)
                            THEN IF c > Len(rows[p]) THEN c + 1 ELSE Len(rows[p]) + 1
                            ELSE Len(rows[p])
  <2>1. rows[p] \in Row /\ Len(rows[p]) \in Nat /\ cells[p] \in Names
    BY InvFacts, RowAt DEF IsColumn
  <2> QED BY <1>1, <2>1, WidenedProperties
<1>3. f \in [DOMAIN rows -> Row]
  BY <1>1, <1>2
<1>4. headerMap' \in Seq(Entry)
  <2>1. MapEntry(cells[1], c) \in Entry
    BY InvFacts, MapEntryType DEF IsColumn
  <2>2. <<MapEntry(cells[1], c)>> \in Seq(Entry) /\ ReindexUp(headerMap, c) \in Seq(Entry)
    BY <2>1, InvFacts, ReindexType
  <2>3. <<MapEntry(cells[1], c)>> \o ReindexUp(headerMap, c) \in Seq(Entry)
    BY <2>2, ConcatProperties
  <2> QED BY <2>3, InvFacts DEF InsertCells
<1>5. /\ columnCount \in Nat /\ columnCount' \in Nat
      /\ columnCount' = IF c > columnCount THEN c + 1 ELSE columnCount + 1
  BY InvFacts DEF InsertCells
<1>6. CountCovers => \A p \in DOMAIN rows : Len(f[p]) <= columnCount'
  <2>1. SUFFICES ASSUME CountCovers, NEW p \in DOMAIN rows
                 PROVE  Len(f[p]) <= columnCount'
    OBVIOUS
  <2>2. Len(rows[p]) <= columnCount
    BY <2>1 DEF CountCovers
  <2> QED BY <1>2, <1>5, <2>2
<1>7. ~allowIrregular /\ Rectangular /\ HeaderReady
        => \A p \in DOMAIN rows : Len(f[p]) = columnCount'
  <2>1. SUFFICES ASSUME ~allowIrregular, Rectangular, HeaderReady, NEW p \in DOMAIN rows
                 PROVE  Len(f[p]) = columnCount'
    OBVIOUS
  <2>2. Len(rows[p]) = columnCount /\ Extended(p) /\ c <= Len(rows[p])
    BY <2>1, AllExtended DEF Rectangular
  <2> QED BY <1>2, <1>5, <2>2
<1>8. rows' = f /\ UNCHANGED <<rowCapacity, hasHeader, hasMap>> /\ Succeeds
  BY <1>1 DEF InsertCells
<1> QED BY <1>3, <1>4, <1>5, <1>6, <1>7, <1>8, MappedRowsPreserves

LEMMA CountOnlyPreserves ==
  ASSUME Inv, rows = <<>>, NEW n \in Nat, CountOnly(n)
  PROVE  Preserves
<1>1. columnCount' \in Nat /\ rows' = rows /\ DOMAIN rows = {}
  BY InvFacts DEF CountOnly
<1>2. CoverStep /\ RectStep
  BY <1>1 DEF CoverStep, RectStep, CountCovers, Rectangular
<1>3. /\ rows' \in Seq(Row) /\ Len(rows') = Len(rows) /\ headerMap' \in Seq(Entry)
      /\ UNCHANGED <<rowCapacity, hasHeader, hasMap>> /\ Succeeds
  BY InvFacts DEF CountOnly, KeepsHeader
<1> QED BY <1>1, <1>2, <1>3, RowsKeptPreserves

LEMMA ColumnAppendCellsPreserves ==
  ASSUME Inv, NEW cells, IsColumn(cells), rows # <<>>, ColumnAppendCells(cells)
  PROVE  Preserves
BY FailsPreserves, AppendCellsPreserves DEF ColumnAppendCells

LEMMA ColumnInsertCellsPreserves ==
  ASSUME Inv, NEW c \in Nat, NEW cells, IsColumn(cells), rows # <<>>,
         ColumnInsertCells(c, cells)
  PROVE  Preserves
BY FailsPreserves, InsertCellsPreserves DEF ColumnInsertCells

\* What the four entry points pass on is a column.
LEMMA EmptyCellsIsColumn ==
  ASSUME NEW name \in Names
  PROVE  IsColumn(EmptyCells(name))
BY EmptyAssumption DEF IsColumn, EmptyCells

LEMMA ValuesIsColumn ==
  ASSUME Inv, NEW values \in Row, Len(values) >= Len(rows)
  PROVE  IsColumn(values)
<1>1. Len(values) \in Nat /\ \A k \in 1..Len(values) : values[k] \in Names
  BY LenProperties, ElementOfSeq DEF Row
<1> QED BY <1>1, InvFacts DEF IsColumn

LEMMA ColumnAppendPreserves ==
  ASSUME Inv, NEW name \in Names, ColumnAppend(name)
  PROVE  Preserves
BY CountOnlyPreserves, ColumnAppendCellsPreserves, EmptyCellsIsColumn DEF ColumnAppend

LEMMA ColumnAppendWithValuesPreserves ==
  ASSUME Inv, NEW values \in Row, ColumnAppendWithValues(values)
  PROVE  Preserves
BY FailsPreserves, ColumnAppendCellsPreserves, ValuesIsColumn DEF ColumnAppendWithValues

LEMMA ColumnInsertPreserves ==
  ASSUME Inv, NEW c \in Nat, NEW name \in Names, ColumnInsert(c, name)
  PROVE  Preserves
<1>1. CASE Fails("INVALID")
  BY <1>1, FailsPreserves
<1>2. CASE ColumnAppend(name)
  BY <1>2, ColumnAppendPreserves
<1>3. CASE /\ rows = <<>>
           /\ CountOnly(IF c > columnCount + 1 THEN c - columnCount + 1 ELSE 2)
  <2>1. (IF c > columnCount + 1 THEN c - columnCount + 1 ELSE 2) \in Nat
    BY InvFacts
  <2> QED BY <1>3, <2>1, CountOnlyPreserves
<1>4. CASE rows # <<>> /\ ColumnInsertCells(c, EmptyCells(name))
  BY <1>4, EmptyCellsIsColumn, ColumnInsertCellsPreserves
<1> QED BY <1>1, <1>2, <1>3, <1>4 DEF ColumnInsert

LEMMA ColumnInsertWithValuesPreserves ==
  ASSUME Inv, NEW c \in Nat, NEW values \in Row, ColumnInsertWithValues(c, values)
  PROVE  Preserves
<1>1. CASE Fails("INVALID")
  BY <1>1, FailsPreserves
<1>2. CASE ColumnAppendWithValues(values)
  BY <1>2, ColumnAppendWithValuesPreserves
<1>3. CASE rows # <<>> /\ Len(values) >= Len(rows) /\ ColumnInsertCells(c, values)
  BY <1>3, ValuesIsColumn, ColumnInsertCellsPreserves
<1> QED BY <1>1, <1>2, <1>3 DEF ColumnInsertWithValues

LEMMA ColumnRemovePreserves ==
  ASSUME Inv, NEW c \in Nat, ColumnRemove(c)
  PROVE  Preserves
<1>1. CASE Fails("INVALID")
  BY <1>1, FailsPreserves
<1>2. CASE c < columnCount /\ RemoveColumn(c)
  <2>1. PICK f : f = [p \in DOMAIN rows |-> WithoutColumn(rows[p], c)]
    OBVIOUS
  <2>2. ASSUME NEW p \in DOMAIN rows
        PROVE  /\ f[p] \in Row /\ Len(rows[p]) \in Nat
               /\ Len(f[p]) = IF c < Len(rows[p]) THEN Len(rows[p]) - 1 ELSE Len(rows[p])
    <3>1. rows[p] \in Row /\ Len(rows[p]) \in Nat
      BY InvFacts, RowAt
    <3> QED BY <2>1, <3>1, WithoutColumnProperties
  <2>3. f \in [DOMAIN rows -> Row]
    BY <2>1, <2>2
  <2>4. headerMap' \in Seq(Entry)
    <3>1. \A k \in EntriesOf(c) : RemoveAt(headerMap, k) \in Seq(Entry)
      BY ZenonT(60), InvFacts, LenProperties, RemoveAtProperties DEF EntriesOf
    <3>2. /\ ReindexDown(headerMap, c) \in Seq(Entry)
          /\ \A k \in EntriesOf(c) : ReindexDown(RemoveAt(headerMap, k), c) \in Seq(Entry)
      BY <3>1, InvFacts, ReindexType
    <3> QED BY <1>2, <3>2, InvFacts DEF RemoveColumn
  <2>5. columnCount \in Nat /\ columnCount' = columnCount - 1 /\ columnCount' \in Nat
    BY <1>2, InvFacts DEF RemoveColumn
  <2>6. CountCovers => \A p \in DOMAIN rows : Len(f[p]) <= columnCount'
    BY <1>2, <2>2, <2>5 DEF CountCovers
  <2>7. ~allowIrregular /\ Rectangular /\ HeaderReady
          => \A p \in DOMAIN rows : Len(f[p]) = columnCount'
    BY <1>2, <2>2, <2>5 DEF Rectangular
  <2>8. rows' = f /\ UNCHANGED <<rowCapacity, hasHeader, hasMap>> /\ Succeeds
    BY <1>2, <2>1 DEF RemoveColumn
  <2> QED BY <2>3, <2>4, <2>5, <2>6, <2>7, <2>8, MappedRowsPreserves
<1> QED BY <1>1, <1>2 DEF ColumnRemove

LEMMA ColumnRenamePreserves ==
  ASSUME Inv, NEW c \in Nat, NEW name \in Names, ColumnRename(c, name)
  PROVE  Preserves
<1>1. CASE Fails("INVALID") \/ Fails("OOM")
  BY <1>1, FailsPreserves
<1>2. CASE /\ rows # <<>> /\ c < Len(rows[1])
           /\ rows' = [rows EXCEPT ![1][c + 1] = name]
           /\ \E k \in EntriesOf(c) :
                 headerMap' = <<MapEntry(name, c)>> \o RemoveAt(headerMap, k)
           /\ UNCHANGED <<rowCapacity, columnCount, hasHeader, hasMap>> /\ Succeeds
  <2>1. 1 \in DOMAIN rows
    BY <1>2, InvFacts
  <2>2. rows[1] \in Seq(Names) /\ c + 1 \in 1..Len(rows[1])
    BY <1>2, <2>1, InvFacts, RowAt DEF Row
  <2>3. PICK row : row = [rows[1] EXCEPT ![c + 1] = name]
    OBVIOUS
  <2>4. row \in Row /\ Len(row) = Len(rows[1])
    <3>1. \A k \in 1..Len(rows[1]) : /\ [rows[1] EXCEPT ![k] = name] \in Seq(Names)
                                     /\ Len([rows[1] EXCEPT ![k] = name]) = Len(rows[1])
      BY <2>2, ExceptSeq
    <3> QED BY <2>2, <2>3, <3>1 DEF Row
  <2>5. rows' = [rows EXCEPT ![1] = row]
    BY <1>2, <2>3
  <2>6. headerMap' \in Seq(Entry)
    <3>1. PICK k \in DOMAIN headerMap : headerMap' = <<MapEntry(name, c)>> \o RemoveAt(headerMap, k)
      BY <1>2 DEF EntriesOf
    <3>2. RemoveAt(headerMap, k) \in Seq(Entry)
      BY InvFacts, LenProperties, RemoveAtProperties
    <3>3. <<MapEntry(name, c)>> \in Seq(Entry)
      BY MapEntryType
    <3> QED BY <3>1, <3>2, <3>3, ConcatProperties
  <2>7. columnCount' \in Nat /\ columnCount' = columnCount /\ columnCount <= columnCount'
    BY <1>2, InvFacts
  <2> QED BY <1>2, <2>1, <2>4, <2>5, <2>6, <2>7, ReplacedRowPreserves
<1> QED BY <1>1, <1>2 DEF ColumnRename

-----------------------------------------------------------------------------
(* Normalization.                                                          *)

LEMMA NormalizeToPreserves ==
  ASSUME Inv, NEW n \in Nat, NEW truncate \in BOOLEAN, NormalizeTo(n, truncate)
  PROVE  Preserves
<1>1. CASE Fails("INVALID") \/ Fails("OOM")
  BY <1>1, FailsPreserves
<1>2. CASE /\ rows' = [p \in DOMAIN rows |-> Fit(rows[p], n)]
           /\ columnCount' = n
           /\ KeepsHeader /\ UNCHANGED rowCapacity /\ Succeeds
  <2>1. PICK f : f = [p \in DOMAIN rows |-> Fit(rows[p], n)]
    OBVIOUS
  <2>2. \A p \in DOMAIN rows : f[p] \in Row /\ Len(f[p]) = n
    BY <2>1, InvFacts, RowAt, FitProperties
  <2>3. f \in [DOMAIN rows -> Row]
    BY <2>1, <2>2
  <2> QED BY <1>2, <2>1, <2>2, <2>3, InvFacts, MappedRowsPreserves DEF KeepsHeader
<1> QED BY <1>1, <1>2 DEF NormalizeTo

LEMMA NormalizeRowsPreserves ==
  ASSUME Inv, NEW target \in Nat, NEW truncate \in BOOLEAN,
         NormalizeRows(target, truncate)
  PROVE  Preserves
<1>1. CASE rows = <<>>
  <2>1. /\ columnCount' = IF target = 0 THEN columnCount ELSE target
        /\ KeepsHeader /\ UNCHANGED <<rows, rowCapacity>> /\ Succeeds
    BY <1>1 DEF NormalizeRows
  <2>2. columnCount' \in Nat /\ DOMAIN rows = {}
    BY <1>1, <2>1, InvFacts
  <2>3. CoverStep /\ RectStep
    BY <2>1, <2>2 DEF CoverStep, RectStep, CountCovers, Rectangular
  <2> QED BY <2>1, <2>2, <2>3, InvFacts, RowsKeptPreserves DEF KeepsHeader
<1>2. CASE rows # <<>>
  <2>1. (IF target = 0 THEN MaxColCount(rows) ELSE target) \in Nat
    BY InvFacts, ColCounts
  <2> QED BY <1>2, <2>1, NormalizeToPreserves DEF NormalizeRows
<1> QED BY <1>1, <1>2

LEMMA NormalizeRowsToMinPreserves ==
  ASSUME Inv, NEW truncate \in BOOLEAN, NormalizeRowsToMin(truncate)
  PROVE  Preserves
<1>1. MinColCount(rows) \in Nat
  BY InvFacts, ColCounts
<1> QED BY <1>1, NothingPreserves, NormalizeToPreserves DEF NormalizeRowsToMin

-----------------------------------------------------------------------------
(* Operations on the whole table.                                          *)

LEMMA EnableHeaderRowPreserves ==
  ASSUME Inv, rows # <<>>, EnableHeaderRow
  PROVE  Preserves
<1> DEFINE width == Bigger(Len(rows[1]), columnCount)
           header == Fit(rows[1], width)
<1>1. CASE Fails("OOM")
  BY <1>1, FailsPreserves
<1>2. CASE /\ rows' = [rows EXCEPT ![1] = header]
           /\ columnCount' = Len(header)
           /\ UNCHANGED <<rowCapacity, policy>>
           /\ \/ KeepsHeader /\ status' \in {"INVALID", "OOM"}
              \/ /\ hasHeader' = TRUE /\ hasMap' = TRUE
                 /\ headerMap' = FirstWinsMap(header) /\ Succeeds
  <2>1. 1 \in DOMAIN rows /\ rows[1] \in Row /\ Len(rows[1]) \in Nat /\ columnCount \in Nat
    BY InvFacts, RowAt
  <2>2. width \in Nat /\ Len(rows[1]) <= width /\ columnCount <= width
        /\ (width = Len(rows[1]) \/ width = columnCount)
    BY <2>1 DEF Bigger
  <2>3. header \in Row /\ Len(header) = width
    BY <2>1, <2>2, FitProperties
  <2>4. FirstWinsMap(header) \in Seq(Entry)
    BY <2>3, FirstWinsMapType
  <2> HIDE DEF header, width
  <2>5. /\ rows' \in Seq(Row) /\ Len(rows') = Len(rows)
        /\ \A j \in DOMAIN rows : rows'[j] = IF j = 1 THEN header ELSE rows[j]
        /\ DOMAIN rows' = DOMAIN rows
    BY <1>2, <2>1, <2>3, InvFacts, ExceptSeq
  <2>6. \A j \in DOMAIN rows : Len(rows[j]) \in Nat
    BY InvFacts, RowAt
  <2>7. CoverStep
    BY <1>2, <2>1, <2>2, <2>3, <2>5, <2>6 DEF CoverStep, CountCovers
  <2>8. RectStep
    BY <1>2, <2>1, <2>2, <2>3, <2>5 DEF RectStep, Rectangular
  <2>9. columnCount' \in Nat /\ rows' # <<>> /\ Len(rows') > 0
    BY <1>2, <2>2, <2>3, <2>5, InvFacts, EmptySeq
  <2>10. CASE KeepsHeader /\ status' \in {"INVALID", "OOM"}
    <3>1. Inv'
      BY <1>2, <2>5, <2>9, <2>10, InvFacts
         DEF Inv, TypeOK, StructureValid, ValidateTable, Mapped, KeepsHeader, policy, Status
    <3> QED BY <2>7, <2>8, <3>1 DEF Preserves
  <2>11. CASE /\ hasHeader' = TRUE /\ hasMap' = TRUE
              /\ headerMap' = FirstWinsMap(header) /\ Succeeds
    <3>1. Inv'
      BY <1>2, <2>4, <2>5, <2>9, <2>11, InvFacts
         DEF Inv, TypeOK, StructureValid, ValidateTable, Mapped, Succeeds, policy, Status
    <3> QED BY <2>7, <2>8, <3>1 DEF Preserves
  <2> QED BY <1>2, <2>10, <2>11
<1> QED BY <1>1, <1>2 DEF EnableHeaderRow, Succeeds

LEMMA SetHeaderRowPreserves ==
  ASSUME Inv, NEW enable \in BOOLEAN, SetHeaderRow(enable)
  PROVE  Preserves
<1>1. CASE Fails("INVALID")
  BY <1>1, FailsPreserves
<1>2. CASE rows # <<>> /\ EnableHeaderRow
  BY <1>2, EnableHeaderRowPreserves
<1>3. CASE /\ hasHeader' = FALSE /\ hasMap' = FALSE /\ headerMap' = <<>>
           /\ UNCHANGED <<rows, rowCapacity, columnCount>> /\ Succeeds
  <2>1. headerMap' \in Seq(Entry)
    BY <1>3, EmptySeq
  <2>2. Inv'
    BY <1>3, <2>1, InvFacts
       DEF Inv, TypeOK, StructureValid, ValidateTable, Mapped, Succeeds, policy, Status
  <2> QED BY <1>3, <2>2, SameRows DEF Preserves
<1> QED BY <1>1, <1>2, <1>3 DEF SetHeaderRow

LEMMA ClearPreserves ==
  ASSUME Inv, Clear
  PROVE  Preserves
<1>1. CASE Fails("OOM")
  BY <1>1, FailsPreserves
<1>2. CASE /\ rows' = IF hasHeader THEN SubSeq(rows, 1, 1) ELSE <<>>
           /\ KeepsHeader /\ UNCHANGED <<rowCapacity, columnCount>> /\ Succeeds
  <2>1. CASE hasHeader
    <3>1. 1 \in DOMAIN rows /\ rows[1] \in Row /\ rows' = SubSeq(rows, 1, 1)
      BY <1>2, <2>1, InvFacts, RowAt
    <3>2. \A i \in 1..1 : rows[i] \in Row
      BY <3>1
    <3>3. /\ rows' \in Seq(Row) /\ Len(rows') = 1 /\ rows' # <<>>
          /\ DOMAIN rows' = {1} /\ rows'[1] = rows[1]
      <4>1. /\ SubSeq(rows, 1, 1) \in Seq(Row) /\ Len(SubSeq(rows, 1, 1)) = 1
            /\ SubSeq(rows, 1, 1)[1] = rows[1]
        BY <3>2, SubSeqProperties
      <4> QED BY <3>1, <4>1, EmptySeq, LenProperties
    <3>4. Inv'
      BY <1>2, <2>1, <3>1, <3>3, InvFacts
         DEF Inv, TypeOK, StructureValid, ValidateTable, Mapped, KeepsHeader, Succeeds,
             policy, Status
    <3>5. CoverStep /\ RectStep
      BY <1>2, <3>1, <3>3 DEF CoverStep, RectStep, CountCovers, Rectangular
    <3> QED BY <3>4, <3>5 DEF Preserves
  <2>2. CASE ~hasHeader
    <3>1. rows' \in Seq(Row) /\ Len(rows') = 0 /\ DOMAIN rows' = {}
      BY <1>2, <2>2, EmptySeq
    <3>2. Inv'
      BY <1>2, <2>2, <3>1, InvFacts
         DEF Inv, TypeOK, StructureValid, ValidateTable, Mapped, KeepsHeader, Succeeds,
             policy, Status
    <3>3. CoverStep /\ RectStep
      BY <3>1 DEF CoverStep, RectStep, CountCovers, Rectangular
    <3> QED BY <3>2, <3>3 DEF Preserves
  <2> QED BY <2>1, <2>2
<1> QED BY <1>1, <1>2 DEF Clear

LEMMA ClonePreserves ==
  ASSUME Inv, Clone
  PROVE  Preserves
<1>1. CASE Fails("OOM")
  BY <1>1, FailsPreserves
<1>2. CASE /\ hasMap' = (hasMap /\ headerMap # <<>>)
           /\ requireUnique' = FALSE /\ allowIrregular' = FALSE
           /\ status' = "OK"
           /\ UNCHANGED <<rows, rowCapacity, columnCount, hasHeader, headerMap>>
  <2>1. Inv'
    BY <1>2, InvFacts DEF Inv, TypeOK, StructureValid, ValidateTable, Mapped, Status
  <2> QED BY <1>2, <2>1, SameRows DEF Preserves
<1> QED BY <1>1, <1>2 DEF Clone

LEMMA PolicyPreserves ==
  ASSUME Inv, NEW b \in BOOLEAN, SetRequireUniqueHeaders(b) \/ SetAllowIrregularRows(b)
  PROVE  Preserves
<1>1. UNCHANGED content /\ status' = "OK"
      /\ requireUnique' \in BOOLEAN /\ allowIrregular' \in BOOLEAN
  BY InvFacts DEF SetRequireUniqueHeaders, SetAllowIrregularRows
<1>2. Inv'
  BY <1>1, InvFacts DEF content, Inv, TypeOK, StructureValid, ValidateTable, Mapped, Status
<1> QED BY <1>1, <1>2, SameRows DEF Preserves, content

-----------------------------------------------------------------------------
(* Every step, and the theorems.                                           *)

LEMMA RowOperationPreserves ==
  ASSUME Inv, RowOperation
  PROVE  Preserves
<1> USE BoundsAssumption
<1>1. RowsUpTo(MaxCols) \subseteq Row
  BY RowsUpToType
<1>2. RowIndexes \subseteq Nat /\ ColIndexes \subseteq Nat
  BY DEF RowIndexes, ColIndexes
<1> QED BY <1>1, <1>2, RowAppendPreserves, RowInsertPreserves, RowSetPreserves,
           RowRemovePreserves, FieldSetPreserves
    DEF RowOperation

LEMMA ColumnOperationPreserves ==
  ASSUME Inv, ColumnOperation
  PROVE  Preserves
<1> USE BoundsAssumption
<1>1. Columns \subseteq Row
  <2>1. Columns \subseteq RowsUpTo(Len(rows))
    BY InvFacts DEF Columns, RowsUpTo
  <2> QED BY <2>1, InvFacts, RowsUpToType
<1>2. ColIndexes \subseteq Nat
  BY DEF ColIndexes
<1> QED BY <1>1, <1>2, ColumnAppendPreserves, ColumnAppendWithValuesPreserves,
           ColumnInsertPreserves, ColumnInsertWithValuesPreserves,
           ColumnRemovePreserves, ColumnRenamePreserves
    DEF ColumnOperation

LEMMA TableOperationPreserves ==
  ASSUME Inv, TableOperation
  PROVE  Preserves
<1>1. CASE Compact
  BY <1>1, FailsPreserves, NothingPreserves DEF Compact
<1> QED BY <1>1, SetHeaderRowPreserves, ClearPreserves, ClonePreserves, PolicyPreserves
    DEF TableOperation

LEMMA StepPreserves ==
  ASSUME Inv, [Next]_vars
  PROVE  Preserves
<1>1. CASE RowOperation
  BY <1>1, RowOperationPreserves
<1>2. CASE ColumnOperation
  BY <1>2, ColumnOperationPreserves
<1>3. CASE Normalization
  <2>1. ColIndexes \subseteq Nat
    BY BoundsAssumption DEF ColIndexes
  <2> QED BY <1>3, <2>1, NormalizeRowsPreserves, NormalizeRowsToMinPreserves
      DEF Normalization
<1>4. CASE TableOperation
  BY <1>4, TableOperationPreserves
<1>5. CASE UNCHANGED vars
  <2>1. Inv'
    BY <1>5, InvFacts DEF vars, Inv, TypeOK, StructureValid, ValidateTable, Mapped
  <2> QED BY <1>5, <2>1, SameRows DEF Preserves, vars
<1> QED BY <1>1, <1>2, <1>3, <1>4, <1>5 DEF Next

LEMMA InvInvariant == Spec => []Inv
<1>1. Inv /\ [Next]_vars => Inv'
  BY StepPreserves DEF Preserves
<1> QED BY <1>1, InvInit, PTL DEF Spec

\* The variables keep their types under every sequence of calls.
THEOREM TypeInvariant == Spec => []TypeOK
<1>1. Inv => TypeOK
  BY DEF Inv
<1> QED BY <1>1, InvInvariant, PTL

\* gtext_csv_validate_table succeeds after every sequence of calls, failed ones
\* included: the rows array never overflows, a header map implies a header row.
THEOREM StructureInvariant == Spec => []StructureValid
<1>1. Inv => StructureValid
  BY DEF Inv
<1> QED BY <1>1, InvInvariant, PTL

\* column_count, once it bounds every row, does so after every call in any mode.
THEOREM CountCoversForever == Spec => CountKeepsCovering
<1>1. Inv /\ [Next]_vars => [CountCovers => CountCovers']_vars
  BY StepPreserves DEF Preserves, CoverStep
<1> QED BY <1>1, InvInvariant, PTL DEF Spec, CountKeepsCovering

\* In strict mode no call makes a rectangular table irregular, unless its header row
\* has lost all its columns (HeaderReady; the row that comes next is then taken for
\* the first one of a new table).
THEOREM StrictTableStaysRectangular == Spec => StrictStaysRectangular
<1>1. Inv /\ [Next]_vars
        => [~allowIrregular /\ Rectangular /\ HeaderReady => Rectangular']_vars
  BY StepPreserves DEF Preserves, RectStep
<1> QED BY <1>1, InvInvariant, PTL DEF Spec, StrictStaysRectangular

-----------------------------------------------------------------------------
(* The cells of the rows a column operation builds.                        *)

\* A cell inserted at column c: what was at c and beyond moves up by one.
LEMMA WidenedCells ==
  ASSUME NEW row \in Row, NEW c \in Nat, NEW v \in Names
  PROVE  /\ Widened(row, c, v)[c + 1] = v
         /\ \A i \in 1..Len(row) : i <= c => Widened(row, c, v)[i] = row[i]
         /\ \A i \in 1..Len(row) : i > c => Widened(row, c, v)[i + 1] = row[i]
<1>1. Len(row) \in Nat /\ row \in Seq(Names)
  BY LenProperties DEF Row
<1>2. CASE c > Len(row)
  <2>1. Fit(row, c) \in Seq(Names) /\ Len(Fit(row, c)) = c
    BY FitProperties DEF Row
  <2>2. \A i \in 1..Len(row) : Fit(row, c)[i] = row[i] /\ i \in 1..c
    BY <1>1, <1>2 DEF Fit
  <2>3. /\ \A i \in 1..c : Append(Fit(row, c), v)[i] = Fit(row, c)[i]
        /\ Append(Fit(row, c), v)[c + 1] = v
    BY <2>1, AppendProperties
  <2>4. Widened(row, c, v) = Append(Fit(row, c), v)
    BY <1>2 DEF Widened
  <2>5. \A i \in 1..Len(row) : ~(i > c)
    BY <1>1, <1>2
  <2>6. PICK wide : wide = Append(Fit(row, c), v)
    OBVIOUS
  <2>7. wide[c + 1] = v /\ \A i \in 1..Len(row) : wide[i] = row[i]
    BY <2>2, <2>3, <2>6
  <2> QED BY <2>4, <2>5, <2>6, <2>7
<1>3. CASE ~(c > Len(row))
  <2>1. PICK k \in 1..(Len(row) + 1) : k = c + 1
    BY <1>1, <1>3
  <2>2. PICK wide : wide = InsertAt(row, k, v)
    OBVIOUS
  <2>3. \A j \in 1..(Len(row) + 1) :
          wide[j] = IF j < k THEN row[j] ELSE IF j = k THEN v ELSE row[j - 1]
    BY <1>1, <2>2, InsertAtProperties
  <2>4. Widened(row, c, v) = wide
    BY <1>3, <2>1, <2>2 DEF Widened
  <2>5. wide[c + 1] = v
    BY <1>1, <2>1, <2>3
  <2>6. \A i \in 1..Len(row) : i <= c => wide[i] = row[i]
    BY <1>1, <2>1, <2>3
  <2>7. ASSUME NEW i \in 1..Len(row), i > c
        PROVE  wide[i + 1] = row[i]
    <3>1. i + 1 \in 1..(Len(row) + 1) /\ ~(i + 1 < k) /\ i + 1 # k /\ (i + 1) - 1 = i
      BY <1>1, <2>1, <2>7
    <3> QED BY <2>3, <3>1
  <2> QED BY <2>4, <2>5, <2>6, <2>7
<1> QED BY <1>2, <1>3

\* A cell removed at column c: what was beyond c moves down by one.
LEMMA WithoutColumnCells ==
  ASSUME NEW row \in Row, NEW c \in Nat, c < Len(row)
  PROVE  /\ \A i \in 1..Len(row) : i <= c => WithoutColumn(row, c)[i] = row[i]
         /\ \A i \in 1..Len(row) : i > c + 1 => WithoutColumn(row, c)[i - 1] = row[i]
         /\ \A i \in 1..(Len(row) - 1) :
              WithoutColumn(row, c)[i] = IF i <= c THEN row[i] ELSE row[i + 1]
<1>1. Len(row) \in Nat /\ row \in Seq(Names)
  BY LenProperties DEF Row
<1>2. PICK k \in 1..Len(row) : k = c + 1
  BY <1>1
<1>3. PICK rest : rest = RemoveAt(row, k)
  OBVIOUS
<1>4. \A j \in 1..(Len(row) - 1) : rest[j] = IF j < k THEN row[j] ELSE row[j + 1]
  BY <1>1, <1>3, RemoveAtProperties
<1>5. WithoutColumn(row, c) = rest
  BY <1>2, <1>3 DEF WithoutColumn
<1>6. \A i \in 1..(Len(row) - 1) : rest[i] = IF i <= c THEN row[i] ELSE row[i + 1]
  BY <1>1, <1>2, <1>4
<1>7. \A i \in 1..Len(row) : i <= c => rest[i] = row[i]
  BY <1>1, <1>6
<1>8. ASSUME NEW i \in 1..Len(row), i > c + 1
      PROVE  rest[i - 1] = row[i]
  <2>1. i - 1 \in 1..(Len(row) - 1) /\ ~(i - 1 <= c) /\ (i - 1) + 1 = i
    BY <1>1, <1>8
  <2> QED BY <1>6, <2>1
<1> QED BY <1>5, <1>6, <1>7, <1>8

\* Removing what was inserted gives the row back.
LEMMA WidenedThenRemoved ==
  ASSUME NEW row \in Row, NEW c \in Nat, c <= Len(row), NEW v \in Names
  PROVE  RemoveAt(Widened(row, c, v), c + 1) = row
<1>1. Len(row) \in Nat /\ row \in Seq(Names)
  BY LenProperties DEF Row
<1>2. PICK wide : wide = Widened(row, c, v)
  OBVIOUS
<1>3. wide \in Seq(Names) /\ Len(wide) = Len(row) + 1
  BY <1>1, <1>2, WidenedProperties DEF Row
<1>4. PICK k \in 1..Len(wide) : k = c + 1
  BY <1>1, <1>3
<1>5. PICK rest : rest = RemoveAt(wide, k)
  OBVIOUS
<1>6. /\ rest \in Seq(Names) /\ Len(rest) = Len(wide) - 1
      /\ \A j \in 1..(Len(wide) - 1) : rest[j] = IF j < k THEN wide[j] ELSE wide[j + 1]
  BY <1>3, <1>5, RemoveAtProperties
<1>7. /\ \A i \in 1..Len(row) : i <= c => wide[i] = row[i]
      /\ \A i \in 1..Len(row) : i > c => wide[i + 1] = row[i]
  BY <1>2, WidenedCells
<1>8. Len(rest) = Len(row) /\ \A i \in 1..Len(row) : rest[i] = row[i]
  BY <1>1, <1>3, <1>4, <1>6, <1>7
<1>9. rest = row
  BY <1>1, <1>6, <1>8, SeqEqual
<1> QED BY <1>2, <1>4, <1>5, <1>9

\* On a row that ends there, inserting is appending.
LEMMA AppendIsWidened ==
  ASSUME NEW row \in Row, NEW v \in Names
  PROVE  Append(row, v) = Widened(row, Len(row), v)
<1>1. Len(row) \in Nat /\ row \in Seq(Names)
  BY LenProperties DEF Row
<1>2. PICK wide : wide = Widened(row, Len(row), v)
  OBVIOUS
<1>3. wide \in Seq(Names) /\ Len(wide) = Len(row) + 1
  BY <1>1, <1>2, WidenedProperties DEF Row
<1>4. wide[Len(row) + 1] = v /\ \A i \in 1..Len(row) : wide[i] = row[i]
  BY <1>1, <1>2, WidenedCells
<1>5. PICK long : long = Append(row, v)
  OBVIOUS
<1>6. /\ long \in Seq(Names) /\ Len(long) = Len(row) + 1
      /\ long[Len(row) + 1] = v /\ \A i \in 1..Len(row) : long[i] = row[i]
  BY <1>1, <1>5, AppendProperties
<1>7. \A i \in 1..Len(long) : long[i] = wide[i]
  <2>1. \A i \in 1..Len(long) : i \in 1..Len(row) \/ i = Len(row) + 1
    BY <1>1, <1>6
  <2> QED BY <1>4, <1>6, <2>1
<1>8. long = wide
  BY <1>3, <1>6, <1>7, SeqEqual
<1> QED BY <1>2, <1>5, <1>8

-----------------------------------------------------------------------------
(* What a column operation may do: be refused, count a column of a table   *)
(* without rows, put the cells of one column in, take them out, or rename. *)

NamedAnew(cells) == IsColumn(cells) /\ (Mapped => NameAllowed(cells[1], {}))

LEMMA ColumnOutcomes ==
  ASSUME Inv, ColumnOperation
  PROVE  \/ Fails("INVALID") \/ Fails("OOM")
         \/ rows = <<>> /\ UNCHANGED rows /\ KeepsHeader
         \/ rows # <<>> /\ \E cells : NamedAnew(cells) /\ AppendCells(cells)
         \/ rows # <<>> /\ \E c \in Nat : \E cells :
              /\ NamedAnew(cells) /\ InsertCells(c, cells)
              /\ allowIrregular \/ \A p \in DOMAIN rows : Extended(p) => c <= Len(rows[p])
         \/ \E c \in Nat : c < columnCount /\ RemoveColumn(c)
         \/ \E c \in Nat, n \in Names : ColumnRename(c, n)
<1> DEFINE Refused == Fails("INVALID") \/ Fails("OOM")
           Counted == rows = <<>> /\ UNCHANGED rows /\ KeepsHeader
           Added == rows # <<>> /\ \E cells : NamedAnew(cells) /\ AppendCells(cells)
           Fits(c) == \/ allowIrregular
                      \/ \A p \in DOMAIN rows : Extended(p) => c <= Len(rows[p])
           Put == rows # <<>> /\ \E c \in Nat : \E cells :
                     NamedAnew(cells) /\ InsertCells(c, cells) /\ Fits(c)
<1>1. /\ \A c \in ColIndexes : c \in Nat
      /\ \A v \in Columns : v \in Row
  <2>1. Columns \subseteq RowsUpTo(Len(rows))
    BY InvFacts DEF Columns, RowsUpTo
  <2> QED BY <2>1, InvFacts, RowsUpToType, BoundsAssumption DEF ColIndexes
<1>2. ASSUME NEW cells, IsColumn(cells), rows # <<>>, ColumnAppendCells(cells)
      PROVE  Refused \/ Added
  BY <1>2 DEF ColumnAppendCells, NamedAnew
<1>3. ASSUME NEW c \in Nat, NEW cells, IsColumn(cells), rows # <<>>,
             ColumnInsertCells(c, cells)
      PROVE  Refused \/ Put
  BY <1>3 DEF ColumnInsertCells, NamedAnew
<1>4. ASSUME NEW n \in Names, ColumnAppend(n)
      PROVE  Refused \/ Counted \/ Added
  <2>1. CASE rows = <<>> /\ CountOnly(1)
    BY <2>1 DEF CountOnly
  <2>2. CASE rows # <<>> /\ ColumnAppendCells(EmptyCells(n))
    BY <2>2, <1>2, EmptyCellsIsColumn
  <2> QED BY <1>4, <2>1, <2>2 DEF ColumnAppend
<1>5. ASSUME NEW v \in Row, ColumnAppendWithValues(v)
      PROVE  Refused \/ Added
  BY <1>5, <1>2, ValuesIsColumn DEF ColumnAppendWithValues
<1>6. ASSUME NEW c \in Nat, NEW n \in Names, ColumnInsert(c, n)
      PROVE  Refused \/ Counted \/ Added \/ Put
  <2>1. CASE rows = <<>> /\ CountOnly(IF c > columnCount + 1 THEN c - columnCount + 1 ELSE 2)
    BY <2>1 DEF CountOnly
  <2>2. CASE rows # <<>> /\ ColumnInsertCells(c, EmptyCells(n))
    BY <2>2, <1>3, EmptyCellsIsColumn
  <2> QED BY <1>6, <1>4, <2>1, <2>2 DEF ColumnInsert
<1>7. ASSUME NEW c \in Nat, NEW v \in Row, ColumnInsertWithValues(c, v)
      PROVE  Refused \/ Added \/ Put
  BY <1>7, <1>3, <1>5, ValuesIsColumn DEF ColumnInsertWithValues
<1>8. ASSUME NEW c \in Nat, ColumnRemove(c)
      PROVE  Refused \/ (c < columnCount /\ RemoveColumn(c))
  BY <1>8 DEF ColumnRemove
<1> HIDE DEF Refused, Counted, Added, Put
<1>9. \/ Refused \/ Counted \/ Added \/ Put
      \/ \E c \in Nat : c < columnCount /\ RemoveColumn(c)
      \/ \E c \in Nat, n \in Names : ColumnRename(c, n)
  BY <1>1, <1>4, <1>5, <1>6, <1>7, <1>8 DEF ColumnOperation
<1> QED BY <1>9 DEF Refused, Counted, Added, Put


-----------------------------------------------------------------------------
(* Columns stay aligned.                                                   *)

AlignStep ==
    Rectangular /\ HeaderReady /\ rows # <<>>
      => /\ columnCount' = columnCount + 1 => SameShift(rows, rows')
         /\ columnCount' < columnCount => SameShift(rows', rows)

\* The same column goes into every row.
LEMMA ShiftedIn ==
  ASSUME Inv, rows # <<>>, NEW c \in Nat, NEW cells, IsColumn(cells),
         \A p \in DOMAIN rows : c <= Len(rows[p]),
         rows' = [p \in DOMAIN rows |-> Widened(rows[p], c, cells[p])]
  PROVE  SameShift(rows, rows')
<1>1. ASSUME NEW p \in DOMAIN rows
      PROVE  rows[p] = RemoveAt(rows'[p], c + 1)
  <2>1. rows[p] \in Row /\ cells[p] \in Names /\ rows'[p] = Widened(rows[p], c, cells[p])
    BY InvFacts, RowAt DEF IsColumn
  <2> QED BY <2>1, WidenedThenRemoved
<1>2. DOMAIN rows' = DOMAIN rows
  OBVIOUS
<1>3. 1 \in DOMAIN rows /\ rows[1] \in Row /\ Len(rows[1]) \in Nat /\ cells[1] \in Names
      /\ c <= Len(rows[1]) /\ rows'[1] = Widened(rows[1], c, cells[1])
  BY InvFacts, RowAt DEF IsColumn
<1>4. Len(rows'[1]) = IF c > Len(rows[1]) THEN c + 1 ELSE Len(rows[1]) + 1
  BY <1>3, WidenedProperties
<1>5. c + 1 \in 1..Len(rows'[1])
  BY <1>3, <1>4
<1> QED BY <1>1, <1>2, <1>5 DEF SameShift

LEMMA AppendCellsAligns ==
  ASSUME Inv, rows # <<>>, NEW cells, IsColumn(cells), AppendCells(cells)
  PROVE  AlignStep
<1> SUFFICES ASSUME Rectangular, HeaderReady
             PROVE  SameShift(rows, rows') /\ columnCount' = columnCount + 1
  BY InvFacts DEF AlignStep
<1>1. columnCount' = columnCount + 1
  BY DEF AppendCells
<1>2. ASSUME NEW p \in DOMAIN rows
      PROVE  /\ Extended(p) /\ columnCount = Len(rows[p])
             /\ Append(rows[p], cells[p]) = Widened(rows[p], columnCount, cells[p])
  <2>1. Extended(p) /\ Len(rows[p]) = columnCount
    BY AllExtended DEF Rectangular
  <2>2. rows[p] \in Row /\ cells[p] \in Names
    BY InvFacts, RowAt DEF IsColumn
  <2> QED BY <2>1, <2>2, AppendIsWidened
<1>3. rows' = [p \in DOMAIN rows |-> Widened(rows[p], columnCount, cells[p])]
  BY <1>2 DEF AppendCells
<1>4. columnCount \in Nat /\ \A p \in DOMAIN rows : columnCount <= Len(rows[p])
  BY <1>2, InvFacts
<1> QED BY <1>1, <1>3, <1>4, ShiftedIn

LEMMA InsertCellsAligns ==
  ASSUME Inv, rows # <<>>, NEW c \in Nat, NEW cells, IsColumn(cells),
         InsertCells(c, cells)
  PROVE  AlignStep
<1>1. /\ columnCount \in Nat
      /\ columnCount' = IF c > columnCount THEN c + 1 ELSE columnCount + 1
  BY InvFacts DEF InsertCells
<1>2. ~(columnCount' < columnCount) /\ (columnCount' = columnCount + 1 => c <= columnCount)
  BY <1>1
<1> SUFFICES ASSUME Rectangular, HeaderReady, c <= columnCount
             PROVE  SameShift(rows, rows')
  BY <1>2 DEF AlignStep
<1>3. \A p \in DOMAIN rows : Extended(p) /\ c <= Len(rows[p])
  BY AllExtended DEF Rectangular
<1>4. rows' = [p \in DOMAIN rows |-> Widened(rows[p], c, cells[p])]
  BY <1>3 DEF InsertCells
<1> QED BY <1>3, <1>4, ShiftedIn

LEMMA RemoveColumnAligns ==
  ASSUME Inv, NEW c \in Nat, c < columnCount, RemoveColumn(c)
  PROVE  AlignStep
<1>1. columnCount' = columnCount - 1 /\ columnCount \in Nat
  BY InvFacts DEF RemoveColumn
<1> SUFFICES ASSUME Rectangular, rows # <<>>
             PROVE  SameShift(rows', rows)
  BY <1>1 DEF AlignStep
<1>2. \A p \in DOMAIN rows : Len(rows[p]) = columnCount
  BY DEF Rectangular
<1>3. rows' = [p \in DOMAIN rows |-> RemoveAt(rows[p], c + 1)]
  BY <1>2 DEF RemoveColumn, WithoutColumn
<1>4. c + 1 \in 1..Len(rows[1])
  BY <1>1, <1>2, InvFacts
<1> QED BY <1>3, <1>4 DEF SameShift

LEMMA ColumnOperationAligns ==
  ASSUME Inv, ColumnOperation
  PROVE  AlignStep
<1>1. columnCount \in Nat
  BY InvFacts
<1>2. CASE Fails("INVALID") \/ Fails("OOM")
  BY <1>1, <1>2 DEF Fails, content, AlignStep
<1>3. CASE rows = <<>>
  BY <1>3 DEF AlignStep
<1>4. ASSUME NEW c \in Nat, NEW n \in Names, ColumnRename(c, n)
      PROVE  AlignStep
  <2>1. columnCount' = columnCount
    BY <1>4 DEF ColumnRename, Fails, content
  <2> QED BY <1>1, <2>1 DEF AlignStep
<1> QED BY <1>2, <1>3, <1>4, ColumnOutcomes, AppendCellsAligns, InsertCellsAligns,
           RemoveColumnAligns
    DEF NamedAnew

\* On a rectangular table a column operation moves the cells of one column in
\* all rows together, the header row included: every header stays above its data.
THEOREM ColumnsAreAligned == Spec => ColumnsStayAligned
<1>1. Inv /\ [Next]_vars
        => [ Rectangular /\ HeaderReady /\ rows # <<>> /\ ColumnOperation
             => /\ columnCount' = columnCount + 1 => SameShift(rows, rows')
                /\ columnCount' < columnCount => SameShift(rows', rows) ]_vars
  BY ColumnOperationAligns DEF AlignStep
<1> QED BY <1>1, InvInvariant, PTL DEF Spec, ColumnsStayAligned

-----------------------------------------------------------------------------
(* The header map and the header row.                                      *)

\* The entries of m name distinct columns of row, each with its field.
Agrees(m, row) ==
    /\ \A k \in DOMAIN m :
          m[k].index < Len(row) /\ row[m[k].index + 1] = m[k].name
    /\ \A j, k \in DOMAIN m : m[j].index = m[k].index => j = k

LEMMA EntriesAt ==
  ASSUME NEW m \in Seq(Entry)
  PROVE  /\ Len(m) \in Nat /\ DOMAIN m = 1..Len(m)
         /\ \A k \in DOMAIN m : /\ m[k] \in Entry /\ m[k].name \in Names
                                /\ m[k].index \in Nat
<1>1. Len(m) \in Nat /\ DOMAIN m = 1..Len(m)
  BY LenProperties
<1>2. \A k \in 1..Len(m) : m[k] \in Entry
  BY ElementOfSeq
<1> QED BY <1>1, <1>2 DEF Entry

\* An entry put at the head of the map.
LEMMA AgreesWithNew ==
  ASSUME NEW m \in Seq(Entry), NEW row \in Row, Agrees(m, row),
         NEW n \in Names, NEW i \in Nat, i < Len(row), row[i + 1] = n,
         \A k \in DOMAIN m : m[k].index # i
  PROVE  Agrees(<<MapEntry(n, i)>> \o m, row)
<1>1. Len(m) \in Nat /\ DOMAIN m = 1..Len(m)
  BY EntriesAt
<1>2. MapEntry(n, i) \in Entry /\ MapEntry(n, i).index = i /\ MapEntry(n, i).name = n
  BY MapEntryType DEF MapEntry
<1>3. PICK e : e = MapEntry(n, i)
  OBVIOUS
<1>4. PICK new : new = <<e>> \o m
  OBVIOUS
<1>5. <<e>> \in Seq(Entry) /\ Len(<<e>>) = 1 /\ <<e>>[1] = e
  BY <1>2, <1>3
<1>6. /\ new \in Seq(Entry) /\ Len(new) = 1 + Len(m)
      /\ \A k \in 1..(1 + Len(m)) : new[k] = IF k <= 1 THEN <<e>>[k] ELSE m[k - 1]
  BY <1>4, <1>5, ConcatProperties
<1>7. DOMAIN new = 1..(1 + Len(m))
  BY <1>1, <1>6, LenProperties
<1>8. \A k \in DOMAIN new :
         \/ k = 1 /\ new[k] = e
         \/ k # 1 /\ k - 1 \in DOMAIN m /\ new[k] = m[k - 1]
  <2>1. 1 \in 1..(1 + Len(m)) /\ 1 <= 1
    BY <1>1
  <2>2. new[1] = e
    BY <1>5, <1>6, <2>1
  <2>3. \A k \in 1..(1 + Len(m)) : k = 1 \/ (~(k <= 1) /\ k - 1 \in 1..Len(m))
    BY <1>1
  <2>4. \A k \in 1..(1 + Len(m)) :
          k = 1 \/ (k # 1 /\ k - 1 \in DOMAIN m /\ new[k] = m[k - 1])
    BY <1>1, <1>6, <2>3
  <2> QED BY <1>1, <1>7, <2>2, <2>4
<1>9. \A k \in DOMAIN new : new[k].index < Len(row) /\ row[new[k].index + 1] = new[k].name
  BY <1>2, <1>3, <1>8 DEF Agrees
<1>10. ASSUME NEW j \in DOMAIN new, NEW k \in DOMAIN new, new[j].index = new[k].index
       PROVE  j = k
  <2>1. CASE j = 1 \/ k = 1
    BY <1>2, <1>3, <1>8, <1>10, <2>1
  <2>2. CASE j # 1 /\ k # 1
    <3>1. j - 1 = k - 1
      BY <1>8, <1>10, <2>2 DEF Agrees
    <3> QED BY <3>1, <1>1, <1>7
  <2> QED BY <2>1, <2>2
<1> QED BY <1>3, <1>4, <1>9, <1>10 DEF Agrees

\* An entry taken out: no other names its column.
LEMMA AgreesWithoutEntry ==
  ASSUME NEW m \in Seq(Entry), NEW row \in Row, Agrees(m, row), NEW k \in DOMAIN m
  PROVE  /\ RemoveAt(m, k) \in Seq(Entry)
         /\ Agrees(RemoveAt(m, k), row)
         /\ \A j \in DOMAIN RemoveAt(m, k) : RemoveAt(m, k)[j].index # m[k].index
<1>1. Len(m) \in Nat /\ DOMAIN m = 1..Len(m)
  BY SMTT(60), EntriesAt
<1>2. PICK rest : rest = RemoveAt(m, k)
  BY SMTT(60)
<1>3. /\ rest \in Seq(Entry) /\ Len(rest) = Len(m) - 1
      /\ \A j \in 1..(Len(m) - 1) : rest[j] = IF j < k THEN m[j] ELSE m[j + 1]
  BY <1>1, <1>2, RemoveAtProperties
<1>4. DOMAIN rest = 1..(Len(m) - 1)
  BY <1>3, LenProperties
<1>5. PICK old : old = [j \in DOMAIN rest |-> IF j < k THEN j ELSE j + 1]
  OBVIOUS
<1>6. \A j \in DOMAIN rest : old[j] \in DOMAIN m /\ old[j] # k /\ rest[j] = m[old[j]]
  BY <1>1, <1>3, <1>4, <1>5
<1>7. \A i, j \in DOMAIN rest : old[i] = old[j] => i = j
  BY <1>1, <1>4, <1>5
<1>8. \A j \in DOMAIN rest : rest[j].index # m[k].index
  BY <1>6 DEF Agrees
<1>9. Agrees(rest, row)
  BY <1>6, <1>7 DEF Agrees
<1> QED BY <1>2, <1>3, <1>8, <1>9

\* Reindexing keeps positions and names.
LEMMA ReindexAt ==
  ASSUME NEW m \in Seq(Entry), NEW c \in Nat
  PROVE  /\ DOMAIN ReindexUp(m, c) = DOMAIN m /\ DOMAIN ReindexDown(m, c) = DOMAIN m
         /\ \A k \in DOMAIN m :
              /\ ReindexUp(m, c)[k].name = m[k].name
              /\ ReindexUp(m, c)[k].index
                   = IF m[k].index >= c THEN m[k].index + 1 ELSE m[k].index
              /\ ReindexDown(m, c)[k].name = m[k].name
              /\ ReindexDown(m, c)[k].index
                   = IF m[k].index > c THEN m[k].index - 1 ELSE m[k].index
<1>1. \A k \in DOMAIN m : m[k].index \in Nat
  BY EntriesAt
<1> QED BY <1>1 DEF ReindexUp, ReindexDown, MapEntry

\* Entries move up with the fields they name when column c is put in.
LEMMA AgreesReindexedUp ==
  ASSUME NEW m \in Seq(Entry), NEW row \in Row, Agrees(m, row), NEW c \in Nat,
         NEW v \in Names
  PROVE  /\ Agrees(ReindexUp(m, c), Widened(row, c, v))
         /\ \A k \in DOMAIN ReindexUp(m, c) : ReindexUp(m, c)[k].index # c
<1>1. \A k \in DOMAIN m : m[k].index \in Nat
  BY EntriesAt
<1>2. Len(row) \in Nat
  BY LenProperties DEF Row
<1>3. PICK up, wide : up = ReindexUp(m, c) /\ wide = Widened(row, c, v)
  OBVIOUS
<1>4. /\ DOMAIN up = DOMAIN m
      /\ \A k \in DOMAIN m :
           /\ up[k].name = m[k].name
           /\ up[k].index = IF m[k].index >= c THEN m[k].index + 1 ELSE m[k].index
  BY <1>3, ReindexAt
<1>5. Len(wide) = IF c > Len(row) THEN c + 1 ELSE Len(row) + 1
  BY <1>3, WidenedProperties
<1>6. /\ \A i \in 1..Len(row) : i <= c => wide[i] = row[i]
      /\ \A i \in 1..Len(row) : i > c => wide[i + 1] = row[i]
  BY <1>3, WidenedCells
<1>7. \A k \in DOMAIN m : m[k].index < Len(row) /\ row[m[k].index + 1] = m[k].name
  BY DEF Agrees
<1>8. ASSUME NEW k \in DOMAIN up
      PROVE  /\ up[k].index < Len(wide) /\ wide[up[k].index + 1] = up[k].name
             /\ up[k].index # c
  <2>1. PICK i \in Nat : i = m[k].index /\ i < Len(row) /\ row[i + 1] = m[k].name
    BY <1>1, <1>4, <1>7, <1>8
  <2>2. i + 1 \in 1..Len(row)
    BY <1>2, <2>1
  <2>3. CASE i >= c
    <3>1. up[k].index = i + 1 /\ up[k].name = m[k].name
      BY <1>4, <1>8, <2>1, <2>3
    <3>2. i + 1 > c /\ i + 1 < Len(wide)
      BY <1>2, <1>5, <2>1, <2>3
    <3>3. wide[(i + 1) + 1] = row[i + 1]
      BY <1>6, <2>2, <3>2
    <3> QED BY <2>1, <3>1, <3>2, <3>3
  <2>4. CASE ~(i >= c)
    <3>1. up[k].index = i /\ up[k].name = m[k].name
      BY <1>4, <1>8, <2>1, <2>4
    <3>2. i + 1 <= c /\ i < Len(wide) /\ i # c
      BY <1>2, <1>5, <2>1, <2>4
    <3>3. wide[i + 1] = row[i + 1]
      BY <1>6, <2>2, <3>2
    <3> QED BY <2>1, <3>1, <3>2, <3>3
  <2> QED BY <2>3, <2>4
<1>9. ASSUME NEW j \in DOMAIN up, NEW k \in DOMAIN up, up[j].index = up[k].index
      PROVE  j = k
  <2>1. m[j].index = m[k].index
    BY <1>1, <1>4, <1>9
  <2> QED BY <1>4, <2>1 DEF Agrees
<1> QED BY <1>3, <1>8, <1>9 DEF Agrees

\* Entries move down with the fields they name when column c is taken out.
LEMMA AgreesReindexedDown ==
  ASSUME NEW m \in Seq(Entry), NEW row \in Row, Agrees(m, row), NEW c \in Nat,
         c < Len(row), \A k \in DOMAIN m : m[k].index # c
  PROVE  Agrees(ReindexDown(m, c), WithoutColumn(row, c))
<1>1. \A k \in DOMAIN m : m[k].index \in Nat
  BY EntriesAt
<1>2. Len(row) \in Nat
  BY LenProperties DEF Row
<1>3. PICK down, rest : down = ReindexDown(m, c) /\ rest = WithoutColumn(row, c)
  OBVIOUS
<1>4. /\ DOMAIN down = DOMAIN m
      /\ \A k \in DOMAIN m :
           /\ down[k].name = m[k].name
           /\ down[k].index = IF m[k].index > c THEN m[k].index - 1 ELSE m[k].index
  BY <1>3, ReindexAt
<1>5. Len(rest) = Len(row) - 1
  BY <1>3, WithoutColumnProperties
<1>6. /\ \A i \in 1..Len(row) : i <= c => rest[i] = row[i]
      /\ \A i \in 1..Len(row) : i > c + 1 => rest[i - 1] = row[i]
  BY <1>3, WithoutColumnCells
<1>7. ASSUME NEW k \in DOMAIN down
      PROVE  down[k].index < Len(rest) /\ rest[down[k].index + 1] = down[k].name
  <2>1. PICK i \in Nat :
          i = m[k].index /\ i < Len(row) /\ row[i + 1] = m[k].name /\ i # c
    BY <1>1, <1>4, <1>7 DEF Agrees
  <2>2. i + 1 \in 1..Len(row)
    BY <1>2, <2>1
  <2>3. CASE i > c
    <3>1. down[k].index = i - 1 /\ down[k].name = m[k].name
      BY <1>4, <1>7, <2>1, <2>3
    <3>2. i + 1 > c + 1 /\ i - 1 < Len(rest) /\ (i - 1) + 1 = (i + 1) - 1
      BY <1>2, <1>5, <2>1, <2>3
    <3>3. rest[(i + 1) - 1] = row[i + 1]
      BY <1>6, <2>2, <3>2
    <3> QED BY <2>1, <3>1, <3>2, <3>3
  <2>4. CASE ~(i > c)
    <3>1. down[k].index = i /\ down[k].name = m[k].name
      BY <1>4, <1>7, <2>1, <2>4
    <3>2. i + 1 <= c /\ i < Len(rest)
      BY <1>2, <1>5, <2>1, <2>4
    <3>3. rest[i + 1] = row[i + 1]
      BY <1>6, <2>2, <3>2
    <3> QED BY <2>1, <3>1, <3>2, <3>3
  <2> QED BY <2>3, <2>4
<1>8. ASSUME NEW j \in DOMAIN down, NEW k \in DOMAIN down, down[j].index = down[k].index
      PROVE  j = k
  <2>1. m[j].index # c /\ m[k].index # c /\ m[j].index \in Nat /\ m[k].index \in Nat
    BY <1>1, <1>4, <1>8
  <2>2. m[j].index = m[k].index
    BY <1>4, <1>8, <2>1
  <2> QED BY <1>4, <2>2 DEF Agrees
<1> QED BY <1>3, <1>7, <1>8 DEF Agrees

\* A field the map does not name may change.
LEMMA AgreesRenamed ==
  ASSUME NEW m \in Seq(Entry), NEW row \in Row, Agrees(m, row), NEW c \in Nat,
         c < Len(row), NEW v \in Names, \A k \in DOMAIN m : m[k].index # c
  PROVE  Agrees(m, [row EXCEPT ![c + 1] = v])
<1>1. \A k \in DOMAIN m : m[k].index \in Nat
  BY EntriesAt
<1>2. Len(row) \in Nat /\ row \in Seq(Names)
  BY LenProperties DEF Row
<1>3. PICK p \in 1..Len(row) : p = c + 1
  BY <1>2
<1>4. PICK new : new = [row EXCEPT ![p] = v]
  OBVIOUS
<1>5. Len(new) = Len(row) /\ \A i \in 1..Len(row) : new[i] = IF i = p THEN v ELSE row[i]
  BY <1>2, <1>4, ExceptSeq
<1>6. ASSUME NEW k \in DOMAIN m
      PROVE  m[k].index < Len(new) /\ new[m[k].index + 1] = m[k].name
  <2>1. /\ m[k].index < Len(row) /\ row[m[k].index + 1] = m[k].name
        /\ m[k].index # c /\ m[k].index \in Nat
    BY <1>1, <1>6 DEF Agrees
  <2>2. m[k].index + 1 \in 1..Len(row) /\ m[k].index + 1 # p
    BY <1>2, <1>3, <2>1
  <2> QED BY <1>5, <2>1, <2>2
<1> QED BY <1>3, <1>4, <1>6 DEF Agrees

\* The map set_header_row builds.
LEMMA FirstWinsAgrees ==
  ASSUME NEW row \in Row
  PROVE  Agrees(FirstWinsMap(row), row)
<1> DEFINE K == {k \in DOMAIN row : \A j \in DOMAIN row : j < k => row[j] # row[k]}
           E == {MapEntry(row[i], i - 1) : i \in K}
<1>1. DOMAIN row = 1..Len(row) /\ Len(row) \in Nat
  BY LenProperties DEF Row
<1>2. IsFiniteSet(E)
  <2>1. IsFiniteSet(DOMAIN row)
    BY <1>1, FS_Interval
  <2>2. K \in SUBSET DOMAIN row
    OBVIOUS
  <2>3. IsFiniteSet(K)
    BY <2>1, <2>2, FS_Subset
  <2> DEFINE f == [i \in K |-> MapEntry(row[i], i - 1)]
  <2>4. f \in Surjection(K, E)
    BY DEF Surjection
  <2> HIDE DEF f, E, K
  <2> QED BY <2>3, <2>4, FS_Surjection
<1>3. /\ FirstWinsMap(row) \in Seq(E)
      /\ \A j, k \in DOMAIN FirstWinsMap(row) :
            FirstWinsMap(row)[j] = FirstWinsMap(row)[k] => j = k
  BY <1>2, SetToSeqProperties DEF FirstWinsMap
<1>4. PICK m : m = FirstWinsMap(row)
  OBVIOUS
<1>5. m \in Seq(E) /\ \A j, k \in DOMAIN m : m[j] = m[k] => j = k
  BY <1>3, <1>4
<1>6. \A k \in DOMAIN m : m[k] \in E
  <2> HIDE DEF E
  <2> QED BY <1>5, ElementOfSeq, LenProperties
<1>7. \A k \in DOMAIN m : \E i \in K : m[k] = MapEntry(row[i], i - 1)
  BY <1>6
<1>8. \A k \in DOMAIN m : m[k].index < Len(row) /\ row[m[k].index + 1] = m[k].name
  <2>1. SUFFICES ASSUME NEW k \in DOMAIN m
                 PROVE  m[k].index < Len(row) /\ row[m[k].index + 1] = m[k].name
    OBVIOUS
  <2>2. PICK i \in 1..Len(row) : m[k] = MapEntry(row[i], i - 1)
    BY <1>1, <1>7
  <2>3. m[k].index = i - 1 /\ m[k].name = row[i]
    BY <2>2 DEF MapEntry
  <2>4. i - 1 < Len(row) /\ (i - 1) + 1 = i
    BY <1>1
  <2> QED BY <2>3, <2>4
<1>9. ASSUME NEW j \in DOMAIN m, NEW k \in DOMAIN m, m[j].index = m[k].index
      PROVE  j = k
  <2>1. PICK a \in 1..Len(row) : m[j] = MapEntry(row[a], a - 1)
    BY <1>1, <1>7
  <2>2. PICK b \in 1..Len(row) : m[k] = MapEntry(row[b], b - 1)
    BY <1>1, <1>7
  <2>3. a - 1 = b - 1
    BY <1>9, <2>1, <2>2 DEF MapEntry
  <2>4. a = b
    BY <1>1, <2>3
  <2> QED BY <1>5, <2>1, <2>2, <2>4
<1> QED BY <1>4, <1>8, <1>9 DEF Agrees

\* No two fields of a row are the same (the negation of HasDuplicate).
LEMMA DistinctFields ==
  ASSUME NEW row \in Row
  PROVE  ~HasDuplicate(row) <=> \A i, j \in 1..Len(row) : row[i] = row[j] => i = j
<1>1. DOMAIN row = 1..Len(row)
  BY LenProperties DEF Row
<1> QED BY <1>1 DEF HasDuplicate

\* A field no other has may be put in.
LEMMA DistinctWidened ==
  ASSUME NEW row \in Row, ~HasDuplicate(row), NEW c \in Nat, c <= Len(row),
         NEW v \in Names, \A i \in 1..Len(row) : row[i] # v
  PROVE  ~HasDuplicate(Widened(row, c, v))
<1>1. Len(row) \in Nat
  BY LenProperties DEF Row
<1>2. PICK wide \in Row : wide = Widened(row, c, v)
  BY WidenedProperties
<1>3. /\ Len(wide) = Len(row) + 1 /\ wide[c + 1] = v
      /\ \A i \in 1..Len(row) : i <= c => wide[i] = row[i]
      /\ \A i \in 1..Len(row) : i > c => wide[i + 1] = row[i]
  <2>1. ~(c > Len(row))
    BY <1>1
  <2>2. Len(Widened(row, c, v)) = Len(row) + 1
    BY <2>1, WidenedProperties
  <2>3. /\ Widened(row, c, v)[c + 1] = v
        /\ \A i \in 1..Len(row) : i <= c => Widened(row, c, v)[i] = row[i]
        /\ \A i \in 1..Len(row) : i > c => Widened(row, c, v)[i + 1] = row[i]
    BY WidenedCells
  <2> QED BY <1>2, <2>2, <2>3
<1>4. ASSUME NEW i \in 1..Len(wide)
      PROVE  \/ i = c + 1 /\ wide[i] = v
             \/ \E a \in 1..Len(row) : wide[i] = row[a] /\ i = IF a <= c THEN a ELSE a + 1
  <2>1. CASE i <= c
    <3>1. i \in 1..Len(row)
      BY <1>1, <2>1
    <3> QED BY <1>3, <2>1, <3>1
  <2>2. CASE i = c + 1
    BY <1>3, <2>2
  <2>3. CASE i > c + 1
    <3>1. i - 1 \in 1..Len(row) /\ i - 1 > c /\ (i - 1) + 1 = i /\ ~(i - 1 <= c)
      BY <1>1, <1>3, <2>3
    <3>2. wide[i] = row[i - 1]
      BY <1>3, <3>1
    <3> QED BY <3>1, <3>2
  <2> QED BY <1>1, <2>1, <2>2, <2>3
<1>5. ASSUME NEW i \in 1..Len(wide), NEW j \in 1..Len(wide), wide[i] = wide[j]
      PROVE  i = j
  <2>1. CASE i = c + 1 \/ j = c + 1
    BY <1>3, <1>4, <1>5, <2>1
  <2>2. CASE i # c + 1 /\ j # c + 1
    <3>1. PICK a \in 1..Len(row) : wide[i] = row[a] /\ i = IF a <= c THEN a ELSE a + 1
      BY <1>4, <2>2
    <3>2. PICK b \in 1..Len(row) : wide[j] = row[b] /\ j = IF b <= c THEN b ELSE b + 1
      BY <1>4, <2>2
    <3>3. a = b
      BY <1>5, <3>1, <3>2, DistinctFields
    <3> QED BY <3>1, <3>2, <3>3
  <2> QED BY <2>1, <2>2
<1> QED BY <1>2, <1>5, DistinctFields

\* Fields that stay are as distinct as they were.
LEMMA DistinctWithout ==
  ASSUME NEW row \in Row, ~HasDuplicate(row), NEW c \in Nat
  PROVE  ~HasDuplicate(WithoutColumn(row, c))
<1>1. Len(row) \in Nat
  BY LenProperties DEF Row
<1>2. CASE ~(c < Len(row))
  BY <1>2 DEF WithoutColumn
<1>3. CASE c < Len(row)
  <2>1. PICK rest \in Row : rest = WithoutColumn(row, c)
    BY WithoutColumnProperties
  <2>2. /\ Len(rest) = Len(row) - 1
        /\ \A i \in 1..(Len(row) - 1) : rest[i] = IF i <= c THEN row[i] ELSE row[i + 1]
    BY <1>1, <1>3, <2>1, WithoutColumnProperties, WithoutColumnCells
  <2>3. ASSUME NEW i \in 1..Len(rest), NEW j \in 1..Len(rest), rest[i] = rest[j]
        PROVE  i = j
    <3>1. PICK a \in 1..Len(row) : rest[i] = row[a] /\ a = IF i <= c THEN i ELSE i + 1
      BY <1>1, <2>2
    <3>2. PICK b \in 1..Len(row) : rest[j] = row[b] /\ b = IF j <= c THEN j ELSE j + 1
      BY <1>1, <2>2
    <3>3. a = b
      BY <2>3, <3>1, <3>2, DistinctFields
    <3> QED BY <3>1, <3>2, <3>3
  <2> QED BY <2>1, <2>3, DistinctFields
<1> QED BY <1>2, <1>3

\* One field may be renamed to what no other field is.
LEMMA DistinctRenamed ==
  ASSUME NEW row \in Row, ~HasDuplicate(row), NEW c \in Nat, c < Len(row),
         NEW v \in Names, \A i \in 1..Len(row) : row[i] = v => i = c + 1
  PROVE  ~HasDuplicate([row EXCEPT ![c + 1] = v])
<1>1. Len(row) \in Nat /\ row \in Seq(Names)
  BY LenProperties DEF Row
<1>2. PICK p \in 1..Len(row) : p = c + 1
  BY <1>1
<1>3. PICK new : new = [row EXCEPT ![p] = v]
  OBVIOUS
<1>4. /\ new \in Row /\ Len(new) = Len(row)
      /\ \A i \in 1..Len(row) : new[i] = IF i = p THEN v ELSE row[i]
  BY <1>1, <1>3, ExceptSeq DEF Row
<1>5. \A i, j \in 1..Len(new) : new[i] = new[j] => i = j
  BY <1>2, <1>4, DistinctFields
<1> QED BY <1>2, <1>3, <1>4, <1>5, DistinctFields

-----------------------------------------------------------------------------
(* What each call does to the header.                                      *)

MapStep == Rectangular /\ HeaderMapConsistent => HeaderMapConsistent'

UniqueStep ==
    /\ requireUnique /\ ~allowIrregular /\ Rectangular
    /\ HeaderMapConsistent /\ HeaderMapComplete
    /\ Mapped /\ CanHaveUniqueHeaders
    => (hasHeader' => ~HasDuplicate(rows'[1]))

HeaderStep == MapStep /\ UniqueStep

LEMMA ConsistentAgrees ==
  /\ HeaderMapConsistent <=> (Mapped => Agrees(headerMap, rows[1]))
  /\ HeaderMapConsistent' <=> (Mapped' => Agrees(headerMap', rows'[1]))
<1>1. HeaderMapConsistent <=> (Mapped => Agrees(headerMap, rows[1]))
  BY Zenon DEF HeaderMapConsistent, Agrees
<1>2. HeaderMapConsistent' <=> (Mapped' => Agrees(headerMap', rows'[1]))
  BY Zenon DEF HeaderMapConsistent, Agrees
<1> QED BY <1>1, <1>2

\* The header row and the map stay as they are, or are dropped.
LEMMA HeaderKept ==
  ASSUME hasHeader' => hasHeader /\ rows'[1] = rows[1],
         Mapped' => Mapped /\ headerMap' = headerMap
  PROVE  HeaderStep
<1>1. MapStep
  BY ConsistentAgrees DEF MapStep, Mapped
<1>2. UniqueStep
  BY DEF UniqueStep, CanHaveUniqueHeaders
<1> QED BY <1>1, <1>2 DEF HeaderStep

\* The same for calls that touch only rows below the first.
LEMMA FirstRowKept ==
  ASSUME KeepsHeader, hasHeader => rows'[1] = rows[1]
  PROVE  HeaderStep
BY HeaderKept DEF KeepsHeader, Mapped

LEMMA FailsKeepsHeader ==
  ASSUME NEW code \in {"INVALID", "OOM"}, Fails(code)
  PROVE  HeaderStep
BY FirstRowKept DEF Fails, content, KeepsHeader

\* With the names checked, a name that is allowed is not in the header row
\* except in the exempt columns.
LEMMA AllowedIsNew ==
  ASSUME Inv, Mapped, requireUnique, HeaderMapConsistent, HeaderMapComplete,
         NEW v, NEW exempt, NameAllowed(v, exempt),
         NEW i \in 1..Len(rows[1]), rows[1][i] = v
  PROVE  i - 1 \in exempt
<1>1. 1 \in DOMAIN rows /\ DOMAIN rows[1] = 1..Len(rows[1]) /\ Len(rows[1]) \in Nat
  BY InvFacts, RowAt DEF Mapped
<1>2. PICK k \in DOMAIN headerMap : headerMap[k].index = i - 1
  BY <1>1 DEF HeaderMapComplete
<1>3. rows[1][headerMap[k].index + 1] = headerMap[k].name
  BY DEF HeaderMapConsistent
<1>4. (i - 1) + 1 = i
  BY <1>1
<1>5. headerMap[k].name = v
  BY <1>2, <1>3, <1>4
<1> QED BY <1>2, <1>5 DEF NameAllowed

-----------------------------------------------------------------------------
(* The header under row and table operations.                              *)

LEMMA RowOperationKeepsHeader ==
  ASSUME Inv, RowOperation
  PROVE  HeaderStep
<1>1. /\ \A r \in RowIndexes : r \in Nat
      /\ \A c \in ColIndexes : c \in Nat
      /\ \A f \in RowsUpTo(MaxCols) : f \in Row
  BY RowsUpToType, BoundsAssumption DEF RowIndexes, ColIndexes
<1>2. \A r \in Nat : hasHeader => RowPos(r) = r + 2 /\ RowPos(r) # 1 /\ RowPos(r) \in Nat
  BY DEF RowPos
<1>3. ASSUME NEW fields \in Row, KeepsHeader, rows' = Append(rows, fields)
      PROVE  HeaderStep
  <2>1. hasHeader => 1 \in 1..Len(rows) /\ rows \in Seq(Row)
    BY InvFacts
  <2>2. hasHeader => rows'[1] = rows[1]
    BY <1>3, <2>1, AppendProperties
  <2> QED BY <1>3, <2>2, FirstRowKept
<1>4. ASSUME NEW r \in Nat, NEW fields \in Row, KeepsHeader, r <= DataRows, r # DataRows,
             rows' = InsertAt(rows, RowPos(r), fields)
      PROVE  HeaderStep
  <2>1. SUFFICES ASSUME hasHeader PROVE rows'[1] = rows[1]
    BY <1>4, FirstRowKept
  <2> DEFINE k == r + 2
  <2>2. k = RowPos(r) /\ k \in 1..(Len(rows) + 1) /\ 1 < k /\ 1 \in 1..(Len(rows) + 1)
    <3>1. RowPos(r) = r + 2
      BY <1>2, <2>1
    <3>2. DataRows = Len(rows) - 1 /\ Len(rows) \in Nat
      BY <2>1, InvFacts
    <3>3. r < Len(rows) - 1
      BY <1>4, <3>2
    <3> QED BY <3>1, <3>2, <3>3
  <2> HIDE DEF k
  <2>3. rows \in Seq(Row) /\ rows' = InsertAt(rows, k, fields)
    BY <1>4, <2>2, InvFacts
  <2>4. PICK new : new = InsertAt(rows, k, fields)
    OBVIOUS
  <2>5. \A j \in 1..(Len(rows) + 1) :
          new[j] = IF j < k THEN rows[j] ELSE IF j = k THEN fields ELSE rows[j - 1]
    <3>1. fields \in Row /\ rows \in Seq(Row) /\ k \in 1..(Len(rows) + 1)
      BY <1>4, <2>2, <2>3
    <3>2. \A j \in 1..(Len(rows) + 1) : InsertAt(rows, k, fields)[j]
             = IF j < k THEN rows[j] ELSE IF j = k THEN fields ELSE rows[j - 1]
      BY <3>1, InsertAtProperties
    <3> QED BY <2>4, <3>2
  <2>6. new[1] = rows[1]
    BY <2>2, <2>5
  <2> QED BY <2>3, <2>4, <2>6
<1>5. ASSUME NEW r \in Nat, KeepsHeader, r < DataRows, rows' = RemoveAt(rows, RowPos(r))
      PROVE  HeaderStep
  <2>1. SUFFICES ASSUME hasHeader PROVE rows'[1] = rows[1]
    BY <1>5, FirstRowKept
  <2> DEFINE k == r + 2
  <2>2. k = RowPos(r) /\ k \in 1..Len(rows) /\ 1 < k /\ 1 \in 1..(Len(rows) - 1)
    <3>1. RowPos(r) = r + 2
      BY <1>2, <2>1
    <3>2. r < Len(rows) - 1 /\ Len(rows) \in Nat
      BY <1>5, <2>1, InvFacts
    <3> QED BY <1>5, <3>1, <3>2
  <2> HIDE DEF k
  <2>3. rows \in Seq(Row) /\ rows' = RemoveAt(rows, k)
    BY <1>5, <2>2, InvFacts
  <2>4. PICK new : new = RemoveAt(rows, k)
    OBVIOUS
  <2>5. \A j \in 1..(Len(rows) - 1) : new[j] = IF j < k THEN rows[j] ELSE rows[j + 1]
    <3>1. rows \in Seq(Row) /\ k \in 1..Len(rows)
      BY <2>2, <2>3
    <3>2. \A j \in 1..(Len(rows) - 1) :
             RemoveAt(rows, k)[j] = IF j < k THEN rows[j] ELSE rows[j + 1]
      BY <3>1, RemoveAtProperties
    <3> QED BY <2>4, <3>2
  <2>6. new[1] = rows[1]
    BY <2>2, <2>5
  <2> QED BY <2>3, <2>4, <2>6
<1>6. ASSUME NEW r \in Nat, KeepsHeader, NEW row, rows' = [rows EXCEPT ![RowPos(r)] = row]
      PROVE  HeaderStep
  BY <1>2, <1>6, InvFacts, FirstRowKept
<1>7. ASSUME NEW fields \in Row, RowAppend(fields)
      PROVE  HeaderStep
  BY <1>3, <1>7, FailsKeepsHeader DEF RowAppend
<1>8. ASSUME NEW r \in Nat, NEW fields \in Row, RowInsert(r, fields)
      PROVE  HeaderStep
  BY <1>3, <1>4, <1>8, FailsKeepsHeader DEF RowInsert
<1>9. ASSUME NEW r \in Nat, RowRemove(r)
      PROVE  HeaderStep
  BY <1>5, <1>9, FailsKeepsHeader DEF RowRemove
<1>10. ASSUME NEW r \in Nat, NEW fields \in Row, RowSet(r, fields)
       PROVE  HeaderStep
  <2>1. CASE Fails("INVALID") \/ Fails("OOM")
    BY <2>1, FailsKeepsHeader
  <2>2. CASE /\ KeepsHeader
             /\ rows' = [rows EXCEPT ![RowPos(r)] =
                           IF allowIrregular THEN fields ELSE Overwrite(@, fields)]
    BY <1>6, <2>2
  <2> QED BY <1>10, <2>1, <2>2 DEF RowSet
<1>11. ASSUME NEW r \in Nat, NEW c \in Nat, NEW value \in Names, FieldSet(r, c, value)
       PROVE  HeaderStep
  <2>1. CASE Fails("INVALID") \/ Fails("OOM")
    BY <2>1, FailsKeepsHeader
  <2>2. CASE KeepsHeader /\ rows' = [rows EXCEPT ![RowPos(r)][c + 1] = value]
    BY <1>6, <2>2
  <2> QED BY <1>11, <2>1, <2>2 DEF FieldSet
<1> QED BY <1>1, <1>7, <1>8, <1>9, <1>10, <1>11 DEF RowOperation

LEMMA TableOperationKeepsHeader ==
  ASSUME Inv, TableOperation
  PROVE  HeaderStep
<1>1. CASE UNCHANGED content
  BY <1>1, FirstRowKept DEF content, KeepsHeader
<1>2. CASE Clear
  <2>1. CASE Fails("OOM")
    BY <2>1, FailsKeepsHeader
  <2>2. CASE KeepsHeader /\ rows' = IF hasHeader THEN SubSeq(rows, 1, 1) ELSE <<>>
    <3>1. SUFFICES ASSUME hasHeader PROVE rows'[1] = rows[1]
      BY <2>2, FirstRowKept
    <3>2. 1 \in DOMAIN rows /\ rows[1] \in Row /\ rows' = SubSeq(rows, 1, 1)
      BY <2>2, <3>1, InvFacts, RowAt
    <3>3. \A i \in 1..1 : rows[i] \in Row
      BY <3>2
    <3>4. SubSeq(rows, 1, 1)[1] = rows[1]
      BY <3>3, SubSeqProperties
    <3> QED BY <3>2, <3>4
  <2> QED BY <1>2, <2>1, <2>2 DEF Clear
<1>3. CASE Clone
  <2>1. CASE Fails("OOM")
    BY <2>1, FailsKeepsHeader
  <2>2. CASE /\ hasMap' = (hasMap /\ headerMap # <<>>)
             /\ UNCHANGED <<rows, hasHeader, headerMap>>
    BY <2>2, HeaderKept DEF Mapped
  <2> QED BY <1>3, <2>1, <2>2 DEF Clone
<1>4. ASSUME NEW enable \in BOOLEAN, SetHeaderRow(enable)
      PROVE  HeaderStep
  <2>1. CASE Fails("INVALID") \/ Fails("OOM")
    BY <2>1, FailsKeepsHeader
  <2>2. CASE hasHeader' = FALSE
    BY <2>2, HeaderKept DEF Mapped
  <2>3. CASE rows # <<>> /\ ~hasHeader /\ EnableHeaderRow
    <3>1. CASE Fails("OOM")
      BY <3>1, FailsKeepsHeader
    <3>2. CASE KeepsHeader
      BY <2>3, <3>2, FirstRowKept
    <3>3. CASE \E header \in Row :
                  rows' = [rows EXCEPT ![1] = header] /\ headerMap' = FirstWinsMap(header)
      <4>1. UniqueStep
        BY <2>3 DEF UniqueStep, Mapped
      <4>2. PICK header \in Row :
              rows' = [rows EXCEPT ![1] = header] /\ headerMap' = FirstWinsMap(header)
        BY <3>3
      <4>3. 1 \in DOMAIN rows
        BY <2>3, InvFacts
      <4>4. rows'[1] = header
        BY <4>2, <4>3
      <4>5. Agrees(headerMap', rows'[1])
        BY <4>2, <4>4, FirstWinsAgrees
      <4> QED BY <4>1, <4>5, ConsistentAgrees DEF HeaderStep, MapStep
    <3>4. \A header : header = Fit(rows[1], Bigger(Len(rows[1]), columnCount))
            => header \in Row
      <4>1. rows[1] \in Row /\ Len(rows[1]) \in Nat /\ columnCount \in Nat
        BY <2>3, InvFacts, RowAt
      <4>2. Bigger(Len(rows[1]), columnCount) \in Nat
        BY <4>1 DEF Bigger
      <4> QED BY <4>1, <4>2, FitProperties
    <3> QED BY <2>3, <3>1, <3>2, <3>3, <3>4 DEF EnableHeaderRow
  <2> QED BY <1>4, <2>1, <2>2, <2>3 DEF SetHeaderRow
<1>5. CASE Compact
  BY <1>1, <1>5, FailsKeepsHeader DEF Compact
<1>6. ASSUME NEW b \in BOOLEAN, SetRequireUniqueHeaders(b) \/ SetAllowIrregularRows(b)
      PROVE  HeaderStep
  <2>1. UNCHANGED content
    BY <1>6 DEF SetRequireUniqueHeaders, SetAllowIrregularRows
  <2> QED BY <1>1, <2>1
<1> QED BY <1>2, <1>3, <1>4, <1>5, <1>6 DEF TableOperation

-----------------------------------------------------------------------------
(* The header under column operations.                                     *)

\* An unmapped header has nothing to keep.
LEMMA HeaderStepOfMapped ==
  ASSUME UNCHANGED <<hasHeader, hasMap>>,
         Mapped /\ Rectangular /\ HeaderMapConsistent => Agrees(headerMap', rows'[1]),
         Mapped => UniqueStep
  PROVE  HeaderStep
<1>1. Mapped' <=> Mapped
  BY DEF Mapped
<1>2. MapStep
  BY <1>1, ConsistentAgrees DEF MapStep
<1>3. UniqueStep
  BY DEF UniqueStep
<1> QED BY <1>2, <1>3 DEF HeaderStep

\* Behind the last mapped column nothing is reindexed.
LEMMA ReindexBeyond ==
  ASSUME NEW m \in Seq(Entry), NEW c \in Nat, \A k \in DOMAIN m : m[k].index < c
  PROVE  ReindexUp(m, c) = m
<1>1. \A k \in DOMAIN m : m[k].index \in Nat
  BY EntriesAt
<1>2. \A k \in DOMAIN m : ~(m[k].index >= c)
  BY <1>1
<1>3. m = [k \in DOMAIN m |-> m[k]]
  BY LenProperties
<1> QED BY <1>2, <1>3 DEF ReindexUp

\* A new header cell, its entry and the entries moved up for it.
LEMMA HeaderCellAdded ==
  ASSUME Inv, Mapped, NEW c \in Nat, NEW cells, NamedAnew(cells),
         rows'[1] = Widened(rows[1], c, cells[1]),
         Rectangular /\ HeaderMapConsistent
           => headerMap' = <<MapEntry(cells[1], c)>> \o ReindexUp(headerMap, c),
         Rectangular /\ ~allowIrregular => c <= Len(rows[1]),
         UNCHANGED <<hasHeader, hasMap>>
  PROVE  HeaderStep
<1>1. /\ 1 \in DOMAIN rows /\ rows[1] \in Row /\ Len(rows[1]) \in Nat
      /\ cells[1] \in Names /\ headerMap \in Seq(Entry)
  BY InvFacts, RowAt DEF Mapped, NamedAnew, IsColumn
<1>2. PICK row, v : row = rows[1] /\ v = cells[1]
  OBVIOUS
<1>3. row \in Row /\ v \in Names /\ Len(row) \in Nat
  BY <1>1, <1>2
<1>4. ASSUME Rectangular, HeaderMapConsistent
      PROVE  Agrees(headerMap', rows'[1])
  <2>1. Agrees(headerMap, row)
    BY <1>2, <1>4, ConsistentAgrees
  <2>2. PICK up, wide : up = ReindexUp(headerMap, c) /\ wide = Widened(row, c, v)
    OBVIOUS
  <2>3. Agrees(up, wide) /\ \A k \in DOMAIN up : up[k].index # c
    BY <1>1, <1>3, <2>1, <2>2, AgreesReindexedUp
  <2>4. up \in Seq(Entry) /\ wide \in Row
    BY <1>1, <1>3, <2>2, ReindexType, WidenedProperties
  <2>5. wide[c + 1] = v
    BY <1>3, <2>2, WidenedCells
  <2>6. Len(wide) = IF c > Len(row) THEN c + 1 ELSE Len(row) + 1
    BY <1>3, <2>2, WidenedProperties
  <2>7. c < Len(wide)
    BY <1>3, <2>6
  <2>8. Agrees(<<MapEntry(v, c)>> \o up, wide)
    BY <1>3, <2>3, <2>4, <2>5, <2>7, AgreesWithNew
  <2> QED BY <1>2, <1>4, <2>2, <2>8
<1>5. UniqueStep
  <2>1. SUFFICES ASSUME requireUnique, ~allowIrregular, Rectangular, HeaderMapConsistent,
                        HeaderMapComplete, CanHaveUniqueHeaders
                 PROVE  ~HasDuplicate(rows'[1])
    BY DEF UniqueStep
  <2>2. ~HasDuplicate(row) /\ c <= Len(row)
    BY <1>2, <2>1 DEF CanHaveUniqueHeaders
  <2>3. NameAllowed(v, {})
    BY <1>2 DEF NamedAnew
  <2>4. \A i \in 1..Len(row) : row[i] # v
    BY <1>2, <2>1, <2>3, AllowedIsNew
  <2>5. ~HasDuplicate(Widened(row, c, v))
    BY <1>3, <2>2, <2>4, DistinctWidened
  <2> QED BY <1>2, <2>5
<1> QED BY <1>4, <1>5, HeaderStepOfMapped

LEMMA AppendCellsKeepsHeader ==
  ASSUME Inv, rows # <<>>, NEW cells, NamedAnew(cells), AppendCells(cells)
  PROVE  HeaderStep
<1>1. UNCHANGED <<hasHeader, hasMap>>
  BY DEF AppendCells
<1>2. CASE ~Mapped
  BY <1>1, <1>2, HeaderStepOfMapped
<1>3. CASE Mapped /\ ~Rectangular
  BY <1>1, <1>3, HeaderStepOfMapped DEF UniqueStep
<1>4. CASE Mapped /\ Rectangular
  <2>1. /\ 1 \in DOMAIN rows /\ rows[1] \in Row /\ Len(rows[1]) = columnCount
        /\ columnCount \in Nat /\ cells[1] \in Names
    BY <1>4, InvFacts, RowAt DEF Rectangular, NamedAnew, IsColumn
  <2>2. rows'[1] = Append(rows[1], cells[1])
    BY <1>4, <2>1 DEF AppendCells, Extended
  <2>3. rows'[1] = Widened(rows[1], columnCount, cells[1])
    BY <2>1, <2>2, AppendIsWidened
  <2>4. HeaderMapConsistent => ReindexUp(headerMap, columnCount) = headerMap
    <3>1. HeaderMapConsistent => \A k \in DOMAIN headerMap : headerMap[k].index < columnCount
      BY <1>4, <2>1 DEF HeaderMapConsistent
    <3> QED BY <2>1, <3>1, InvFacts, ReindexBeyond
  <2>5. headerMap' = <<MapEntry(cells[1], columnCount)>> \o headerMap
    BY <1>4 DEF AppendCells
  <2> QED BY <1>1, <1>4, <2>1, <2>3, <2>4, <2>5, HeaderCellAdded
<1> QED BY <1>2, <1>3, <1>4

LEMMA InsertCellsKeepsHeader ==
  ASSUME Inv, rows # <<>>, NEW c \in Nat, NEW cells, NamedAnew(cells),
         InsertCells(c, cells),
         allowIrregular \/ \A p \in DOMAIN rows : Extended(p) => c <= Len(rows[p])
  PROVE  HeaderStep
<1>1. UNCHANGED <<hasHeader, hasMap>>
  BY DEF InsertCells
<1>2. CASE ~Mapped
  BY <1>1, <1>2, HeaderStepOfMapped
<1>3. CASE Mapped
  <2>1. 1 \in DOMAIN rows /\ Extended(1)
    BY <1>3, InvFacts DEF Extended
  <2>2. rows'[1] = Widened(rows[1], c, cells[1])
    BY <2>1 DEF InsertCells
  <2>3. headerMap' = <<MapEntry(cells[1], c)>> \o ReindexUp(headerMap, c)
    BY <1>3 DEF InsertCells
  <2>4. ~allowIrregular => c <= Len(rows[1])
    BY <2>1
  <2> QED BY <1>1, <1>3, <2>2, <2>3, <2>4, HeaderCellAdded
<1> QED BY <1>2, <1>3

LEMMA RemoveColumnKeepsHeader ==
  ASSUME Inv, NEW c \in Nat, c < columnCount, RemoveColumn(c)
  PROVE  HeaderStep
<1>1. UNCHANGED <<hasHeader, hasMap>>
  BY DEF RemoveColumn
<1> SUFFICES ASSUME Mapped
             PROVE  /\ Rectangular /\ HeaderMapConsistent => Agrees(headerMap', rows'[1])
                    /\ UniqueStep
  BY <1>1, HeaderStepOfMapped
<1>2. 1 \in DOMAIN rows /\ rows[1] \in Row /\ headerMap \in Seq(Entry)
  BY InvFacts, RowAt DEF Mapped
<1>3. rows'[1] = WithoutColumn(rows[1], c)
  BY <1>2 DEF RemoveColumn
<1>4. ASSUME Rectangular, HeaderMapConsistent
      PROVE  Agrees(headerMap', rows'[1])
  <2>1. c < Len(rows[1]) /\ Agrees(headerMap, rows[1])
    BY <1>2, <1>4, ConsistentAgrees DEF Rectangular
  <2>2. ASSUME NEW m \in Seq(Entry), Agrees(m, rows[1]),
               \A k \in DOMAIN m : m[k].index # c, headerMap' = ReindexDown(m, c)
        PROVE  Agrees(headerMap', rows'[1])
    BY <1>2, <1>3, <2>1, <2>2, AgreesReindexedDown
  <2>3. CASE EntriesOf(c) = {}
    <3>1. headerMap' = ReindexDown(headerMap, c)
      BY <2>3 DEF RemoveColumn
    <3>2. \A k \in DOMAIN headerMap : headerMap[k].index # c
      BY <2>3 DEF EntriesOf
    <3> QED BY <1>2, <2>1, <2>2, <3>1, <3>2
  <2>4. CASE EntriesOf(c) # {}
    <3>1. PICK k \in EntriesOf(c) : headerMap' = ReindexDown(RemoveAt(headerMap, k), c)
      BY <2>4 DEF RemoveColumn
    <3>2. k \in DOMAIN headerMap /\ headerMap[k].index = c
      BY <3>1 DEF EntriesOf
    <3>3. /\ RemoveAt(headerMap, k) \in Seq(Entry)
          /\ Agrees(RemoveAt(headerMap, k), rows[1])
          /\ \A j \in DOMAIN RemoveAt(headerMap, k) : RemoveAt(headerMap, k)[j].index # c
      BY <1>2, <2>1, <3>2, AgreesWithoutEntry
    <3> QED BY <2>2, <3>1, <3>3
  <2> QED BY <2>3, <2>4
<1>5. UniqueStep
  BY <1>2, <1>3, DistinctWithout DEF UniqueStep, CanHaveUniqueHeaders
<1> QED BY <1>4, <1>5

LEMMA ColumnRenameKeepsHeader ==
  ASSUME Inv, NEW c \in Nat, NEW name \in Names, ColumnRename(c, name)
  PROVE  HeaderStep
<1>1. CASE Fails("INVALID") \/ Fails("OOM")
  BY <1>1, FailsKeepsHeader
<1>2. CASE /\ Mapped /\ NameAllowed(name, {c}) /\ c < Len(rows[1])
           /\ rows' = [rows EXCEPT ![1][c + 1] = name]
           /\ \E k \in EntriesOf(c) :
                 headerMap' = <<MapEntry(name, c)>> \o RemoveAt(headerMap, k)
           /\ UNCHANGED <<hasHeader, hasMap>>
  <2>1. /\ 1 \in DOMAIN rows /\ rows[1] \in Row /\ Len(rows[1]) \in Nat
        /\ headerMap \in Seq(Entry)
    BY <1>2, InvFacts, RowAt DEF Mapped
  <2>2. PICK row : row = rows[1]
    OBVIOUS
  <2>3. PICK new : new = [row EXCEPT ![c + 1] = name]
    OBVIOUS
  <2>4. rows'[1] = new
    BY <1>2, <2>1, <2>2, <2>3
  <2>5. row \in Row /\ c < Len(row) /\ Len(row) \in Nat
    BY <1>2, <2>1, <2>2
  <2>6. new \in Row /\ Len(new) = Len(row) /\ new[c + 1] = name
    <3>1. row \in Seq(Names) /\ c + 1 \in 1..Len(row)
      BY <2>5 DEF Row
    <3> QED BY <2>3, <3>1, ExceptSeq DEF Row
  <2>7. PICK k \in EntriesOf(c) : headerMap' = <<MapEntry(name, c)>> \o RemoveAt(headerMap, k)
    BY <1>2
  <2>8. ASSUME Rectangular, HeaderMapConsistent
        PROVE  Agrees(headerMap', rows'[1])
    <3>1. Agrees(headerMap, row) /\ k \in DOMAIN headerMap /\ headerMap[k].index = c
      BY <1>2, <2>2, <2>7, <2>8, ConsistentAgrees DEF EntriesOf
    <3>2. PICK m : m = RemoveAt(headerMap, k)
      OBVIOUS
    <3>3. m \in Seq(Entry) /\ Agrees(m, row) /\ \A j \in DOMAIN m : m[j].index # c
      BY <2>1, <2>5, <3>1, <3>2, AgreesWithoutEntry
    <3>4. Agrees(m, new)
      BY <2>3, <2>5, <3>3, AgreesRenamed
    <3>5. Agrees(<<MapEntry(name, c)>> \o m, new)
      BY <2>5, <2>6, <3>3, <3>4, AgreesWithNew
    <3> QED BY <2>4, <2>7, <3>2, <3>5
  <2>9. UniqueStep
    <3>1. SUFFICES ASSUME requireUnique, HeaderMapConsistent, HeaderMapComplete,
                          CanHaveUniqueHeaders
                   PROVE  ~HasDuplicate(rows'[1])
      BY DEF UniqueStep
    <3>2. ~HasDuplicate(row)
      BY <2>2, <3>1 DEF CanHaveUniqueHeaders
    <3>3. \A i \in 1..Len(row) : row[i] = name => i - 1 \in {c}
      BY <1>2, <2>2, <3>1, AllowedIsNew
    <3>4. \A i \in 1..Len(row) : row[i] = name => i = c + 1
      BY <2>5, <3>3
    <3>5. ~HasDuplicate([row EXCEPT ![c + 1] = name])
      BY <2>5, <3>2, <3>4, DistinctRenamed
    <3> QED BY <2>3, <2>4, <3>5
  <2> QED BY <1>2, <2>8, <2>9, HeaderStepOfMapped
<1> QED BY <1>1, <1>2 DEF ColumnRename

LEMMA ColumnOperationKeepsHeader ==
  ASSUME Inv, ColumnOperation
  PROVE  HeaderStep
<1>1. CASE Fails("INVALID") \/ Fails("OOM")
  BY <1>1, FailsKeepsHeader
<1>2. CASE UNCHANGED rows /\ KeepsHeader
  BY <1>2, FirstRowKept
<1> QED BY <1>1, <1>2, ColumnOutcomes, AppendCellsKeepsHeader, InsertCellsKeepsHeader,
           RemoveColumnKeepsHeader, ColumnRenameKeepsHeader

LEMMA StepKeepsHeader ==
  ASSUME Inv, [Next]_vars, ~Normalization
  PROVE  HeaderStep
<1>1. CASE UNCHANGED vars
  BY <1>1, FirstRowKept DEF vars, KeepsHeader
<1> QED BY <1>1, RowOperationKeepsHeader, ColumnOperationKeepsHeader,
           TableOperationKeepsHeader
    DEF Next

\* The header map and the header row of a rectangular table say the same of
\* every mapped column after every call but normalization.
THEOREM HeaderMapAndRowAgree == Spec => HeaderMapStaysConsistent
<1>1. Inv /\ [Next]_vars
        => [Rectangular /\ HeaderMapConsistent /\ ~Normalization
              => HeaderMapConsistent']_vars
  BY StepKeepsHeader DEF HeaderStep, MapStep
<1> QED BY <1>1, InvInvariant, PTL DEF Spec, HeaderMapStaysConsistent

\* With require_unique_headers no call but normalization gives two columns one name,
\* whatever column is appended, inserted, renamed or removed, on a strict table that
\* is rectangular and whose header map has one entry for every column, that of its
\* name.  Of other tables the names may become equal, see the README.
THEOREM HeadersStayUnique == Spec => UniqueHeadersKept
<1>1. Inv /\ [Next]_vars
        => [ /\ requireUnique /\ ~allowIrregular /\ Rectangular
             /\ HeaderMapConsistent /\ HeaderMapComplete
             /\ Mapped /\ CanHaveUniqueHeaders /\ ~Normalization
             => (hasHeader' => ~HasDuplicate(rows'[1])) ]_vars
  BY StepKeepsHeader DEF HeaderStep, UniqueStep
<1> QED BY <1>1, InvInvariant, PTL DEF Spec, UniqueHeadersKept
=============================================================================
