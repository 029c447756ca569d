------------------------------ MODULE CsvTable ------------------------------
(***************************************************************************)
(* The in-memory CSV table of src/csv/csv_table.c as its callers drive it: *)
(* rows of fields, the expected (or maximal) column count, an optional     *)
(* header row at index 0 with its name-to-column map, and the two policy   *)
(* flags.  One action stands for one public call, with every outcome the   *)
(* call has: success, rejection, allocation failure.                       *)
(*                                                                         *)
(* Abstracted: the bytes of a field (a field is a member of Names), the    *)
(* arena and the in-situ flag, the buckets of the header map (headerMap is *)
(* the concatenation of its chains, most recent entry first; two entries   *)
(* of one name share a bucket, so their order is kept), and the reverse    *)
(* index index_to_entry, which is a cache of the map (CsvHeaderIndex).     *)
(* Column and row arguments count from 0, as in the code.                  *)
(***************************************************************************)
EXTENDS Naturals, SequencesExt

CONSTANTS
    Names,        \* field contents, header names included
    Empty,        \* the empty field, csv_empty_field_string
    InitCapacity, \* initial row_capacity (16 in the code)
    MaxRows,      \* bound: rows a table grows to, header included
    MaxCols,      \* bound: fields a row grows to
    MaxEntries    \* bound: entries the header map grows to

ASSUME EmptyAssumption == Empty \in Names
ASSUME BoundsAssumption ==
    /\ InitCapacity \in Nat \ {0}
    /\ MaxRows \in Nat
    /\ MaxCols \in Nat
    /\ MaxEntries \in Nat

VARIABLES
    rows,            \* rows[1] is the header row when hasHeader
    rowCapacity,
    columnCount,
    hasHeader,
    hasMap,          \* header_map # NULL
    headerMap,       \* entries of the map
    requireUnique,
    allowIrregular,
    status           \* what the last call returned

content == <<rows, rowCapacity, columnCount, hasHeader, hasMap, headerMap>>
policy  == <<requireUnique, allowIrregular>>
vars    == <<rows, rowCapacity, columnCount, hasHeader, hasMap, headerMap,
             requireUnique, allowIrregular, status>>

Row     == Seq(Names)
Entry   == [name : Names, index : Nat]
Status  == {"OK", "INVALID", "OOM"}

-----------------------------------------------------------------------------
(* Helpers of csv_table.c.                                                 *)

\* csv_get_data_row_count: rows a caller can address.
DataRows == IF hasHeader /\ Len(rows) > 0 THEN Len(rows) - 1 ELSE Len(rows)

\* adjusted_row_idx, as a position of the sequence rows.
RowPos(r) == IF hasHeader THEN r + 2 ELSE r + 1

\* Positions of the data rows (csv_get_start_row_idx .. row_count - 1).
DataPos == (Len(rows) - DataRows + 1) .. Len(rows)

Mapped == hasHeader /\ hasMap

\* csv_recalculate_max_column_count, gtext_csv_min_col_count.
MaxColCount(rs) == IF rs = <<>> THEN 0 ELSE Max({Len(rs[i]) : i \in DOMAIN rs})
MinColCount(rs) == IF rs = <<>> THEN 0 ELSE Min({Len(rs[i]) : i \in DOMAIN rs})

Bigger(m, n) == IF m < n THEN n ELSE m

\* The first n fields of a row, padded with empty fields when it is shorter.
Fit(row, n) == [k \in 1..n |-> IF k <= Len(row) THEN row[k] ELSE Empty]

\* Faulty: the array is grown one row too late.
CapacityGrownLate ==
    IF Len(rows) > rowCapacity THEN 2 * rowCapacity ELSE rowCapacity
\* Doubling of the rows array when a row is added to a full one.
CapacityForOneMore ==
    IF Len(rows) >= rowCapacity THEN 2 * rowCapacity ELSE rowCapacity

\* Faulty: only the head of the chain is compared.
NameNotNewest(name, exempt) ==
    (requireUnique /\ Mapped /\ headerMap # <<>>) =>
        (headerMap[1].name = name => headerMap[1].index \in exempt)
\* csv_check_header_uniqueness: exempt holds the column being renamed, if any.
NameAllowed(name, exempt) ==
    (requireUnique /\ Mapped) =>
        \A k \in DOMAIN headerMap :
            headerMap[k].name = name => headerMap[k].index \in exempt

MapEntry(name, idx) == [name |-> name, index |-> idx]

\* Faulty: the entry at the insertion point stays.
ReindexUpAfter(m, c) ==
    [k \in DOMAIN m |-> IF m[k].index > c
                        THEN MapEntry(m[k].name, m[k].index + 1) ELSE m[k]]
\* csv_header_map_reindex_increment and _decrement.
ReindexUp(m, c) ==
    [k \in DOMAIN m |-> IF m[k].index >= c
                        THEN MapEntry(m[k].name, m[k].index + 1) ELSE m[k]]
ReindexDown(m, c) ==
    [k \in DOMAIN m |-> IF m[k].index > c
                        THEN MapEntry(m[k].name, m[k].index - 1) ELSE m[k]]

HasDuplicate(row) ==
    \E i, j \in DOMAIN row : i # j /\ row[i] = row[j]

\* The map built from a header row when later duplicates are skipped.  Names
\* in it are distinct, so the order of its chains cannot be observed.
FirstWinsMap(row) ==
    SetToSeq({MapEntry(row[i], i - 1) :
                i \in {k \in DOMAIN row : \A j \in DOMAIN row :
                                             j < k => row[j] # row[k]}})

\* The maps parsing builds: entries are added column by column, each at the
\* head of its chain.  Which columns get one depends on header_dup_mode and on
\* the entries the arena had room for; the parse goes on without the others.
MapOf(row, columns) ==
    [k \in DOMAIN columns |-> MapEntry(row[columns[k]], columns[k] - 1)]
Descending(n) ==
    {s \in UNION {[1..k -> 1..n] : k \in 0..n} :
        \A i, j \in DOMAIN s : i < j => s[i] > s[j]}

-----------------------------------------------------------------------------
(* Queries.                                                                *)

\* gtext_csv_validate_table.
ValidateTable ==
    /\ Len(rows) <= rowCapacity
    /\ Mapped => Len(rows) > 0

\* gtext_csv_can_have_unique_headers.
CanHaveUniqueHeaders ==
    /\ hasHeader /\ Len(rows) > 0
    /\ rows[1] # <<>>
    /\ ~HasDuplicate(rows[1])

-----------------------------------------------------------------------------
(* Creation: gtext_csv_new_table, gtext_csv_new_table_with_headers and     *)
(* gtext_csv_parse_table.                                                  *)

RowsUpTo(n) == UNION {[1..k -> Names] : k \in 0..n}

NewTable ==
    rows = <<>> /\ columnCount = 0 /\ hasHeader = FALSE /\ hasMap = FALSE
    /\ headerMap = <<>>

NewTableWithHeaders ==
    \E names \in RowsUpTo(MaxCols) \ {<<>>} :
        /\ ~HasDuplicate(names)
        /\ rows = <<names>> /\ columnCount = Len(names)
        /\ hasHeader = TRUE /\ hasMap = TRUE
        /\ headerMap = FirstWinsMap(names)

\* A parsed record has at least one field; records may differ in length.
ParseTable ==
    \E parsed \in UNION {[1..k -> RowsUpTo(MaxCols) \ {<<>>}] : k \in 0..MaxRows} :
        /\ rows = parsed
        /\ columnCount = IF parsed = <<>> THEN 0 ELSE Len(parsed[1])
        /\ \/ hasHeader = FALSE /\ hasMap = FALSE /\ headerMap = <<>>
           \/ /\ parsed # <<>>
              /\ hasHeader = TRUE /\ hasMap = TRUE
              /\ \E columns \in Descending(Len(parsed[1])) :
                    headerMap = MapOf(parsed[1], columns)

\* c is the capacity that doubling from the initial one reaches for n rows.
FittingCapacity(c, n) ==
    /\ \E k \in 0..n : c = InitCapacity * 2^k
    /\ n <= c
    /\ c = InitCapacity \/ c < 2 * n

\* RECORD_BEGIN makes room for a row that a blank record never fills.
Init ==
    /\ \/ NewTable /\ rowCapacity = InitCapacity
       \/ NewTableWithHeaders /\ rowCapacity = InitCapacity
       \/ /\ ParseTable
          /\ \E blank \in {0, 1}, c \in 1..(InitCapacity + 2 * MaxRows + 2) :
                FittingCapacity(c, Len(rows) + blank) /\ rowCapacity = c
    /\ requireUnique = FALSE /\ allowIrregular = FALSE
    /\ status = "OK"

-----------------------------------------------------------------------------
(* Outcomes shared by the calls.                                           *)

Fails(code) == status' = code /\ UNCHANGED <<content, policy>>

Succeeds == status' = "OK" /\ UNCHANGED policy

KeepsHeader == UNCHANGED <<hasHeader, hasMap, headerMap>>

-----------------------------------------------------------------------------
(* Row operations.                                                         *)

\* Faulty: the first data row is accepted whatever the header has.
AnyFirstRowAccepted(n) == allowIrregular \/ DataRows = 0 \/ n = columnCount
FieldCountAccepted(n) ==
    \/ allowIrregular
    \/ DataRows = 0 /\ columnCount = 0
    \/ n = columnCount

\* Faulty: a longer row does not raise the count.
ColumnCountNotRaised(n) == IF DataRows = 0 /\ columnCount = 0 THEN n ELSE columnCount
ColumnCountAfterRow(n) ==
    IF DataRows = 0 /\ columnCount = 0 THEN n
    ELSE IF allowIrregular THEN Bigger(columnCount, n) ELSE columnCount

RowAppend(fields) ==
    LET valid == fields # <<>> /\ FieldCountAccepted(Len(fields)) IN
    \/ ~valid /\ Fails("INVALID")
    \/ valid /\ Fails("OOM")
    \/ /\ valid /\ Len(rows) < MaxRows
       /\ rows' = Append(rows, fields)
       /\ rowCapacity' = CapacityForOneMore
       /\ columnCount' = ColumnCountAfterRow(Len(fields))
       /\ KeepsHeader /\ Succeeds

RowInsert(r, fields) ==
    LET valid == /\ fields # <<>> /\ r <= DataRows
                 /\ FieldCountAccepted(Len(fields)) IN
    \/ ~valid /\ Fails("INVALID")
    \/ valid /\ Fails("OOM")
    \/ /\ valid /\ Len(rows) < MaxRows
       /\ rows' = IF r = DataRows THEN Append(rows, fields)
                  ELSE InsertAt(rows, RowPos(r), fields)
       /\ rowCapacity' = CapacityForOneMore
       /\ columnCount' = ColumnCountAfterRow(Len(fields))
       /\ KeepsHeader /\ Succeeds

RowRemove(r) ==
    LET valid == r < DataRows /\ RowPos(r) <= Len(rows) IN
    \/ ~valid /\ Fails("INVALID")
    \/ /\ valid
       /\ rows' = RemoveAt(rows, RowPos(r))
       /\ columnCount' = IF allowIrregular /\ Len(rows[RowPos(r)]) = columnCount
                         THEN MaxColCount(rows') ELSE columnCount
       /\ KeepsHeader /\ UNCHANGED rowCapacity /\ Succeeds

\* In strict mode the existing field array is written in place and its
\* length kept: the fields of old beyond new stay, those of new beyond old
\* are not part of the row.
Overwrite(old, new) ==
    [k \in 1..Len(old) |-> IF k <= Len(new) THEN new[k] ELSE old[k]]

RowSet(r, fields) ==
    LET expected == IF columnCount = 0 /\ hasHeader /\ Len(rows) > 0
                    THEN Len(rows[1]) ELSE columnCount
        valid == /\ fields # <<>> /\ r < DataRows
                 /\ allowIrregular \/ Len(fields) = expected
        allocates == \/ \E k \in DOMAIN fields : fields[k] # Empty
                     \/ allowIrregular /\ Len(fields) # Len(rows[RowPos(r)]) IN
    \/ ~valid /\ Fails("INVALID")
    \/ valid /\ allocates /\ Fails("OOM")
    \/ /\ valid
       /\ rows' = [rows EXCEPT ![RowPos(r)] =
                     IF allowIrregular THEN fields ELSE Overwrite(@, fields)]
       /\ columnCount' = IF allowIrregular THEN Bigger(columnCount, Len(fields))
                         ELSE columnCount
       /\ KeepsHeader /\ UNCHANGED rowCapacity /\ Succeeds

FieldSet(r, c, value) ==
    LET valid == RowPos(r) <= Len(rows) /\ c < Len(rows[RowPos(r)]) IN
    \/ ~valid /\ Fails("INVALID")
    \/ valid /\ value # Empty /\ Fails("OOM")
    \/ /\ valid
       /\ rows' = [rows EXCEPT ![RowPos(r)][c + 1] = value]
       /\ KeepsHeader /\ UNCHANGED <<rowCapacity, columnCount>> /\ Succeeds

-----------------------------------------------------------------------------
(* Column operations (csv_column_operation_internal and its callers).      *)
(* cells[p] is what the row at position p gets in the new column.          *)

EmptyCells(name) ==
    [p \in DOMAIN rows |-> IF p = 1 /\ Mapped THEN name ELSE Empty]

\* Faulty: the header row is forgotten.
ExtendedDataOnly(p) == p \in DataPos
\* The header row of a table whose map is missing is not a data row and is
\* not extended as a header either.
Extended(p) == p \in DataPos \/ Mapped

AppendCells(cells) ==
    /\ rows' = [p \in DOMAIN rows |->
                  IF Extended(p) THEN Append(rows[p], cells[p]) ELSE rows[p]]
    /\ headerMap' = IF Mapped THEN <<MapEntry(cells[1], columnCount)>> \o headerMap
                    ELSE headerMap
    /\ columnCount' = columnCount + 1
    /\ UNCHANGED <<rowCapacity, hasHeader, hasMap>> /\ Succeeds

\* A row too short for the column is padded up to it.
Widened(row, c, value) ==
    IF c > Len(row) THEN Append(Fit(row, c), value) ELSE InsertAt(row, c + 1, value)

InsertCells(c, cells) ==
    /\ rows' = [p \in DOMAIN rows |->
                  IF Extended(p) THEN Widened(rows[p], c, cells[p]) ELSE rows[p]]
    /\ headerMap' = IF Mapped
                    THEN <<MapEntry(cells[1], c)>> \o ReindexUp(headerMap, c)
                    ELSE headerMap
    /\ columnCount' = IF c > columnCount THEN c + 1 ELSE columnCount + 1
    /\ UNCHANGED <<rowCapacity, hasHeader, hasMap>> /\ Succeeds

RoomForColumn ==
    /\ columnCount < MaxCols /\ \A p \in DOMAIN rows : Len(rows[p]) < MaxCols
    /\ Len(headerMap) < MaxEntries

\* Only the count of an empty table changes.
CountOnly(n) ==
    /\ columnCount + n <= MaxCols
    /\ columnCount' = columnCount + n
    /\ KeepsHeader /\ UNCHANGED <<rows, rowCapacity>> /\ Succeeds

ColumnAppendCells(cells) ==
    LET valid == Mapped => NameAllowed(cells[1], {}) IN
    \/ ~valid /\ Fails("INVALID")
    \/ valid /\ Fails("OOM")
    \/ valid /\ RoomForColumn /\ AppendCells(cells)

ColumnInsertCells(c, cells) ==
    LET named == Mapped => NameAllowed(cells[1], {})
        fits  == allowIrregular \/ \A p \in DOMAIN rows :
                                      Extended(p) => c <= Len(rows[p]) IN
    \/ ~(named /\ fits) /\ Fails("INVALID")
    \/ named /\ Fails("OOM")
    \/ named /\ fits /\ RoomForColumn /\ InsertCells(c, cells)

\* An insertion at the column count is an append when no data row is short.
InsertsAtEnd(c) ==
    c = columnCount /\ \A p \in DataPos : Len(rows[p]) >= columnCount

InsertIndexAccepted(c) == c < columnCount \/ InsertsAtEnd(c) \/ allowIrregular

ColumnAppend(name) ==
    \/ rows = <<>> /\ CountOnly(1)
    \/ rows # <<>> /\ ColumnAppendCells(EmptyCells(name))

ColumnAppendWithValues(values) ==
    \/ (rows = <<>> \/ Len(values) < Len(rows)) /\ Fails("INVALID")
    \/ rows # <<>> /\ Len(values) >= Len(rows) /\ ColumnAppendCells(values)

\* On an empty table the shared helper has already counted the column when
\* the caller counts it again.
ColumnInsert(c, name) ==
    \/ ~InsertIndexAccepted(c) /\ Fails("INVALID")
    \/ InsertsAtEnd(c) /\ ColumnAppend(name)
    \/ /\ InsertIndexAccepted(c) /\ ~InsertsAtEnd(c)
       /\ \/ /\ rows = <<>>
             /\ CountOnly(IF c > columnCount + 1 THEN c - columnCount + 1 ELSE 2)
          \/ rows # <<>> /\ ColumnInsertCells(c, EmptyCells(name))

ColumnInsertWithValues(c, values) ==
    \/ ~InsertIndexAccepted(c) /\ Fails("INVALID")
    \/ InsertsAtEnd(c) /\ ColumnAppendWithValues(values)
    \/ /\ InsertIndexAccepted(c) /\ ~InsertsAtEnd(c)
       /\ \/ (rows = <<>> \/ Len(values) < Len(rows)) /\ Fails("INVALID")
          \/ rows # <<>> /\ Len(values) >= Len(rows) /\ ColumnInsertCells(c, values)

\* csv_find_header_entry_by_index: positions of the entries of column c.
EntriesOf(c) == {k \in DOMAIN headerMap : headerMap[k].index = c}

WithoutColumn(row, c) == IF c < Len(row) THEN RemoveAt(row, c + 1) ELSE row

RemoveColumn(c) ==
    /\ rows' = [p \in DOMAIN rows |-> WithoutColumn(rows[p], c)]
    /\ IF ~Mapped THEN UNCHANGED headerMap
       ELSE IF EntriesOf(c) = {} THEN headerMap' = ReindexDown(headerMap, c)
       ELSE \E k \in EntriesOf(c) :
               headerMap' = ReindexDown(RemoveAt(headerMap, k), c)
    /\ columnCount' = columnCount - 1
    /\ UNCHANGED <<rowCapacity, hasHeader, hasMap>> /\ Succeeds

\* Faulty: no bound check.
ColumnRemoveUnchecked(c) == RemoveColumn(c)
ColumnRemove(c) ==
    \/ c >= columnCount /\ Fails("INVALID")
    \/ c < columnCount /\ RemoveColumn(c)

ColumnRename(c, name) ==
    LET valid == /\ Mapped /\ c < columnCount /\ rows # <<>>
                 /\ NameAllowed(name, {c})
                 /\ EntriesOf(c) # {} IN
    \/ ~valid /\ Fails("INVALID")
    \/ valid /\ Fails("OOM")
    \/ valid /\ c >= Len(rows[1]) /\ Fails("INVALID")
    \/ /\ valid /\ c < Len(rows[1])
       /\ rows' = [rows EXCEPT ![1][c + 1] = name]
       /\ \E k \in EntriesOf(c) :
             headerMap' = <<MapEntry(name, c)>> \o RemoveAt(headerMap, k)
       /\ UNCHANGED <<rowCapacity, columnCount, hasHeader, hasMap>> /\ Succeeds

-----------------------------------------------------------------------------
(* Operations on the whole table.                                          *)

NormalizeTo(n, truncate) ==
    LET normal == \A p \in DOMAIN rows : Len(rows[p]) = n
        valid  == truncate \/ \A p \in DOMAIN rows : Len(rows[p]) <= n IN
    \/ ~normal /\ ~valid /\ Fails("INVALID")
    \/ ~normal /\ valid /\ Fails("OOM")
    \/ /\ normal \/ (valid /\ n > 0) \* the arena refuses a block of size 0
       /\ rows' = [p \in DOMAIN rows |-> Fit(rows[p], n)]
       /\ columnCount' = n
       /\ KeepsHeader /\ UNCHANGED rowCapacity /\ Succeeds

\* gtext_csv_normalize_rows with a target, 0 for the maximum.
NormalizeRows(target, truncate) ==
    IF rows = <<>>
    THEN /\ columnCount' = IF target = 0 THEN columnCount ELSE target
         /\ KeepsHeader /\ UNCHANGED <<rows, rowCapacity>> /\ Succeeds
    ELSE NormalizeTo(IF target = 0 THEN MaxColCount(rows) ELSE target, truncate)

\* gtext_csv_normalize_rows with target SIZE_MAX.
NormalizeRowsToMin(truncate) ==
    IF rows = <<>> THEN UNCHANGED content /\ Succeeds
    ELSE NormalizeTo(MinColCount(rows), truncate)

\* The row that becomes the header is padded, or raises the column count,
\* before uniqueness is checked and the map is allocated.
EnableHeaderRow ==
    LET header == Fit(rows[1], Bigger(Len(rows[1]), columnCount))
        widen  == /\ rows' = [rows EXCEPT ![1] = header]
                  /\ columnCount' = Len(header)
        clash  == requireUnique /\ HasDuplicate(header) IN
    \/ Len(rows[1]) < columnCount /\ Fails("OOM")
    \/ /\ clash /\ widen /\ KeepsHeader
       /\ status' = "INVALID" /\ UNCHANGED <<rowCapacity, policy>>
    \/ /\ ~clash /\ widen /\ KeepsHeader
       /\ status' = "OOM" /\ UNCHANGED <<rowCapacity, policy>>
    \/ /\ ~clash /\ widen
       /\ hasHeader' = TRUE /\ hasMap' = TRUE /\ headerMap' = FirstWinsMap(header)
       /\ UNCHANGED rowCapacity /\ Succeeds

SetHeaderRow(enable) ==
    \/ enable /\ (rows = <<>> \/ hasHeader) /\ Fails("INVALID")
    \/ enable /\ rows # <<>> /\ ~hasHeader /\ EnableHeaderRow
    \/ ~enable /\ ~hasHeader /\ Fails("INVALID")
    \/ /\ ~enable /\ hasHeader
       /\ hasHeader' = FALSE /\ hasMap' = FALSE /\ headerMap' = <<>>
       /\ UNCHANGED <<rows, rowCapacity, columnCount>> /\ Succeeds

\* The data is copied to a fresh arena; nothing a caller sees changes.
Compact ==
    \/ Fails("OOM")
    \/ UNCHANGED content /\ Succeeds

\* The row count is restored when the compaction that follows fails.
Clear ==
    \/ Fails("OOM")
    \/ /\ rows' = IF hasHeader THEN SubSeq(rows, 1, 1) ELSE <<>>
       /\ KeepsHeader /\ UNCHANGED <<rowCapacity, columnCount>> /\ Succeeds

\* The caller carries on with a clone of the table.
Clone ==
    \/ Fails("OOM")
    \/ /\ hasMap' = (hasMap /\ headerMap # <<>>)
       /\ requireUnique' = FALSE /\ allowIrregular' = FALSE
       /\ status' = "OK"
       /\ UNCHANGED <<rows, rowCapacity, columnCount, hasHeader, headerMap>>

SetRequireUniqueHeaders(require) ==
    requireUnique' = require /\ status' = "OK" /\ UNCHANGED <<content, allowIrregular>>

SetAllowIrregularRows(allow) ==
    allowIrregular' = allow /\ status' = "OK" /\ UNCHANGED <<content, requireUnique>>

-----------------------------------------------------------------------------
\* Inputs: every index up to one past the end, every column one value short or
\* complete.
RowIndexes == 0..Len(rows)
ColIndexes == 0..MaxCols
Columns    == UNION {[1..k -> Names] : k \in {n \in 0..Len(rows) : Len(rows) <= n + 1}}

RowOperation ==
    \/ \E f \in RowsUpTo(MaxCols) : RowAppend(f)
    \/ \E r \in RowIndexes, f \in RowsUpTo(MaxCols) : RowInsert(r, f) \/ RowSet(r, f)
    \/ \E r \in RowIndexes : RowRemove(r)
    \/ \E r \in RowIndexes, c \in ColIndexes, v \in Names : FieldSet(r, c, v)

ColumnOperation ==
    \/ \E n \in Names : ColumnAppend(n)
    \/ \E v \in Columns : ColumnAppendWithValues(v)
    \/ \E c \in ColIndexes, n \in Names : ColumnInsert(c, n) \/ ColumnRename(c, n)
    \/ \E c \in ColIndexes, v \in Columns : ColumnInsertWithValues(c, v)
    \/ \E c \in ColIndexes : ColumnRemove(c)

Normalization ==
    \/ \E n \in ColIndexes, t \in BOOLEAN : NormalizeRows(n, t)
    \/ \E t \in BOOLEAN : NormalizeRowsToMin(t)

TableOperation ==
    \/ \E e \in BOOLEAN : SetHeaderRow(e)
    \/ Compact
    \/ Clear
    \/ Clone
    \/ \E b \in BOOLEAN : SetRequireUniqueHeaders(b) \/ SetAllowIrregularRows(b)

Next == RowOperation \/ ColumnOperation \/ Normalization \/ TableOperation

Spec == Init /\ [][Next]_vars

-----------------------------------------------------------------------------
(* Properties.                                                             *)

\* Every variable keeps its type.
TypeOK ==
    /\ rows \in Seq(Row)
    /\ rowCapacity \in Nat \ {0}
    /\ columnCount \in Nat
    /\ <<hasHeader, hasMap, requireUnique, allowIrregular>>
         \in BOOLEAN \X BOOLEAN \X BOOLEAN \X BOOLEAN
    /\ headerMap \in Seq(Entry)
    /\ status \in Status

\* No sequence of calls, failed ones included, makes gtext_csv_validate_table
\* fail: the rows array never overflows and a header row is never lost.
StructureValid ==
    /\ ValidateTable
    /\ hasMap => hasHeader
    /\ hasHeader => rows # <<>>

\* Every row, header included, has exactly column_count fields
\* (the negation of gtext_csv_has_irregular_rows).
Rectangular == \A p \in DOMAIN rows : Len(rows[p]) = columnCount

\* The header row has columns, and its map exists.
HeaderReady == hasHeader => hasMap /\ columnCount > 0

\* In strict mode no call turns a rectangular table into an irregular one:
\* CSV.md 8.2, "enforce a strict rectangular structure".  Not claimed of a table
\* whose header row lost its last column (HeaderReady): the next row is then taken
\* for the first one, whatever its length.
StrictStaysRectangular ==
    [][~allowIrregular /\ Rectangular /\ HeaderReady => Rectangular']_vars

\* column_count bounds every row, whatever the mode, once it does: a column
\* index below it is the only way to address the last field of the longest row.
\* (From above only: a row_set that shortens the longest row leaves the count.)
CountCovers == \A p \in DOMAIN rows : Len(rows[p]) <= columnCount
CountKeepsCovering == [][CountCovers => CountCovers']_vars

\* The header map and the header row say the same of every mapped column, and
\* no column has two entries: header_index finds the column it names, rename
\* and remove find the entry of the column they change.
HeaderMapConsistent ==
    Mapped =>
      /\ \A k \in DOMAIN headerMap :
            /\ headerMap[k].index < Len(rows[1])
            /\ rows[1][headerMap[k].index + 1] = headerMap[k].name
      /\ \A j, k \in DOMAIN headerMap :
            headerMap[j].index = headerMap[k].index => j = k

\* Every call but normalization keeps map and header row consistent on a
\* rectangular table: reindexing and shifting go together.
HeaderMapStaysConsistent ==
    [][Rectangular /\ HeaderMapConsistent /\ ~Normalization
         => HeaderMapConsistent']_vars

\* Every header field has an entry.
HeaderMapComplete ==
    Mapped => \A i \in DOMAIN rows[1] : i - 1 \in {headerMap[k].index : k \in DOMAIN headerMap}

\* With require_unique_headers no call but normalization gives two columns of a
\* strict table one name (csv_table.h, gtext_csv_set_require_unique_headers), once it
\* is rectangular and its header map complete: a short header row is padded with
\* names that no check has seen.
UniqueHeadersKept ==
    [][ /\ requireUnique /\ ~allowIrregular /\ Rectangular
        /\ HeaderMapConsistent /\ HeaderMapComplete
        /\ Mapped /\ CanHaveUniqueHeaders /\ ~Normalization
        => (hasHeader' => ~HasDuplicate(rows'[1])) ]_vars

\* On a rectangular table a column operation moves the cells of a column
\* together in all rows, the header row included: a header stays above its data.
SameShift(narrow, wide) ==
    \E c \in 1..Len(wide[1]) : \A p \in DOMAIN wide : narrow[p] = RemoveAt(wide[p], c)
ColumnsStayAligned ==
    [][ Rectangular /\ HeaderReady /\ rows # <<>> /\ ColumnOperation
        => /\ columnCount' = columnCount + 1 => SameShift(rows, rows')
           /\ columnCount' < columnCount => SameShift(rows', rows) ]_vars

=============================================================================
