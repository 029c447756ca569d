---------------------------- MODULE MCCsvWriter ----------------------------
(* Instances of CsvWriter for TLC. *)
EXTENDS CsvWriter

SomeFields == {<<>>, <<"a">>, <<"delim">>, <<"a", "quote">>, <<"lf">>, <<"bslash">>}

\* Tables of one row of up to two fields, or of two short rows.
Cells      == {<<>>, <<"a">>, <<"quote">>}
ShortRows  == {<<>>} \union [1..1 -> Cells]
SomeTables == {<<>>} \union {<<row>> : row \in ShortRows \union [1..2 -> Cells]}
                \union {<<r1, r2>> : r1, r2 \in ShortRows}

Option(all, empty, needed, trim, escape) ==
    [quoteAll |-> all, quoteEmpty |-> empty, quoteIfNeeded |-> needed, trim |-> trim,
     trailingNewline |-> trim, escape |-> escape]
SomeOptions ==
    {Option(FALSE, TRUE, TRUE, FALSE, "doubled"), Option(FALSE, TRUE, TRUE, FALSE, "backslash"),
     Option(FALSE, FALSE, TRUE, TRUE, "doubled"), Option(TRUE, FALSE, FALSE, TRUE, "backslash"),
     Option(FALSE, FALSE, FALSE, FALSE, "none")}

\* Left out of the view: last_error, the mark of a call that is over, what was
\* offered to a growable sink but for its length, the records once output is torn.
MCView ==
    <<opts, sink, w.state, w.hasFields, call, arg, todo, torn,
      IF torn THEN <<>> ELSE <<records, pending>>,
      IF call = "none" THEN 0 ELSE mark,
      IF sink.kind = "fixed" THEN offered ELSE <<Len(offered)>> >>
=============================================================================
