---------------------------- MODULE MCCsvStream ----------------------------
(* CsvStream on short texts, for TLC.                                      *)
EXTENDS CsvStream

NoPrefix == <<>>
LetterN == <<"n">>
=============================================================================
