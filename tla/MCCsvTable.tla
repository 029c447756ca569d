----------------------------- MODULE MCCsvTable -----------------------------
(* CsvTable on small tables, for TLC.                                      *)
EXTENDS CsvTable

\* No call reads the status of the call before it.
MCView == <<content, policy>>
=============================================================================
