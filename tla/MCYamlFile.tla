----------------------------- MODULE MCYamlFile -----------------------------
(* YamlFile with two processes, whose documents differ in their newlines, for TLC.                 *)
EXTENDS YamlFile, TLC

MCLetters == {"a", "b"}
MCDocs == {<<"a", "b">>}
MCOptions == {NoNewline, CRLF}
MCSymmetry == Permutations(Procs)
=============================================================================
