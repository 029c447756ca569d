------------------------------ MODULE YamlFile ------------------------------
(***************************************************************************)
(* gtext_yaml_write_file and gtext_yaml_parse_file (src/yaml/              *)
(* yaml_file_io.c), called by several processes for the same path.  A      *)
(* document is written through a buffered stream to a new file with a name *)
(* of its own, which then takes the path by a rename.  Every step may fail *)
(* and a process may end anywhere: what it had in its buffer is lost, the  *)
(* file it made stays.  It stays too where fdopen or remove fails.         *)
(*                                                                         *)
(* A document is its lines and the newline it was read with; a text is the *)
(* sequence of its characters.  External: the file system (files keep what *)
(* is written to them, a rename is atomic), the parser and the writer of   *)
(* documents, which may fail anywhere.  Left out: a loss of power.         *)
(***************************************************************************)
EXTENDS Naturals, Sequences

CONSTANTS
    Procs,
    Letters,    \* what a line is made of: a line is one of them
    Docs,       \* documents as sequences of lines
    Options,    \* the newlines a caller may ask for, NoNewline for none
    NoNewline,
    NoDoc,
    MaxFiles    \* a bound: the files ever made

VARIABLES
    path,    \* the file that has the path, 0 for none
    files,   \* the contents of every file made
    temps,   \* the files that have a temporary name
    run,     \* the call each process is in
    held,    \* the document each process read last
    orphans  \* history: the files left where fdopen or remove failed, or the process ended

vars == <<path, files, temps, run, held, orphans>>

LF   == <<"\n">>
CR   == <<"\r">>
CRLF == <<"\r", "\n">>
Newlines == {LF, CR, CRLF}
Document(lines, newline) == [lines |-> lines, newline |-> newline]

Values == {Document(d, n) : d \in Docs, n \in Newlines}

ASSUME DocsAssumption == Docs \subseteq Seq(Letters) \ {<<>>} /\ "\r" \notin Letters /\ "\n" \notin Letters
\* Callers ask for a newline that YAML knows.
ASSUME OptionsAssumption == Options \subseteq Newlines \union {NoNewline} /\ NoNewline \notin Newlines
ASSUME NoDocAssumption == NoDoc \notin Values

\* detect_input_newline: the first newline of a text.
Detected(text) ==
    IF \A i \in DOMAIN text : text[i] \notin {"\r", "\n"} THEN NoNewline
    ELSE LET i == CHOOSE k \in DOMAIN text : text[k] \in {"\r", "\n"} /\ \A j \in 1..(k - 1) : text[j] \notin {"\r", "\n"}
         IN  CASE text[i] = "\n"                                          -> LF
               [] text[i] = "\r" /\ i < Len(text) /\ text[i + 1] = "\n" -> CRLF
               [] OTHER                                                  -> CR
Newline(doc, option) ==
    CASE option # NoNewline                          -> option
      [] option = NoNewline /\ doc.newline # NoNewline -> doc.newline
      [] OTHER                                       -> LF

\* What the writer makes of the lines, and the parser of a text: a line stands in
\* the text as one character, the newline comes after it.
Rendered(lines, newline) ==
    LET step == 1 + Len(newline)
    IN  [i \in 1..(step * Len(lines)) |->
            IF (i - 1) % step = 0 THEN lines[1 + (i - 1) \div step] ELSE newline[(i - 1) % step]]
Lines(text, step) == [k \in 1..((Len(text) + step - 1) \div step) |-> text[1 + step * (k - 1)]]
Parsed(text) ==
    CASE Detected(text) = NoNewline -> Document(Lines(text, 1), NoNewline)
      [] Detected(text) = CRLF      -> Document(Lines(text, 3), CRLF)
      [] OTHER                      -> Document(Lines(text, 2), Detected(text))

Idle == [pc |-> "idle", file |-> 0, rest |-> <<>>, buffer |-> <<>>, size |-> 0, ok |-> TRUE, text |-> <<>>]
At(p, pc) == run[p].pc = pc
Goes(p, r) == run' = [run EXCEPT ![p] = r]
Returns(p) == Goes(p, Idle)
\* The buffer, or a prefix of it, reaches the file.
Stored(p, n) == files' = [files EXCEPT ![run[p].file] = @ \o SubSeq(run[p].buffer, 1, n)]
Flushed(p)   == [run[p] EXCEPT !.buffer = <<>>]

Init ==
    /\ path \in {0, 1} /\ temps = {} /\ orphans = {} /\ held = [p \in Procs |-> NoDoc]
    /\ \E d \in Docs, n \in Options \ {NoNewline} :
          files = (IF path = 0 THEN <<>> ELSE <<Rendered(d, n)>>)
    /\ run = [p \in Procs |-> Idle]

-----------------------------------------------------------------------------
(* gtext_yaml_write_file.                                                  *)

Write(p) ==
    /\ At(p, "idle")
    /\ \E doc \in {Document(d, NoNewline) : d \in Docs} \union ({held[p]} \ {NoDoc}), option \in Options :
          LET newline == Newline(doc, option)
          IN  Goes(p, [Idle EXCEPT !.pc = "create", !.rest = Rendered(doc.lines, newline), !.text = Rendered(doc.lines, newline)])
    /\ UNCHANGED <<path, files, temps, held, orphans>>

\* Faulty: the file that has the path is opened and truncated.
NewFileInPlace(p) ==
    IF path = 0 THEN files' = Append(files, <<>>) /\ path' = Len(files') /\ Goes(p, [run[p] EXCEPT !.pc = "write", !.file = Len(files')]) /\ UNCHANGED temps
    ELSE files' = [files EXCEPT ![path] = <<>>] /\ Goes(p, [run[p] EXCEPT !.pc = "write", !.file = path]) /\ UNCHANGED <<path, temps>>
NewFile(p) ==
    /\ files' = Append(files, <<>>)
    /\ temps' = temps \union {Len(files')}
    /\ Goes(p, [run[p] EXCEPT !.pc = "write", !.file = Len(files')])
    /\ UNCHANGED path
\* create_temp_file: where fdopen fails, the file that mkstemp made stays.
CreateTemp(p) == At(p, "create") /\ Len(files) < MaxFiles /\ NewFile(p) /\ UNCHANGED <<held, orphans>>
CreateFails(p) ==
    /\ At(p, "create") /\ Returns(p)
    /\ \/ UNCHANGED <<files, temps, orphans>>
       \/ /\ Len(files) < MaxFiles /\ files' = Append(files, <<>>)
          /\ temps' = temps \union {Len(files')} /\ orphans' = orphans \union {Len(files')}
    /\ UNCHANGED <<path, held>>

\* The writer hands the text on in pieces, a newline in one; where else it cuts is
\* left open.  The stream is buffered: file_write_fn may send what the buffer holds
\* to the file before it takes the piece.
Cuts(text) == {k \in 1..Len(text) : k < Len(text) => <<text[k], text[k + 1]>> # CRLF}
WritePiece(p) ==
    /\ At(p, "write")
    /\ \E n \in Cuts(run[p].rest) :
          LET piece == SubSeq(run[p].rest, 1, n)
              rest  == SubSeq(run[p].rest, n + 1, Len(run[p].rest))
          IN  \/ Goes(p, [run[p] EXCEPT !.buffer = @ \o piece, !.rest = rest]) /\ UNCHANGED files
              \/ /\ run[p].buffer # <<>>
                 /\ Stored(p, Len(run[p].buffer))
                 /\ Goes(p, [run[p] EXCEPT !.buffer = piece, !.rest = rest])
    /\ UNCHANGED <<path, temps, held, orphans>>
\* fwrite fails, or the writer does.
WriteFails(p) ==
    /\ At(p, "write")
    /\ Goes(p, [run[p] EXCEPT !.pc = "close", !.ok = FALSE])
    /\ UNCHANGED <<path, files, temps, held, orphans>>
\* fflush.
Flush(p) ==
    /\ At(p, "write") /\ run[p].rest = <<>>
    /\ Stored(p, Len(run[p].buffer)) /\ Goes(p, [Flushed(p) EXCEPT !.pc = "close"])
    /\ UNCHANGED <<path, temps, held, orphans>>
FlushFails(p) ==
    /\ At(p, "write") /\ run[p].rest = <<>> /\ run[p].buffer # <<>>
    /\ \E n \in 0..(Len(run[p].buffer) - 1) : Stored(p, n)
    /\ Goes(p, [Flushed(p) EXCEPT !.pc = "close", !.ok = FALSE])
    /\ UNCHANGED <<path, temps, held, orphans>>
\* fclose sends what is left in the buffer, where it is not empty.
Close(p) ==
    /\ At(p, "close") /\ Stored(p, Len(run[p].buffer))
    /\ \E closed \in BOOLEAN :
          LET ok == run[p].ok /\ closed
          IN  Goes(p, [Flushed(p) EXCEPT !.pc = IF ok THEN "rename" ELSE "remove", !.ok = ok])
    /\ UNCHANGED <<path, temps, held, orphans>>

\* Faulty: the file of a call that failed stays.
UnnamedNever(p) == temps
Unnamed(p) == temps \ {run[p].file}
RemoveTemp(p) ==
    /\ At(p, "remove") /\ temps' = Unnamed(p) /\ Returns(p)
    /\ files' = [files EXCEPT ![run[p].file] = <<>>]
    /\ UNCHANGED <<path, held, orphans>>
\* What remove answers is not looked at: where it fails the file stays.
RemoveFails(p) ==
    /\ At(p, "remove") /\ Returns(p)
    /\ orphans' = orphans \union {run[p].file}
    /\ UNCHANGED <<path, files, temps, held>>
\* replace_file_path.
Rename(p) ==
    /\ At(p, "rename")
    /\ path' = run[p].file /\ temps' = temps \ {run[p].file} /\ Returns(p)
    /\ UNCHANGED <<files, held, orphans>>
RenameFails(p) ==
    /\ At(p, "rename") /\ Goes(p, [run[p] EXCEPT !.pc = "remove", !.ok = FALSE])
    /\ UNCHANGED <<path, files, temps, held, orphans>>

-----------------------------------------------------------------------------
(* gtext_yaml_parse_file.                                                  *)

\* It fails at once where there is no file.
OpenFile(p) ==
    /\ At(p, "idle") /\ path # 0 /\ Goes(p, [Idle EXCEPT !.pc = "size", !.file = path])
    /\ UNCHANGED <<path, files, temps, held, orphans>>
SizeFile(p) ==
    /\ At(p, "size") /\ Goes(p, [run[p] EXCEPT !.pc = "read", !.size = Len(files[run[p].file])])
    /\ UNCHANGED <<path, files, temps, held, orphans>>
\* fread and the parser; fewer bytes than the size are an error.
ReadFile(p) ==
    /\ At(p, "read") /\ run[p].size <= Len(files[run[p].file])
    /\ held' = [held EXCEPT ![p] = Parsed(SubSeq(files[run[p].file], 1, run[p].size))]
    /\ Returns(p) /\ UNCHANGED <<path, files, temps, orphans>>
ReadFails(p) ==
    /\ run[p].pc \in {"size", "read"} /\ Returns(p)
    /\ UNCHANGED <<path, files, temps, held, orphans>>

\* The process ends.
Crash(p) ==
    /\ run[p].pc \notin {"idle", "dead"} /\ Goes(p, [Idle EXCEPT !.pc = "dead"])
    /\ orphans' = orphans \union (temps \intersect {run[p].file})
    /\ UNCHANGED <<path, files, temps, held>>

Next == \E p \in Procs :
    \/ Write(p) \/ CreateTemp(p) \/ CreateFails(p) \/ WritePiece(p) \/ WriteFails(p) \/ Flush(p) \/ FlushFails(p)
    \/ Close(p) \/ RemoveTemp(p) \/ RemoveFails(p) \/ Rename(p) \/ RenameFails(p)
    \/ OpenFile(p) \/ SizeFile(p) \/ ReadFile(p) \/ ReadFails(p) \/ Crash(p)
Spec == Init /\ [][Next]_vars

-----------------------------------------------------------------------------
(* Properties.                                                             *)

\* Reads and writes act as if each happened in one moment of its call: no reader
\* ever sees a part of a document, a write that reports success has replaced all
\* of it, one that failed or died has changed nothing.
Value == IF path = 0 THEN NoDoc ELSE Parsed(files[path])
Want  == [p \in Procs |-> IF run[p].text = <<>> \/ ~run[p].ok THEN NoDoc ELSE Parsed(run[p].text)]
Seen  == [p \in Procs |-> IF run[p].pc \in {"size", "read"} THEN Parsed(files[run[p].file]) ELSE NoDoc]
Register == INSTANCE AtomicFile WITH
    NoValue <- NoDoc, value <- Value, want <- Want, seen <- Seen, got <- held
FileIsAtomic == Register!Spec

\* Every file with a temporary name belongs to a call in progress, or was left in one
\* of three ways: fdopen failed on it, the remove of a call that had failed did, or the
\* process ended.  No other failure leaves one, and the document that has the path is
\* never one that a call may still remove.
TempsAccountedFor ==
    /\ temps = orphans \union {run[p].file : p \in {q \in Procs : run[q].pc \in {"write", "close", "remove", "rename"}}}
    /\ path \notin temps
=============================================================================
