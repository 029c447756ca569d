-------------------------- MODULE YamlFile_proofs --------------------------
(***************************************************************************)
(* However many processes write: a temporary file belongs to a call in     *)
(* progress or was left in one of three ways (fdopen or remove failed, the *)
(* process ended), a file that can be opened by its path never changes,    *)
(* and reads and writes act as on an atomic register.                      *)
(***************************************************************************)
EXTENDS YamlFile, DataLemmas

Writes   == {"write", "close", "remove", "rename"}
Writers  == {p \in Procs : run[p].pc \in Writes}
Fields   == {"pc", "file", "rest", "buffer", "size", "ok", "text"}
IsSeq(s) == \E S : s \in Seq(S)

\* Every writer has a temporary file of its own; the others, the path and the
\* readers have files without a temporary name.
Own ==
    /\ DOMAIN run = Procs /\ \A p \in Procs : DOMAIN run[p] = Fields
    /\ IsSeq(files)
    /\ path \in 0..Len(files) /\ path \notin temps
    /\ temps \subseteq 1..Len(files)
    /\ temps = orphans \union {run[p].file : p \in Writers}
    /\ \A p \in Procs : run[p].file \in 0..Len(files)
    /\ \A p \in Procs : run[p].pc \in Writes => run[p].file \notin orphans
    /\ \A p \in Procs : run[p].pc \notin Writes => run[p].file \notin temps
    /\ \A p, q \in Procs : p # q /\ run[p].pc \in Writes /\ run[q].pc \in Writes => run[p].file # run[q].file

\* The fields of a call of which two or three were changed.
LEMMA IdleFields == DOMAIN Idle = Fields /\ Idle.pc = "idle" /\ Idle.file = 0
    BY DEF Idle, Fields

\* A longer list of files and a file written to.
LEMMA AppendFile ==
    ASSUME NEW s, IsSeq(s), NEW e
    PROVE  IsSeq(Append(s, e)) /\ Len(Append(s, e)) = Len(s) + 1 /\ Len(s) \in Nat
           /\ \A i \in 1..Len(s) : Append(s, e)[i] = s[i]
<1>1. PICK S : s \in Seq(S)
    BY DEF IsSeq
<1>2. s \in Seq(S \union {e})
    BY <1>1
<1>3. Append(s, e) \in Seq(S \union {e})
    BY <1>2
<1>4. QED
    BY <1>2, <1>3 DEF IsSeq
LEMMA WriteFile ==
    ASSUME NEW s, IsSeq(s), NEW i, NEW e
    PROVE  /\ IsSeq([s EXCEPT ![i] = e]) /\ Len([s EXCEPT ![i] = e]) = Len(s)
           /\ \A j \in 1..Len(s) : j # i => [s EXCEPT ![i] = e][j] = s[j]
<1>1. PICK S : s \in Seq(S)
    BY DEF IsSeq
<1>2. s \in Seq(S \union {e})
    BY <1>1
<1>3. [s EXCEPT ![i] = e] \in Seq(S \union {e}) /\ Len([s EXCEPT ![i] = e]) = Len(s)
  <2>1. CASE i \in 1..Len(s)
      BY <1>2, <2>1, ExceptSeq
  <2>2. CASE i \notin 1..Len(s)
    <3>1. [s EXCEPT ![i] = e] = s
        BY <1>2, <2>2
    <3>2. QED
        BY <1>2, <3>1
  <2>3. QED
      BY <2>1, <2>2
<1>4. QED
    BY <1>2, <1>3 DEF IsSeq

-----------------------------------------------------------------------------
(* The kinds of step.                                                      *)

\* A call goes on: a writer with its file, another with its file.
LEMMA CallGoesOn ==
    ASSUME Own, NEW p \in Procs, NEW r, DOMAIN r = Fields, r.file = run[p].file,
           r.pc \in Writes <=> run[p].pc \in Writes, run' = [run EXCEPT ![p] = r],
           IsSeq(files'), Len(files') = Len(files), UNCHANGED <<path, temps, orphans>>
    PROVE  Own'
<1>1. run'[p] = r /\ \A q \in Procs : q # p => run'[q] = run[q]
    BY DEF Own
<1>2. \A q \in Procs : run'[q].file = run[q].file /\ (run'[q].pc \in Writes <=> run[q].pc \in Writes)
    BY <1>1
<1>3. Writers' = Writers
    BY <1>2 DEF Writers
<1>4. {run[q].file : q \in Writers}' = {run[q].file : q \in Writers}
    BY <1>2, <1>3 DEF Writers
<1>5. path' \in 0..Len(files') /\ path' \notin temps' /\ temps' \subseteq 1..Len(files')
    BY DEF Own
<1>6. temps' = orphans' \union {run[q].file : q \in Writers}'
    BY <1>4 DEF Own
<1>7. \A q \in Procs : run'[q].file \in 0..Len(files')
    BY <1>2 DEF Own
<1>8. \A q \in Procs : run'[q].pc \in Writes => run'[q].file \notin orphans'
    BY <1>2 DEF Own
<1>9. \A q \in Procs : run'[q].pc \notin Writes => run'[q].file \notin temps'
    BY <1>2 DEF Own
<1>10. \A q, s \in Procs : q # s /\ run'[q].pc \in Writes /\ run'[s].pc \in Writes => run'[q].file # run'[s].file
    BY <1>2 DEF Own
<1>11. DOMAIN run' = Procs /\ \A q \in Procs : DOMAIN run'[q] = Fields
    BY <1>1 DEF Own
<1>12. QED
    BY <1>5, <1>6, <1>7, <1>8, <1>9, <1>10, <1>11 DEF Own

\* A call that has no file of its own goes on to another, or ends.
LEMMA OtherCall ==
    ASSUME Own, NEW p \in Procs, NEW r, DOMAIN r = Fields, r.file \in 0..Len(files), r.file \notin temps,
           r.pc \notin Writes, run[p].pc \notin Writes, run' = [run EXCEPT ![p] = r],
           UNCHANGED <<path, files, temps, orphans>>
    PROVE  Own'
<1>1. run'[p] = r /\ \A q \in Procs : q # p => run'[q] = run[q]
    BY DEF Own
<1>2. \A q \in Procs : run'[q].pc \in Writes <=> run[q].pc \in Writes
    BY <1>1
<1>3. Writers' = Writers /\ \A q \in Writers : run'[q].file = run[q].file
    BY <1>1, <1>2 DEF Writers
<1>4. {run[q].file : q \in Writers}' = {run[q].file : q \in Writers}
    BY <1>3
<1>5. QED
    BY <1>1, <1>2, <1>4 DEF Own

\* A call of a writer ends, and its file loses its temporary name, or is left
\* behind with it.
LEMMA WriterEnds ==
    ASSUME Own, NEW p \in Procs, run[p].pc \in Writes, NEW r, DOMAIN r = Fields, r.file = 0, r.pc \notin Writes,
           run' = [run EXCEPT ![p] = r], IsSeq(files'), Len(files') = Len(files),
           path' \in {path, run[p].file},
           \/ temps' = temps \ {run[p].file} /\ UNCHANGED orphans
           \/ UNCHANGED <<path, temps>> /\ orphans' = orphans \union {run[p].file}
    PROVE  Own'
<1>1. run'[p] = r /\ \A q \in Procs : q # p => run'[q] = run[q]
    BY DEF Own
<1>2. Writers' = Writers \ {p} /\ p \in Writers
    BY <1>1 DEF Writers
<1>3. run[p].file \in temps /\ run[p].file \notin orphans
    BY <1>2 DEF Own
<1>4. {run[q].file : q \in Writers}' = {run[q].file : q \in Writers} \ {run[p].file}
  <2>1. \A q \in Writers \ {p} : run'[q].file = run[q].file /\ run[q].file # run[p].file
      BY <1>1, <1>2 DEF Own, Writers
  <2>2. QED
      BY <1>2, <2>1
<1>5. temps' = orphans' \union {run[q].file : q \in Writers}'
    BY <1>2, <1>3, <1>4 DEF Own
<1>6. Len(files) \in Nat
    BY DEF Own, IsSeq
<1>7. path' \in 0..Len(files') /\ path' \notin temps' /\ temps' \subseteq 1..Len(files')
  <2>1. CASE temps' = temps \ {run[p].file} /\ UNCHANGED orphans
      BY <1>3, <2>1 DEF Own
  <2>2. CASE UNCHANGED <<path, temps>> /\ orphans' = orphans \union {run[p].file}
      BY <1>3, <2>2 DEF Own
  <2>3. QED
      BY <2>1, <2>2
<1>8. \A q \in Procs : run'[q].file \in 0..Len(files')
    BY <1>1, <1>6 DEF Own
<1>9. \A q \in Procs : run'[q].pc \in Writes => run'[q].file \notin orphans'
    BY <1>1 DEF Own
<1>10. \A q \in Procs : run'[q].pc \notin Writes => run'[q].file \notin temps'
    BY <1>1, <1>7 DEF Own
<1>11. \A q, s \in Procs : q # s /\ run'[q].pc \in Writes /\ run'[s].pc \in Writes => run'[q].file # run'[s].file
    BY <1>1 DEF Own
<1>12. DOMAIN run' = Procs /\ \A q \in Procs : DOMAIN run'[q] = Fields
    BY <1>1 DEF Own
<1>13. QED
    BY <1>5, <1>7, <1>8, <1>9, <1>10, <1>11, <1>12 DEF Own

\* A new file, with a temporary name.
LEMMA FileIsMade ==
    ASSUME Own, NEW p \in Procs, run[p].pc \notin Writes, NEW r, DOMAIN r = Fields, NEW e,
           run' = [run EXCEPT ![p] = r], files' = Append(files, e), UNCHANGED path,
           temps' = temps \union {Len(files')},
           \/ r.pc \in Writes /\ r.file = Len(files') /\ UNCHANGED orphans
           \/ r.pc \notin Writes /\ r.file = 0 /\ orphans' = orphans \union {Len(files')}
    PROVE  Own'
<1> DEFINE n == Len(files')
<1>1. run'[p] = r /\ \A q \in Procs : q # p => run'[q] = run[q]
    BY DEF Own
<1>2. n = Len(files) + 1 /\ Len(files) \in Nat /\ IsSeq(files')
    BY AppendFile DEF Own
<1>3. n \notin temps /\ n \notin orphans /\ path # n /\ \A q \in Procs : run[q].file # n
  <2>1. temps \subseteq 1..Len(files) /\ orphans \subseteq temps /\ path \in 0..Len(files)
        /\ \A q \in Procs : run[q].file \in 0..Len(files)
      BY DEF Own
  <2>2. QED
      BY <1>2, <2>1
<1>4. temps' = orphans' \union {run[q].file : q \in Writers}'
  <2>1. temps = orphans \union {run[q].file : q \in Writers}
      BY DEF Own
  <2>2. CASE r.pc \in Writes /\ r.file = n /\ UNCHANGED orphans
    <3>1. Writers' = Writers \union {p} /\ p \notin Writers
        BY <1>1, <2>2 DEF Writers
    <3>2. \A q \in Writers : run'[q].file = run[q].file
        BY <1>1, <3>1 DEF Writers
    <3>3. {run[q].file : q \in Writers}' = {run[q].file : q \in Writers} \union {n}
        BY <1>1, <2>2, <3>1, <3>2
    <3>4. QED
        BY <2>1, <2>2, <3>3
  <2>3. CASE r.pc \notin Writes /\ r.file = 0 /\ orphans' = orphans \union {n}
    <3>1. Writers' = Writers /\ p \notin Writers
        BY <1>1, <2>3 DEF Writers
    <3>2. \A q \in Writers : run'[q].file = run[q].file
        BY <1>1, <3>1 DEF Writers
    <3>3. {run[q].file : q \in Writers}' = {run[q].file : q \in Writers}
        BY <3>1, <3>2
    <3>4. QED
        BY <2>1, <2>3, <3>3
  <2>4. QED
      BY <2>2, <2>3
<1>5. path' \in 0..n /\ path' \notin temps' /\ temps' \subseteq 1..n
  <2>1. temps \subseteq 1..Len(files) /\ path \in 0..Len(files) /\ path \notin temps
      BY DEF Own
  <2>2. path' \in 0..n
      BY <1>2, <2>1
  <2>3. path' \notin temps'
      BY <1>3, <2>1
  <2>4. 1..Len(files) \subseteq 1..n /\ n \in 1..n
      BY <1>2
  <2>5. QED
      BY <2>1, <2>2, <2>3, <2>4
<1>6. \A q \in Procs : run'[q].file \in 0..n
  <2>1. \A q \in Procs : run[q].file \in 0..Len(files)
      BY DEF Own
  <2>2. QED
      BY <1>1, <1>2, <2>1
<1>7. \A q \in Procs : run'[q].pc \in Writes => run'[q].file \notin orphans'
    BY <1>1, <1>3 DEF Own
<1>8. \A q \in Procs : run'[q].pc \notin Writes => run'[q].file \notin temps'
    BY <1>1, <1>2, <1>3, <1>5 DEF Own
<1>9. \A q, s \in Procs : q # s /\ run'[q].pc \in Writes /\ run'[s].pc \in Writes => run'[q].file # run'[s].file
    BY <1>1, <1>3 DEF Own
<1>10. DOMAIN run' = Procs /\ \A q \in Procs : DOMAIN run'[q] = Fields
    BY <1>1 DEF Own
<1>11. QED
    BY <1>2, <1>4, <1>5, <1>6, <1>7, <1>8, <1>9, <1>10 DEF Own

-----------------------------------------------------------------------------
(* Every step is of one of these kinds.                                    *)

LEMMA InitOwns == Init => Own
<1> SUFFICES ASSUME Init
             PROVE  Own
    OBVIOUS
<1>1. run = [p \in Procs |-> Idle] /\ path \in {0, 1} /\ temps = {} /\ orphans = {}
    BY DEF Init
<1>2. IsSeq(files) /\ Len(files) \in Nat /\ path \in 0..Len(files)
  <2>1. PICK t : files = IF path = 0 THEN <<>> ELSE <<t>>
      BY DEF Init
  <2>2. files \in Seq({t}) /\ (path # 0 => Len(files) = 1)
    <3>1. CASE path = 0
        BY <2>1, <3>1
    <3>2. CASE path # 0
        BY <2>1, <3>2
    <3>3. QED
        BY <3>1, <3>2
  <2>3. QED
      BY <1>1, <2>1, <2>2 DEF IsSeq
<1>3. \A p \in Procs : run[p].pc = "idle" /\ run[p].file = 0 /\ DOMAIN run[p] = Fields
    BY <1>1, IdleFields
<1>4. Writers = {}
    BY <1>3 DEF Writers, Writes
<1>5. QED
    BY <1>1, <1>2, <1>3, <1>4 DEF Own, Writes

\* A writer, or a reader of the size, goes on with its file.
LEMMA CallsGoOn ==
    ASSUME Own, NEW p \in Procs,
           \/ SizeFile(p) \/ WritePiece(p) \/ WriteFails(p) \/ Flush(p)
           \/ FlushFails(p) \/ Close(p) \/ RenameFails(p)
    PROVE  Own'
<1>1. DOMAIN run[p] = Fields /\ IsSeq(files)
    BY DEF Own
<1>2. ASSUME NEW n, Stored(p, n)
      PROVE  IsSeq(files') /\ Len(files') = Len(files)
  <2> DEFINE e == files[run[p].file] \o SubSeq(run[p].buffer, 1, n)
  <2>1. files' = [files EXCEPT ![run[p].file] = e]
      BY <1>2 DEF Stored
  <2> HIDE DEF e
  <2>2. IsSeq([files EXCEPT ![run[p].file] = e]) /\ Len([files EXCEPT ![run[p].file] = e]) = Len(files)
      BY <1>1, WriteFile
  <2>3. QED
      BY <2>1, <2>2
<1>3. CASE SizeFile(p)
  <2> DEFINE r == [run[p] EXCEPT !.pc = "read", !.size = Len(files[run[p].file])]
  <2>1. DOMAIN r = Fields /\ r.pc = "read" /\ r.file = run[p].file
      BY <1>1 DEF Fields
  <2>2. run[p].pc = "size" /\ run' = [run EXCEPT ![p] = r] /\ UNCHANGED <<path, files, temps, orphans>>
      BY <1>3 DEF SizeFile, At, Goes
  <2>3. QED
      BY <1>1, <2>1, <2>2, CallGoesOn DEF Writes
<1>4. CASE WritePiece(p)
  <2>1. PICK n : \/ run' = [run EXCEPT ![p] = [run[p] EXCEPT !.buffer = run[p].buffer \o SubSeq(run[p].rest, 1, n),
                                                             !.rest = SubSeq(run[p].rest, n + 1, Len(run[p].rest))]]
                 \/ run' = [run EXCEPT ![p] = [run[p] EXCEPT !.buffer = SubSeq(run[p].rest, 1, n),
                                                             !.rest = SubSeq(run[p].rest, n + 1, Len(run[p].rest))]]
      BY <1>4 DEF WritePiece, Goes
  <2>2. PICK b, t : run' = [run EXCEPT ![p] = [run[p] EXCEPT !.buffer = b, !.rest = t]]
      BY <2>1
  <2> DEFINE r == [run[p] EXCEPT !.buffer = b, !.rest = t]
  <2>3. DOMAIN r = Fields /\ r.pc = run[p].pc /\ r.file = run[p].file
      BY <1>1 DEF Fields
  <2>4. IsSeq(files') /\ Len(files') = Len(files) /\ UNCHANGED <<path, temps, orphans>>
      BY <1>1, <1>2, <1>4 DEF WritePiece
  <2>5. QED
      BY <2>2, <2>3, <2>4, CallGoesOn
<1>5. CASE WriteFails(p)
  <2> DEFINE r == [run[p] EXCEPT !.pc = "close", !.ok = FALSE]
  <2>1. DOMAIN r = Fields /\ r.pc = "close" /\ r.file = run[p].file
      BY <1>1 DEF Fields
  <2>2. run[p].pc = "write" /\ run' = [run EXCEPT ![p] = r] /\ UNCHANGED <<path, files, temps, orphans>>
      BY <1>5 DEF WriteFails, At, Goes
  <2>3. QED
      BY <1>1, <2>1, <2>2, CallGoesOn DEF Writes
<1>6. CASE Flush(p)
  <2> DEFINE r == [Flushed(p) EXCEPT !.pc = "close"]
  <2>1. DOMAIN r = Fields /\ r.pc = "close" /\ r.file = run[p].file
      BY <1>1 DEF Fields, Flushed
  <2>2. run[p].pc = "write" /\ run' = [run EXCEPT ![p] = r] /\ UNCHANGED <<path, temps, orphans>>
      BY <1>6 DEF Flush, At, Goes
  <2>3. IsSeq(files') /\ Len(files') = Len(files)
      BY <1>2, <1>6 DEF Flush
  <2>4. QED
      BY <2>1, <2>2, <2>3, CallGoesOn DEF Writes
<1>7. CASE FlushFails(p)
  <2> DEFINE r == [Flushed(p) EXCEPT !.pc = "close", !.ok = FALSE]
  <2>1. DOMAIN r = Fields /\ r.pc = "close" /\ r.file = run[p].file
      BY <1>1 DEF Fields, Flushed
  <2>2. run[p].pc = "write" /\ run' = [run EXCEPT ![p] = r] /\ UNCHANGED <<path, temps, orphans>>
      BY <1>7 DEF FlushFails, At, Goes
  <2>3. IsSeq(files') /\ Len(files') = Len(files)
      BY <1>2, <1>7 DEF FlushFails
  <2>4. QED
      BY <2>1, <2>2, <2>3, CallGoesOn DEF Writes
<1>8. CASE Close(p)
  <2>1. PICK ok \in BOOLEAN :
            run' = [run EXCEPT ![p] = [Flushed(p) EXCEPT !.pc = IF ok THEN "rename" ELSE "remove", !.ok = ok]]
      BY <1>8 DEF Close, Goes, At
  <2> DEFINE r == [Flushed(p) EXCEPT !.pc = IF ok THEN "rename" ELSE "remove", !.ok = ok]
  <2>2. DOMAIN r = Fields /\ r.pc \in {"rename", "remove"} /\ r.file = run[p].file
      BY <1>1 DEF Fields, Flushed
  <2>3. run[p].pc = "close" /\ UNCHANGED <<path, temps, orphans>>
      BY <1>8 DEF Close, At
  <2>4. IsSeq(files') /\ Len(files') = Len(files)
      BY <1>2, <1>8 DEF Close
  <2>5. QED
      BY <2>1, <2>2, <2>3, <2>4, CallGoesOn DEF Writes
<1>9. CASE RenameFails(p)
  <2> DEFINE r == [run[p] EXCEPT !.pc = "remove", !.ok = FALSE]
  <2>1. DOMAIN r = Fields /\ r.pc = "remove" /\ r.file = run[p].file
      BY <1>1 DEF Fields
  <2>2. run[p].pc = "rename" /\ run' = [run EXCEPT ![p] = r] /\ UNCHANGED <<path, files, temps, orphans>>
      BY <1>9 DEF RenameFails, At, Goes
  <2>3. QED
      BY <1>1, <2>1, <2>2, CallGoesOn DEF Writes
<1>10. QED
    BY <1>3, <1>4, <1>5, <1>6, <1>7, <1>8, <1>9

\* A call begins, or one that has no file of its own ends.
LEMMA OthersGoOn ==
    ASSUME Own, NEW p \in Procs, Write(p) \/ OpenFile(p) \/ ReadFile(p) \/ ReadFails(p)
    PROVE  Own'
<1>1. 0 \notin temps /\ 0 \in 0..Len(files) /\ path \in 0..Len(files) /\ path \notin temps
  <2>1. temps \subseteq 1..Len(files) /\ path \in 0..Len(files) /\ path \notin temps /\ IsSeq(files)
      BY DEF Own
  <2>2. Len(files) \in Nat
      BY <2>1, AppendFile
  <2>3. QED
      BY <2>1, <2>2
<1>2. CASE Write(p)
  <2>1. PICK rest, text : run' = [run EXCEPT ![p] = [Idle EXCEPT !.pc = "create", !.rest = rest, !.text = text]]
      BY <1>2 DEF Write, Goes
  <2> DEFINE r == [Idle EXCEPT !.pc = "create", !.rest = rest, !.text = text]
  <2>2. DOMAIN r = Fields /\ r.pc = "create" /\ r.file = 0
      BY DEF Idle, Fields
  <2>3. run[p].pc = "idle" /\ UNCHANGED <<path, files, temps, orphans>>
      BY <1>2 DEF Write, At
  <2>4. QED
      BY <1>1, <2>1, <2>2, <2>3, OtherCall DEF Writes
<1>3. CASE OpenFile(p)
  <2> DEFINE r == [Idle EXCEPT !.pc = "size", !.file = path]
  <2>1. DOMAIN r = Fields /\ r.pc = "size" /\ r.file = path
      BY DEF Idle, Fields
  <2>2. run[p].pc = "idle" /\ run' = [run EXCEPT ![p] = r] /\ UNCHANGED <<path, files, temps, orphans>>
      BY <1>3 DEF OpenFile, At, Goes
  <2>3. QED
      BY <1>1, <2>1, <2>2, OtherCall DEF Writes
<1>4. CASE ReadFile(p) \/ ReadFails(p)
  <2>1. run[p].pc \in {"size", "read"} /\ run' = [run EXCEPT ![p] = Idle] /\ UNCHANGED <<path, files, temps, orphans>>
      BY <1>4 DEF ReadFile, ReadFails, At, Returns, Goes
  <2>2. QED
      BY <1>1, <2>1, IdleFields, OtherCall DEF Writes
<1>5. QED
    BY <1>2, <1>3, <1>4

\* A file is made, or could not be.
LEMMA FilesAreMade ==
    ASSUME Own, NEW p \in Procs, CreateTemp(p) \/ CreateFails(p)
    PROVE  Own'
<1>1. DOMAIN run[p] = Fields /\ IsSeq(files) /\ temps \subseteq 1..Len(files)
    BY DEF Own
<1>2. CASE CreateTemp(p)
  <2> DEFINE r == [run[p] EXCEPT !.pc = "write", !.file = Len(files')]
  <2>1. DOMAIN r = Fields /\ r.pc = "write" /\ r.file = Len(files')
      BY <1>1 DEF Fields
  <2>2. /\ run[p].pc = "create" /\ run' = [run EXCEPT ![p] = r] /\ files' = Append(files, <<>>)
        /\ temps' = temps \union {Len(files')} /\ UNCHANGED <<path, orphans>>
      BY <1>2 DEF CreateTemp, NewFile, At, Goes
  <2>3. QED
      BY <2>1, <2>2, FileIsMade DEF Writes
<1>3. CASE CreateFails(p)
  <2>1. run[p].pc = "create" /\ run' = [run EXCEPT ![p] = Idle] /\ UNCHANGED path
      BY <1>3 DEF CreateFails, At, Returns, Goes
  <2>2. CASE UNCHANGED <<files, temps, orphans>>
    <3>1. 0 \notin temps /\ 0 \in 0..Len(files)
        BY <1>1, AppendFile
    <3>2. QED
        BY <2>1, <2>2, <3>1, IdleFields, OtherCall DEF Writes
  <2>3. CASE /\ files' = Append(files, <<>>) /\ temps' = temps \union {Len(files')}
             /\ orphans' = orphans \union {Len(files')}
      BY <2>1, <2>3, IdleFields, FileIsMade DEF Writes
  <2>4. QED
      BY <1>3, <2>2, <2>3 DEF CreateFails
<1>4. QED
    BY <1>2, <1>3

\* A writer returns, or dies; others that die have no file of their own.
LEMMA CallsEnd ==
    ASSUME Own, NEW p \in Procs, RemoveTemp(p) \/ RemoveFails(p) \/ Rename(p) \/ Crash(p)
    PROVE  Own'
<1>1. DOMAIN run[p] = Fields /\ IsSeq(files) /\ temps \subseteq 1..Len(files)
    BY DEF Own
<1>2. CASE RemoveTemp(p)
  <2>1. /\ run[p].pc = "remove" /\ run' = [run EXCEPT ![p] = Idle] /\ temps' = temps \ {run[p].file}
        /\ files' = [files EXCEPT ![run[p].file] = <<>>] /\ UNCHANGED <<path, orphans>>
      BY <1>2 DEF RemoveTemp, Unnamed, At, Returns, Goes
  <2>2. IsSeq(files') /\ Len(files') = Len(files)
      BY <1>1, <2>1, WriteFile
  <2>3. QED
      BY <2>1, <2>2, IdleFields, WriterEnds DEF Writes
<1>3. CASE Rename(p)
  <2>1. /\ run[p].pc = "rename" /\ run' = [run EXCEPT ![p] = Idle] /\ temps' = temps \ {run[p].file}
        /\ path' = run[p].file /\ UNCHANGED <<files, orphans>>
      BY <1>3 DEF Rename, At, Returns, Goes
  <2>2. QED
      BY <1>1, <2>1, IdleFields, WriterEnds DEF Writes
<1>4. CASE Crash(p)
  <2> DEFINE r == [Idle EXCEPT !.pc = "dead"]
  <2>1. DOMAIN r = Fields /\ r.pc = "dead" /\ r.file = 0
      BY DEF Idle, Fields
  <2>2. /\ run' = [run EXCEPT ![p] = r] /\ orphans' = orphans \union (temps \intersect {run[p].file})
        /\ UNCHANGED <<path, files, temps>>
      BY <1>4 DEF Crash, Goes
  <2>3. CASE run[p].pc \in Writes
    <3>1. run[p].file \in temps
        BY <2>3 DEF Own, Writers
    <3>2. orphans' = orphans \union {run[p].file}
        BY <2>2, <3>1
    <3>3. QED
        BY <1>1, <2>1, <2>2, <2>3, <3>2, WriterEnds DEF Writes
  <2>4. CASE run[p].pc \notin Writes
    <3>1. run[p].file \notin temps
        BY <2>4 DEF Own
    <3>2. UNCHANGED orphans
        BY <2>2, <3>1
    <3>3. 0 \notin temps /\ 0 \in 0..Len(files)
        BY <1>1, AppendFile
    <3>4. QED
        BY <2>1, <2>2, <2>4, <3>2, <3>3, OtherCall DEF Writes
  <2>5. QED
      BY <2>3, <2>4
<1>5. CASE RemoveFails(p)
  <2>1. /\ run[p].pc = "remove" /\ run' = [run EXCEPT ![p] = Idle] /\ orphans' = orphans \union {run[p].file}
        /\ UNCHANGED <<path, files, temps>>
      BY <1>5 DEF RemoveFails, At, Returns, Goes
  <2>2. QED
      BY <1>1, <2>1, IdleFields, WriterEnds DEF Writes
<1>6. QED
    BY <1>2, <1>3, <1>4, <1>5

LEMMA OwnsForever == Spec => []Own
<1>1. Own /\ [Next]_vars => Own'
  <2> SUFFICES ASSUME Own, [Next]_vars
               PROVE  Own'
      OBVIOUS
  <2>1. CASE UNCHANGED vars
      BY <2>1 DEF vars, Own, Writers
  <2>2. CASE Next
    <3>1. PICK p \in Procs :
             \/ Write(p) \/ CreateTemp(p) \/ CreateFails(p) \/ WritePiece(p) \/ WriteFails(p) \/ Flush(p) \/ FlushFails(p)
             \/ Close(p) \/ RemoveTemp(p) \/ RemoveFails(p) \/ Rename(p) \/ RenameFails(p)
             \/ OpenFile(p) \/ SizeFile(p) \/ ReadFile(p) \/ ReadFails(p) \/ Crash(p)
        BY <2>2 DEF Next
    <3>2. QED
        BY <3>1, CallsGoOn, OthersGoOn, FilesAreMade, CallsEnd
  <2>3. QED
      BY <2>1, <2>2
<1>2. QED
    BY <1>1, InitOwns, PTL DEF Spec

-----------------------------------------------------------------------------
(* The theorems.                                                           *)

\* However many processes read and write: a file with a temporary name belongs to a
\* call of gtext_yaml_write_file in progress, or was left in one of three ways, which
\* are an fdopen that failed on it, a remove that failed, and the end of the process.
\* After every other failure (of the writer, fwrite, fflush, fclose or rename) a call
\* that returned has left none.  The file that has the path is never among them.
THEOREM TempsAlwaysAccountedFor == Spec => []TempsAccountedFor
<1>1. Own => TempsAccountedFor
    BY DEF Own, TempsAccountedFor, Writers, Writes
<1>2. QED
    BY <1>1, OwnsForever, PTL

\* What a reader may have open: the file that has the path, and the file it
\* opened there.
Readable == {path} \union {run[p].file : p \in {q \in Procs : run[q].pc \notin Writes}}
ReadableStays == \A f \in Readable \ {0} : files'[f] = files[f]

\* A file that could be opened by its path, now or when a reader opened it, never
\* changes: it is written completely before it gets the path, and replaced, not
\* overwritten, after it.  This is why reads are atomic.
THEOREM ReadableIsFinal == Spec => [][ReadableStays]_vars
<1>1. Own /\ [Next]_vars => [ReadableStays]_vars
  <2> SUFFICES ASSUME Own, Next, NEW f \in Readable \ {0}
               PROVE  files'[f] = files[f]
      BY DEF ReadableStays
  <2>1. IsSeq(files) /\ f \in 1..Len(files) /\ f \notin temps
    <3>1. IsSeq(files) /\ Len(files) \in Nat /\ f \in 0..Len(files) /\ f \notin temps
        BY AppendFile DEF Own, Readable
    <3>2. QED
        BY <3>1
  <2>2. \A p \in Procs : run[p].pc \in Writes => run[p].file # f
      BY <2>1 DEF Own, Writers
  <2>3. ASSUME NEW p \in Procs, run[p].pc \in Writes, NEW e, files' = [files EXCEPT ![run[p].file] = e]
        PROVE  files'[f] = files[f]
      BY <2>1, <2>2, <2>3, WriteFile
  <2>4. PICK p \in Procs :
           \/ Write(p) \/ CreateTemp(p) \/ CreateFails(p) \/ WritePiece(p) \/ WriteFails(p) \/ Flush(p) \/ FlushFails(p)
           \/ Close(p) \/ RemoveTemp(p) \/ RemoveFails(p) \/ Rename(p) \/ RenameFails(p)
           \/ OpenFile(p) \/ SizeFile(p) \/ ReadFile(p) \/ ReadFails(p) \/ Crash(p)
      BY DEF Next
  <2>5. CASE CreateTemp(p) \/ CreateFails(p)
    <3>1. UNCHANGED files \/ files' = Append(files, <<>>)
        BY <2>5 DEF CreateTemp, NewFile, CreateFails
    <3>2. QED
        BY <2>1, <3>1, AppendFile
  <2>6. CASE WritePiece(p) \/ Flush(p) \/ FlushFails(p) \/ Close(p)
    <3>1. run[p].pc \in Writes
        BY <2>6 DEF WritePiece, Flush, FlushFails, Close, At, Writes
    <3>2. UNCHANGED files \/ \E n : Stored(p, n)
        BY <2>6 DEF WritePiece, Flush, FlushFails, Close
    <3>3. ASSUME NEW n, Stored(p, n)
          PROVE  files'[f] = files[f]
      <4> DEFINE e == files[run[p].file] \o SubSeq(run[p].buffer, 1, n)
      <4>1. files' = [files EXCEPT ![run[p].file] = e]
          BY <3>3 DEF Stored
      <4>2. QED
          BY <2>3, <3>1, <4>1
    <3>4. QED
        BY <3>2, <3>3
  <2>7. CASE RemoveTemp(p)
    <3>1. run[p].pc \in Writes /\ files' = [files EXCEPT ![run[p].file] = <<>>]
        BY <2>7 DEF RemoveTemp, At, Writes
    <3>2. QED
        BY <2>3, <3>1
  <2>8. CASE \/ Write(p) \/ WriteFails(p) \/ RemoveFails(p) \/ Rename(p) \/ RenameFails(p) \/ OpenFile(p) \/ SizeFile(p)
             \/ ReadFile(p) \/ ReadFails(p) \/ Crash(p)
      BY <2>8 DEF Write, WriteFails, RemoveFails, Rename, RenameFails, OpenFile, SizeFile, ReadFile, ReadFails, Crash
  <2>9. QED
      BY <2>4, <2>5, <2>6, <2>7, <2>8
<1>2. QED
    BY <1>1, OwnsForever, PTL DEF Spec

-----------------------------------------------------------------------------
(* Reads and writes are atomic.                                            *)

Chars == Letters \union {"\r", "\n"}
Texts == {Rendered(d, n) : d \in Docs, n \in Newlines}

\* The writer's text of lines is a text, and the parser reads the lines and the
\* newline back from it.
LEMMA TextOf ==
    ASSUME NEW d \in Docs, NEW n \in Newlines
    PROVE  /\ d \in Seq(Chars) /\ Len(d) \in Nat /\ Len(d) > 0
           /\ \A k \in 1..Len(d) : d[k] \in Chars /\ d[k] \notin {"\r", "\n"}
           /\ d = [k \in 1..Len(d) |-> d[k]]
           /\ Len(n) \in {1, 2} /\ \A k \in 1..Len(n) : n[k] \in Chars
<1>1. d \in Seq(Letters) /\ d # <<>>
    BY DocsAssumption
<1>2. Len(d) \in Nat /\ DOMAIN d = 1..Len(d) /\ \A k \in 1..Len(d) : d[k] \in Letters
    BY <1>1, LenProperties, ElementOfSeq
<1>3. d = [k \in 1..Len(d) |-> d[k]]
    BY <1>1, <1>2
<1>4. Len(d) # 0
    BY <1>1, EmptySeq
<1>5. [k \in 1..Len(d) |-> d[k]] \in Seq(Chars)
    BY <1>2, TupleIsSeq DEF Chars
<1>7. \A k \in 1..Len(d) : d[k] \in Chars /\ d[k] \notin {"\r", "\n"}
    BY <1>2, DocsAssumption DEF Chars
<1>6. Len(n) \in {1, 2} /\ \A k \in 1..Len(n) : n[k] \in Chars
  <2>1. CASE n = LF
    <3>1. Len(n) = 1 /\ n[1] = "\n"
        BY <2>1 DEF LF
    <3>2. n[1] \in Chars
        BY <3>1 DEF Chars
    <3>3. \A k \in 1..Len(n) : k = 1
        BY <3>1
    <3> QED
        BY <3>1, <3>2, <3>3
  <2>2. CASE n = CR
    <3>1. Len(n) = 1 /\ n[1] = "\r"
        BY <2>2 DEF CR
    <3>2. n[1] \in Chars
        BY <3>1 DEF Chars
    <3>3. \A k \in 1..Len(n) : k = 1
        BY <3>1
    <3> QED
        BY <3>1, <3>2, <3>3
  <2>3. CASE n = CRLF
    <3>1. Len(n) = 2 /\ n[1] = "\r" /\ n[2] = "\n"
        BY <2>3 DEF CRLF
    <3>2. n[1] \in Chars /\ n[2] \in Chars
        BY <3>1 DEF Chars
    <3>3. \A k \in 1..Len(n) : k = 1 \/ k = 2
        BY <3>1
    <3> QED
        BY <3>1, <3>2, <3>3
  <2> QED
      BY <2>1, <2>2, <2>3 DEF Newlines
<1> QED
    BY <1>1, <1>2, <1>3, <1>4, <1>5, <1>6, <1>7

LEMMA RenderedText ==
    ASSUME NEW d \in Docs, NEW n \in Newlines
    PROVE  /\ Rendered(d, n) \in Seq(Chars) /\ Rendered(d, n) # <<>>
           /\ Len(Rendered(d, n)) = (1 + Len(n)) * Len(d)
           /\ \A k \in 1..Len(d) : Rendered(d, n)[1 + (1 + Len(n)) * (k - 1)] = d[k]
           /\ \A j \in 1..Len(n) : Rendered(d, n)[1 + j] = n[j]
<1> DEFINE t(step) == [i \in 1..(step * Len(d)) |->
                          IF (i - 1) % step = 0 THEN d[1 + (i - 1) \div step] ELSE n[(i - 1) % step]]
           Good(step) == /\ t(step) \in Seq(Chars) /\ Len(t(step)) = step * Len(d)
                         /\ \A k \in 1..Len(d) : t(step)[1 + step * (k - 1)] = d[k]
                         /\ \A j \in 1..(step - 1) : t(step)[1 + j] = n[j]
<1>1. Rendered(d, n) = t(1 + Len(n))
    BY DEF Rendered
<1>2. /\ Len(d) \in Nat /\ Len(d) > 0 /\ \A k \in 1..Len(d) : d[k] \in Chars
      /\ Len(n) \in {1, 2} /\ \A k \in 1..Len(n) : n[k] \in Chars
    BY TextOf
<1>3. ASSUME NEW step \in {2, 3}, 1 + Len(n) = step
      PROVE  Good(step)
  <2>1. \A i \in 1..(step * Len(d)) :
           /\ (i - 1) % step \in 0..(step - 1)
           /\ 1 + (i - 1) \div step \in 1..Len(d)
      BY <1>2, <1>3
  <2>2. \A i \in 1..(step * Len(d)) :
           (IF (i - 1) % step = 0 THEN d[1 + (i - 1) \div step] ELSE n[(i - 1) % step]) \in Chars
    <3> SUFFICES ASSUME NEW i \in 1..(step * Len(d))
                 PROVE  (IF (i - 1) % step = 0 THEN d[1 + (i - 1) \div step] ELSE n[(i - 1) % step]) \in Chars
        OBVIOUS
    <3>1. CASE (i - 1) % step = 0
        BY <1>2, <2>1, <3>1
    <3>2. CASE (i - 1) % step # 0
      <4>1. (i - 1) % step \in 1..Len(n)
          BY <1>2, <1>3, <2>1, <3>2
      <4> QED
          BY <1>2, <3>2, <4>1
    <3> QED
        BY <3>1, <3>2
  <2>3. t(step) \in [1..(step * Len(d)) -> Chars] /\ step * Len(d) \in Nat
      BY <1>2, <1>3, <2>2
  <2>4. t(step) \in Seq(Chars) /\ Len(t(step)) = step * Len(d)
      BY <2>3, TupleIsSeq
  <2>5. ASSUME NEW k \in 1..Len(d)
        PROVE  t(step)[1 + step * (k - 1)] = d[k]
    <3>1. /\ 1 + step * (k - 1) \in 1..(step * Len(d))
          /\ ((1 + step * (k - 1)) - 1) % step = 0 /\ ((1 + step * (k - 1)) - 1) \div step = k - 1
        BY <1>2, <1>3
    <3>2. t(step)[1 + step * (k - 1)] = d[1 + (k - 1)]
        BY <3>1
    <3> QED
        BY <1>2, <3>2
  <2>6. ASSUME NEW j \in 1..(step - 1)
        PROVE  t(step)[1 + j] = n[j]
    <3>1. 1 + j \in 1..(step * Len(d)) /\ ((1 + j) - 1) % step = j /\ j # 0
        BY <1>2, <1>3
    <3> QED
        BY <3>1
  <2> QED
      BY <2>4, <2>5, <2>6
<1>4. Good(1 + Len(n))
  <2>1. PICK l \in {1, 2} : Len(n) = l
      BY <1>2
  <2>2. 1 + l \in {2, 3}
      OBVIOUS
  <2> QED
      BY <1>3, <2>1, <2>2
<1>5. (1 + Len(n)) * Len(d) > 0 /\ (1 + Len(n)) - 1 = Len(n)
    BY <1>2
<1> HIDE DEF t
<1>6. Rendered(d, n) # <<>>
    BY <1>1, <1>4, <1>5
<1> QED
    BY <1>1, <1>4, <1>5, <1>6

\* The first newline of a text whose first character is none and whose second
\* starts one.
LEMMA DetectedAtTwo ==
    ASSUME NEW t \in Seq(Chars), Len(t) >= 2, t[1] \notin {"\r", "\n"}, t[2] \in {"\r", "\n"}
    PROVE  Detected(t) = IF t[2] = "\n" THEN LF ELSE IF 2 < Len(t) /\ t[3] = "\n" THEN CRLF ELSE CR
<1> DEFINE First(k) == k \in DOMAIN t /\ t[k] \in {"\r", "\n"} /\ \A j \in 1..(k - 1) : t[j] \notin {"\r", "\n"}
<1>1. Len(t) \in Nat /\ DOMAIN t = 1..Len(t)
    BY LenProperties
<1>2. First(2)
    BY <1>1
<1>3. \A k \in DOMAIN t : First(k) => k = 2
    BY <1>1
<1>4. (CHOOSE k \in DOMAIN t : t[k] \in {"\r", "\n"} /\ \A j \in 1..(k - 1) : t[j] \notin {"\r", "\n"}) = 2
    BY <1>2, <1>3
<1>5. ~ \A i \in DOMAIN t : t[i] \notin {"\r", "\n"}
    BY <1>2
<1>6. Detected(t) = CASE t[2] = "\n"                                   -> LF
                      [] t[2] = "\r" /\ 2 < Len(t) /\ t[2 + 1] = "\n" -> CRLF
                      [] OTHER                                          -> CR
    BY <1>4, <1>5 DEF Detected
<1> QED
    BY <1>6

LEMMA TextIsRead ==
    ASSUME NEW d \in Docs, NEW n \in Newlines
    PROVE  Parsed(Rendered(d, n)) = Document(d, n)
<1>1. PICK t : t = Rendered(d, n)
    OBVIOUS
<1>2. /\ t \in Seq(Chars) /\ Len(t) = (1 + Len(n)) * Len(d)
      /\ \A k \in 1..Len(d) : t[1 + (1 + Len(n)) * (k - 1)] = d[k]
      /\ \A j \in 1..Len(n) : t[1 + j] = n[j]
    BY <1>1, RenderedText
<1>3. /\ Len(d) \in Nat /\ Len(d) > 0 /\ \A k \in 1..Len(d) : d[k] \notin {"\r", "\n"}
      /\ d = [k \in 1..Len(d) |-> d[k]]
    BY TextOf
<1>4. ASSUME NEW step \in {2, 3}, step = 1 + Len(n)
      PROVE  Lines(t, step) = d
  <2>1. (Len(t) + step - 1) \div step = Len(d)
    <3>1. Len(t) = step * Len(d)
        BY <1>2, <1>4
    <3>2. (step * Len(d) + step - 1) \div step = Len(d)
      <4>1. \A l \in Nat : (2 * l + 2 - 1) \div 2 = l /\ (3 * l + 3 - 1) \div 3 = l
          OBVIOUS
      <4> QED
          BY <1>3, <4>1
    <3> QED
        BY <3>1, <3>2
  <2>2. \A k \in 1..Len(d) : t[1 + step * (k - 1)] = d[k]
      BY <1>2, <1>4
  <2> QED
      BY <1>3, <2>1, <2>2 DEF Lines
<1>5. t[1] \notin {"\r", "\n"}
  <2>1. 1 \in 1..Len(d) /\ 1 + (1 + Len(n)) * (1 - 1) = 1
      BY <1>3, TextOf
  <2> QED
      BY <1>2, <1>3, <2>1
<1>6. CASE n = CRLF
  <2>1. Len(n) = 2 /\ n[1] = "\r" /\ n[2] = "\n"
      BY <1>6 DEF CRLF
  <2>2. t[2] = "\r" /\ t[3] = "\n" /\ Len(t) > 2
      BY <1>2, <1>3, <2>1
  <2>3. Detected(t) = CRLF
      BY <1>2, <1>5, <2>2, DetectedAtTwo
  <2>4. Lines(t, 3) = d
      BY <1>4, <2>1
  <2> QED
      BY <1>1, <1>6, <2>3, <2>4, OptionsAssumption DEF Parsed, Newlines
<1>7. CASE n = LF
  <2>1. Len(n) = 1 /\ n[1] = "\n"
      BY <1>7 DEF LF
  <2>2. t[2] = "\n" /\ Len(t) >= 2
      BY <1>2, <1>3, <2>1
  <2>3. Detected(t) = LF
      BY <1>2, <1>5, <2>2, DetectedAtTwo
  <2>4. Lines(t, 2) = d
      BY <1>4, <2>1
  <2>5. LF # CRLF
      BY DEF LF, CRLF
  <2> QED
      BY <1>1, <1>7, <2>3, <2>4, <2>5, OptionsAssumption DEF Parsed, Newlines
<1>8. CASE n = CR
  <2>1. Len(n) = 1 /\ n[1] = "\r"
      BY <1>8 DEF CR
  <2>2. t[2] = "\r" /\ Len(t) >= 2
      BY <1>2, <1>3, <2>1
  <2>3. ~(2 < Len(t) /\ t[3] = "\n")
    <3>1. ASSUME 2 < Len(t)
          PROVE  t[3] # "\n"
      <4>1. 2 \in 1..Len(d) /\ 1 + (1 + Len(n)) * (2 - 1) = 3
          BY <1>2, <1>3, <2>1, <3>1
      <4> QED
          BY <1>2, <1>3, <4>1
    <3> QED
        BY <3>1
  <2>4. Detected(t) = CR
      BY <1>2, <1>5, <2>2, <2>3, DetectedAtTwo
  <2>5. Lines(t, 2) = d
      BY <1>4, <2>1
  <2>6. CR # CRLF
      BY DEF CR, CRLF
  <2> QED
      BY <1>1, <1>8, <2>4, <2>5, <2>6, OptionsAssumption DEF Parsed, Newlines
<1> QED
    BY <1>6, <1>7, <1>8 DEF Newlines

\* A whole text is read as a document.
LEMMA TextsAreRead ==
    ASSUME NEW t \in Texts
    PROVE  t \in Seq(Chars) /\ t # <<>> /\ Parsed(t) \in Values /\ Parsed(t) # NoDoc
<1>1. PICK d \in Docs, n \in Newlines : t = Rendered(d, n)
    BY DEF Texts
<1>2. Parsed(t) = Document(d, n)
    BY <1>1, TextIsRead
<1> QED
    BY <1>1, <1>2, RenderedText, NoDocAssumption DEF Values
\* What the file of a writer will hold.
Joined(file, buffer, rest) == file \o (buffer \o rest)

\* What is true of a call c while the files hold what they hold in fs: a writer that
\* met no error has in its file and its buffer what it has handed on of its text.
CallOk(c, fs) ==
    /\ c.rest \in Seq(Chars) /\ c.buffer \in Seq(Chars) /\ c.ok \in BOOLEAN
    /\ IF c.pc \in Writes \union {"create"} THEN c.text \in Texts ELSE c.text = <<>> /\ c.ok
    /\ c.pc \in {"size", "read"} => c.file # 0 /\ fs[c.file] \in Texts
    /\ c.pc = "read"             => c.size = Len(fs[c.file])
    /\ c.pc = "create"           => c.ok /\ c.rest = c.text /\ c.buffer = <<>>
    /\ c.pc = "write"            => c.ok /\ Joined(fs[c.file], c.buffer, c.rest) = c.text
    /\ c.pc = "close" /\ c.ok    => c.buffer = <<>> /\ fs[c.file] = c.text
    /\ c.pc = "rename"           => c.ok /\ fs[c.file] = c.text

\* The file that has the path is a whole text.
Whole ==
    /\ files \in Seq(Seq(Chars))
    /\ path # 0 => files[path] \in Texts
    /\ DOMAIN held = Procs /\ \A p \in Procs : held[p] \in Values \union {NoDoc}
    /\ \A p \in Procs : CallOk(run[p], files)
\* A call depends on its own file only.
LEMMA CallKeeps ==
    ASSUME NEW c, NEW fs, NEW gs, CallOk(c, fs),
           c.pc \in Writes \union {"size", "read"} => gs[c.file] = fs[c.file]
    PROVE  CallOk(c, gs)
BY DEF CallOk, Writes

\* What a call is about to write and to return, as the abstract register sees it.
WantOf(c)     == IF c.text = <<>> \/ ~c.ok THEN NoDoc ELSE Parsed(c.text)
SeenOf(c, fs) == IF c.pc \in {"size", "read"} THEN Parsed(fs[c.file]) ELSE NoDoc

\* A step of p changes its call and at most its own file.
Moves(p, r) ==
    /\ run' = [run EXCEPT ![p] = r]
    /\ \/ UNCHANGED files
       \/ files' = Append(files, <<>>)
       \/ run[p].pc \in Writes /\ \E e \in Seq(Chars) : files' = [files EXCEPT ![run[p].file] = e]

LEMMA FilesAfter ==
    ASSUME Own, Whole, NEW p \in Procs, NEW r, Moves(p, r)
    PROVE  /\ files' \in Seq(Seq(Chars)) /\ Len(files) \in Nat
           /\ \A f \in 1..Len(files) : files'[f] = files[f] \/ (run[p].pc \in Writes /\ f = run[p].file)
<1>1. files \in Seq(Seq(Chars)) /\ Len(files) \in Nat /\ IsSeq(files)
    BY LenProperties DEF Whole, Own
<1>2. <<>> \in Seq(Chars)
    BY EmptySeq
<1>3. CASE UNCHANGED files
    BY <1>1, <1>3
<1>4. CASE files' = Append(files, <<>>)
    BY <1>1, <1>2, <1>4, AppendProperties
<1>5. CASE run[p].pc \in Writes /\ \E e \in Seq(Chars) : files' = [files EXCEPT ![run[p].file] = e]
  <2>1. PICK e \in Seq(Chars) : files' = [files EXCEPT ![run[p].file] = e]
      BY <1>5
  <2>2. run[p].file \in 1..Len(files)
      BY <1>5 DEF Own, Writers
  <2>3. files' \in Seq(Seq(Chars))
      BY <1>1, <2>1, <2>2, ExceptSeq
  <2>4. \A f \in 1..Len(files) : f # run[p].file => files'[f] = files[f]
      BY <1>1, <2>1, WriteFile
  <2> QED
      BY <1>1, <1>5, <2>3, <2>4
<1> QED
    BY <1>3, <1>4, <1>5 DEF Moves

\* The other calls see nothing of it.
LEMMA OthersSeeNothing ==
    ASSUME Own, Whole, NEW p \in Procs, NEW r, Moves(p, r), NEW q \in Procs, q # p
    PROVE  /\ run'[q] = run[q]
           /\ run[q].pc \in Writes \union {"size", "read"} => files'[run[q].file] = files[run[q].file]
<1>1. run'[q] = run[q]
    BY DEF Moves, Own
<1>2. ASSUME run[q].pc \in Writes
      PROVE  files'[run[q].file] = files[run[q].file]
  <2>1. run[q].file \in 1..Len(files)
      BY <1>2 DEF Own, Writers
  <2>2. run[p].pc \in Writes => run[q].file # run[p].file
      BY <1>2 DEF Own
  <2> QED
      BY <2>1, <2>2, FilesAfter
<1>3. ASSUME run[q].pc \in {"size", "read"}
      PROVE  files'[run[q].file] = files[run[q].file]
  <2>1. run[q].pc \notin Writes
      BY <1>3 DEF Writes
  <2>2. run[q].file \in 0..Len(files) /\ run[q].file # 0
      BY <1>3 DEF Own, Whole, CallOk
  <2>3. run[q].file \in 1..Len(files)
      BY <2>2, FilesAfter
  <2>4. run[p].pc \in Writes => run[q].file # run[p].file
      BY <2>1 DEF Own, Writers
  <2> QED
      BY <2>3, <2>4, FilesAfter
<1> QED
    BY <1>1, <1>2, <1>3

LEMMA AfterStep ==
    ASSUME Own, Whole, NEW p \in Procs, NEW r, Moves(p, r), CallOk(r, files'),
           UNCHANGED path \/ (run[p].pc = "rename" /\ UNCHANGED files /\ path' = run[p].file),
           UNCHANGED held \/ \E v \in Values : held' = [held EXCEPT ![p] = v]
    PROVE  /\ Whole'
           /\ Want' = [Want EXCEPT ![p] = WantOf(r)]
           /\ Seen' = [Seen EXCEPT ![p] = SeenOf(r, files')]
           /\ UNCHANGED path => UNCHANGED Value
           /\ Want[p] = WantOf(run[p]) /\ Seen[p] = SeenOf(run[p], files)
<1>1. run'[p] = r /\ \A q \in Procs : q # p => run'[q] = run[q]
    BY OthersSeeNothing DEF Moves, Own
<1>2. \A q \in Procs : CallOk(run[q], files)
    BY DEF Whole
<1>3. \A q \in Procs : CallOk(run'[q], files')
  <2> SUFFICES ASSUME NEW q \in Procs
               PROVE  CallOk(run'[q], files')
      OBVIOUS
  <2>1. CASE q = p
      BY <1>1, <2>1
  <2>2. CASE q # p
      BY <1>1, <1>2, <2>2, OthersSeeNothing, CallKeeps
  <2> QED
      BY <2>1, <2>2
<1>4. ASSUME UNCHANGED path, path # 0
      PROVE  files'[path] = files[path]
  <2>1. path \in 0..Len(files) /\ Len(files) \in Nat
      BY FilesAfter DEF Own
  <2>2. path \in 1..Len(files)
      BY <1>4, <2>1
  <2>3. run[p].pc \in Writes => path # run[p].file
      BY DEF Own, Writers
  <2> QED
      BY <2>2, <2>3, FilesAfter
<1>5. path' # 0 => files'[path'] \in Texts
  <2>1. CASE UNCHANGED path
      BY <1>4, <2>1 DEF Whole
  <2>2. CASE run[p].pc = "rename" /\ UNCHANGED files /\ path' = run[p].file
    <3>1. CallOk(run[p], files)
        BY <1>2
    <3> QED
        BY <2>2, <3>1 DEF CallOk, Writes
  <2> QED
      BY <2>1, <2>2
<1>6. DOMAIN held' = Procs /\ \A q \in Procs : held'[q] \in Values \union {NoDoc}
    BY DEF Whole
<1>7. Whole'
    BY <1>3, <1>5, <1>6, FilesAfter DEF Whole
<1>8. /\ Want  = [q \in Procs |-> WantOf(run[q])]
      /\ Want' = [q \in Procs |-> WantOf(run'[q])]
    BY DEF Want, WantOf
<1>9. Want' = [Want EXCEPT ![p] = WantOf(r)]
    BY <1>1, <1>8
<1>10. /\ Seen  = [q \in Procs |-> SeenOf(run[q], files)]
       /\ Seen' = [q \in Procs |-> SeenOf(run'[q], files')]
    BY DEF Seen, SeenOf
<1>11. \A q \in Procs : q # p => SeenOf(run'[q], files') = SeenOf(run[q], files)
    BY <1>1, OthersSeeNothing DEF SeenOf
<1>12. Seen' = [Seen EXCEPT ![p] = SeenOf(r, files')]
    BY <1>1, <1>10, <1>11
<1>13. UNCHANGED path => UNCHANGED Value
    BY <1>4 DEF Value
<1> QED
    BY <1>7, <1>8, <1>9, <1>10, <1>12, <1>13

\* The steps that the register does not see, and those where a call of p fails.
LEMMA QuietStep ==
    ASSUME Own, Whole, NEW p \in Procs, NEW r, Moves(p, r), CallOk(r, files'), UNCHANGED path, UNCHANGED held
    PROVE  /\ Whole' /\ UNCHANGED Value
           /\ WantOf(r) = WantOf(run[p]) => UNCHANGED Want
           /\ WantOf(r) = NoDoc => Want' = [Want EXCEPT ![p] = NoDoc]
           /\ SeenOf(r, files') = SeenOf(run[p], files) => UNCHANGED Seen
           /\ SeenOf(r, files') = NoDoc => Seen' = [Seen EXCEPT ![p] = NoDoc]
<1>1. /\ Whole' /\ UNCHANGED Value
      /\ Want' = [Want EXCEPT ![p] = WantOf(r)] /\ Seen' = [Seen EXCEPT ![p] = SeenOf(r, files')]
      /\ Want[p] = WantOf(run[p]) /\ Seen[p] = SeenOf(run[p], files)
    BY AfterStep
<1>2. \E e : Want = [q \in Procs |-> e[q]]
  <2> DEFINE e == Want
  <2>1. Want = [q \in Procs |-> e[q]]
      BY DEF Want
  <2> QED
      BY <2>1
<1>3. \E e : Seen = [q \in Procs |-> e[q]]
  <2> DEFINE e == Seen
  <2>1. Seen = [q \in Procs |-> e[q]]
      BY DEF Seen
  <2> QED
      BY <2>1
<1>4. WantOf(r) = WantOf(run[p]) => UNCHANGED Want
    BY <1>1, <1>2
<1>5. SeenOf(r, files') = SeenOf(run[p], files) => UNCHANGED Seen
    BY <1>1, <1>3
<1> QED
    BY <1>1, <1>4, <1>5

LEMMA SilentStep ==
    ASSUME Own, Whole, NEW p \in Procs, NEW r, Moves(p, r), CallOk(r, files'), UNCHANGED path, UNCHANGED held,
           WantOf(r) = WantOf(run[p]), SeenOf(r, files') = SeenOf(run[p], files)
    PROVE  Whole' /\ [Register!Next]_(Register!vars)
<1>1. Whole' /\ UNCHANGED <<Value, Want, Seen, held>>
    BY QuietStep
<1> QED
    BY <1>1 DEF Register!vars

LEMMA FailStep ==
    ASSUME Own, Whole, NEW p \in Procs, NEW r, Moves(p, r), CallOk(r, files'), UNCHANGED path, UNCHANGED held,
           SeenOf(r, files') = SeenOf(run[p], files), WantOf(r) = NoDoc
    PROVE  Whole' /\ [Register!Next]_(Register!vars)
<1>1. Whole' /\ UNCHANGED <<Value, Seen, held>> /\ Want' = [Want EXCEPT ![p] = NoDoc]
    BY QuietStep
<1>2. Register!Abandon(p)
    BY <1>1 DEF Register!Abandon
<1> QED
    BY <1>1, <1>2 DEF Register!Next

LEMMA ForgetStep ==
    ASSUME Own, Whole, NEW p \in Procs, NEW r, Moves(p, r), CallOk(r, files'), UNCHANGED path, UNCHANGED held,
           SeenOf(r, files') = NoDoc, WantOf(r) = WantOf(run[p])
    PROVE  Whole' /\ [Register!Next]_(Register!vars)
<1>1. Whole' /\ UNCHANGED <<Value, Want, held>> /\ Seen' = [Seen EXCEPT ![p] = NoDoc]
    BY QuietStep
<1>2. Register!Forget(p)
    BY <1>1 DEF Register!Forget
<1> QED
    BY <1>1, <1>2 DEF Register!Next

LEMMA CallFacts ==
    ASSUME Own, Whole, NEW p \in Procs
    PROVE  /\ DOMAIN run[p] = Fields /\ CallOk(run[p], files)
           /\ run[p].rest \in Seq(Chars) /\ run[p].buffer \in Seq(Chars) /\ run[p].ok \in BOOLEAN
           /\ run[p].pc \in Writes \union {"create"} => run[p].text \in Texts /\ run[p].text # <<>>
           /\ run[p].pc \notin Writes \union {"create"} => WantOf(run[p]) = NoDoc
           /\ run[p].pc \notin {"size", "read"} => SeenOf(run[p], files) = NoDoc
           /\ run[p].pc \in Writes => run[p].file \in 1..Len(files) /\ files[run[p].file] \in Seq(Chars)
<1>1. DOMAIN run[p] = Fields /\ CallOk(run[p], files)
    BY DEF Own, Whole
<1>2. run[p].rest \in Seq(Chars) /\ run[p].buffer \in Seq(Chars) /\ run[p].ok \in BOOLEAN
    BY <1>1 DEF CallOk
<1>3. run[p].pc \in Writes \union {"create"} => run[p].text \in Texts /\ run[p].text # <<>>
    BY <1>1, TextsAreRead DEF CallOk
<1>4. run[p].pc \notin Writes \union {"create"} => WantOf(run[p]) = NoDoc
    BY <1>1 DEF CallOk, WantOf
<1>5. run[p].pc \notin {"size", "read"} => SeenOf(run[p], files) = NoDoc
    BY DEF SeenOf
<1>6. run[p].pc \in Writes => run[p].file \in 1..Len(files)
    BY DEF Own, Writers
<1>7. run[p].pc \in Writes => files[run[p].file] \in Seq(Chars)
    BY <1>6, ElementOfSeq DEF Whole
<1> QED
    BY <1>1, <1>2, <1>3, <1>4, <1>5, <1>6, <1>7

\* A call that ended.
Ended(c) == c = Idle \/ c = [Idle EXCEPT !.pc = "dead"]
LEMMA EndedCall ==
    ASSUME NEW c, Ended(c), NEW fs
    PROVE  CallOk(c, fs) /\ WantOf(c) = NoDoc /\ SeenOf(c, fs) = NoDoc
<1>1. /\ c.pc \in {"idle", "dead"} /\ c.rest = <<>> /\ c.buffer = <<>> /\ c.ok = TRUE /\ c.text = <<>>
    BY DEF Ended, Idle
<1>2. <<>> \in Seq(Chars)
    BY EmptySeq
<1> QED
    BY <1>1, <1>2 DEF CallOk, WantOf, SeenOf, Writes

\* What the file of a writer holds after its buffer, or a part of it, was sent to it.
LEMMA StoredFile ==
    ASSUME Own, Whole, NEW p \in Procs, run[p].pc \in Writes, NEW n \in 0..Len(run[p].buffer), Stored(p, n)
    PROVE  /\ \E e \in Seq(Chars) : files' = [files EXCEPT ![run[p].file] = e]
           /\ n = Len(run[p].buffer) => files'[run[p].file] = files[run[p].file] \o run[p].buffer
<1>1. run[p].buffer \in Seq(Chars) /\ run[p].file \in 1..Len(files) /\ files[run[p].file] \in Seq(Chars)
    BY CallFacts
<1>2. PICK b : b = SubSeq(run[p].buffer, 1, n)
    OBVIOUS
<1>3. b \in Seq(Chars)
  <2>1. Len(run[p].buffer) \in Nat /\ \A i \in 1..Len(run[p].buffer) : run[p].buffer[i] \in Chars
      BY <1>1, LenProperties, ElementOfSeq
  <2>2. 1 \in Int /\ n \in Int /\ \A i \in 1..n : run[p].buffer[i] \in Chars
      BY <2>1
  <2> QED
      BY <1>2, <2>2, SubSeqProperties
<1>4. files[run[p].file] \o b \in Seq(Chars)
    BY <1>1, <1>3, ConcatProperties
<1>5. files' = [files EXCEPT ![run[p].file] = files[run[p].file] \o b]
    BY <1>2 DEF Stored
<1>6. files'[run[p].file] = files[run[p].file] \o b
  <2>1. files \in Seq(Seq(Chars))
      BY DEF Whole
  <2>2. run[p].file \in DOMAIN files
      BY <1>1, <2>1, LenProperties
  <2> QED
      BY <1>5, <2>2
<1>7. n = Len(run[p].buffer) => b = run[p].buffer
    BY <1>1, <1>2, SubSeqFull
<1> QED
    BY <1>4, <1>5, <1>6, <1>7

-----------------------------------------------------------------------------
(* gtext_yaml_write_file.                                                  *)

LEMMA WriteBegins ==
    ASSUME Own, Whole, NEW p \in Procs, Write(p)
    PROVE  Whole' /\ [Register!Next]_(Register!vars)
<1>1. PICK doc \in {Document(d, NoNewline) : d \in Docs} \union ({held[p]} \ {NoDoc}), option \in Options :
         run' = [run EXCEPT ![p] = [Idle EXCEPT !.pc = "create", !.rest = Rendered(doc.lines, Newline(doc, option)),
                                                !.text = Rendered(doc.lines, Newline(doc, option))]]
    BY DEF Write, Goes
<1>2. doc.lines \in Docs /\ doc.newline \in Newlines \union {NoNewline}
  <2>1. CASE doc \in {Document(d, NoNewline) : d \in Docs}
      BY <2>1 DEF Document
  <2>2. CASE doc \in {held[p]} \ {NoDoc}
    <3>1. doc \in Values
        BY <2>2 DEF Whole
    <3> QED
        BY <3>1 DEF Values, Document
  <2> QED
      BY <2>1, <2>2
<1>3. Newline(doc, option) \in Newlines
  <2>1. LF \in Newlines
      BY DEF Newlines
  <2> QED
      BY <1>2, <2>1, OptionsAssumption DEF Newline
<1>4. PICK t : t = Rendered(doc.lines, Newline(doc, option))
    OBVIOUS
<1>5. t \in Texts
    BY <1>2, <1>3, <1>4 DEF Texts
<1>6. t \in Seq(Chars) /\ t # <<>> /\ Parsed(t) \in Values /\ Parsed(t) # NoDoc
    BY <1>5, TextsAreRead
<1> DEFINE r == [Idle EXCEPT !.pc = "create", !.rest = t, !.text = t]
<1>7. /\ r.pc = "create" /\ r.rest = t /\ r.text = t /\ r.buffer = <<>> /\ r.ok = TRUE
    BY DEF Idle
<1>8. run' = [run EXCEPT ![p] = r] /\ UNCHANGED <<path, files, held>> /\ run[p].pc = "idle"
    BY <1>1, <1>4 DEF Write, At
<1> HIDE DEF r
<1>9. Moves(p, r)
    BY <1>8 DEF Moves
<1>10. CallOk(r, files')
  <2>1. <<>> \in Seq(Chars)
      BY EmptySeq
  <2> QED
      BY <1>5, <1>6, <1>7, <2>1 DEF CallOk, Writes
<1>11. WantOf(r) = Parsed(t) /\ SeenOf(r, files') = NoDoc
    BY <1>6, <1>7 DEF WantOf, SeenOf
<1>12. WantOf(run[p]) = NoDoc /\ SeenOf(run[p], files) = NoDoc
    BY <1>8, CallFacts DEF Writes
<1>13. /\ Whole' /\ UNCHANGED Value
       /\ Want' = [Want EXCEPT ![p] = Parsed(t)] /\ Want[p] = NoDoc
    BY <1>8, <1>9, <1>10, <1>11, <1>12, AfterStep
<1>14. UNCHANGED Seen
    BY <1>8, <1>9, <1>10, <1>11, <1>12, QuietStep
<1>15. Register!Begin(p)
    BY <1>6, <1>8, <1>13, <1>14 DEF Register!Begin
<1> QED
    BY <1>13, <1>15 DEF Register!Next

LEMMA FileIsCreated ==
    ASSUME Own, Whole, NEW p \in Procs, CreateTemp(p)
    PROVE  Whole' /\ [Register!Next]_(Register!vars)
<1> DEFINE r == [run[p] EXCEPT !.pc = "write", !.file = Len(files')]
<1>1. /\ run[p].pc = "create" /\ run' = [run EXCEPT ![p] = r] /\ files' = Append(files, <<>>)
      /\ UNCHANGED path /\ UNCHANGED held
    BY DEF CreateTemp, NewFile, At, Goes
<1>2. DOMAIN run[p] = Fields /\ CallOk(run[p], files)
    BY CallFacts
<1>3. /\ r.pc = "write" /\ r.file = Len(files') /\ r.rest = run[p].rest /\ r.buffer = run[p].buffer
      /\ r.ok = run[p].ok /\ r.text = run[p].text
    BY <1>2 DEF Fields
<1> HIDE DEF r
<1>4. files'[Len(files')] = <<>>
  <2>1. files \in Seq(Seq(Chars)) /\ <<>> \in Seq(Chars)
      BY EmptySeq DEF Whole
  <2> QED
      BY <1>1, <2>1, AppendProperties, LenProperties
<1>5. Joined(<<>>, <<>>, run[p].rest) = run[p].rest
  <2>1. run[p].rest \in Seq(Chars)
      BY CallFacts
  <2> QED
      BY <2>1, ConcatEmptySeq DEF Joined
<1>6. CallOk(r, files')
    BY <1>1, <1>2, <1>3, <1>4, <1>5 DEF CallOk, Writes
<1>7. WantOf(r) = WantOf(run[p]) /\ SeenOf(r, files') = SeenOf(run[p], files)
    BY <1>1, <1>3 DEF WantOf, SeenOf
<1>8. Moves(p, r)
    BY <1>1 DEF Moves
<1> QED
    BY <1>1, <1>6, <1>7, <1>8, SilentStep

LEMMA CreationFails ==
    ASSUME Own, Whole, NEW p \in Procs, CreateFails(p)
    PROVE  Whole' /\ [Register!Next]_(Register!vars)
<1>1. run[p].pc = "create" /\ run' = [run EXCEPT ![p] = Idle] /\ UNCHANGED path /\ UNCHANGED held
    BY DEF CreateFails, At, Returns, Goes
<1>2. UNCHANGED files \/ files' = Append(files, <<>>)
    BY DEF CreateFails
<1>3. Moves(p, Idle)
    BY <1>1, <1>2 DEF Moves
<1>4. CallOk(Idle, files') /\ WantOf(Idle) = NoDoc /\ SeenOf(Idle, files') = NoDoc
    BY EndedCall DEF Ended
<1>5. SeenOf(run[p], files) = NoDoc
    BY <1>1, CallFacts
<1> QED
    BY <1>1, <1>3, <1>4, <1>5, FailStep

\* A piece is handed on: to the buffer, or to the buffer after the file took what
\* the buffer held.
LEMMA HandedOn ==
    ASSUME NEW s \in Seq(Chars), NEW t \in Seq(Chars), NEW u \in Seq(Chars), NEW v \in Seq(Chars)
    PROVE  /\ Joined(s, t \o u, v) = Joined(s, t, u \o v)
           /\ Joined(s \o t, u, v) = Joined(s, t, u \o v)
           /\ t \o u \in Seq(Chars)
<1>1. (t \o u) \o v = t \o (u \o v)
    BY ConcatAssociative, SMTT(30)
<1>2. u \o v \in Seq(Chars) /\ t \o u \in Seq(Chars)
    BY ConcatProperties
<1>3. ASSUME NEW w \in Seq(Chars)
      PROVE  (s \o t) \o w = s \o (t \o w)
    BY ConcatAssociative, SMTT(30)
<1>4. (s \o t) \o (u \o v) = s \o (t \o (u \o v))
    BY <1>2, <1>3
<1> QED
    BY <1>1, <1>2, <1>4 DEF Joined

\* A writer that goes on with what it has stored, handed on and not.
LEMMA PieceIsWritten ==
    ASSUME Own, Whole, NEW p \in Procs, WritePiece(p)
    PROVE  Whole' /\ [Register!Next]_(Register!vars)
<1>1. run[p].pc = "write" /\ UNCHANGED path /\ UNCHANGED held
    BY DEF WritePiece, At
<1>2. /\ DOMAIN run[p] = Fields /\ CallOk(run[p], files) /\ run[p].rest \in Seq(Chars) /\ run[p].buffer \in Seq(Chars)
      /\ files[run[p].file] \in Seq(Chars)
    BY <1>1, CallFacts DEF Writes
<1>3. PICK n \in 1..Len(run[p].rest) :
         \/ /\ run' = [run EXCEPT ![p] = [run[p] EXCEPT !.buffer = run[p].buffer \o SubSeq(run[p].rest, 1, n),
                                                        !.rest = SubSeq(run[p].rest, n + 1, Len(run[p].rest))]]
            /\ UNCHANGED files
         \/ /\ Stored(p, Len(run[p].buffer))
            /\ run' = [run EXCEPT ![p] = [run[p] EXCEPT !.buffer = SubSeq(run[p].rest, 1, n),
                                                        !.rest = SubSeq(run[p].rest, n + 1, Len(run[p].rest))]]
    BY DEF WritePiece, Goes, Cuts
<1>11. PICK piece, rest : piece = SubSeq(run[p].rest, 1, n) /\ rest = SubSeq(run[p].rest, n + 1, Len(run[p].rest))
    OBVIOUS
<1>4. piece \in Seq(Chars) /\ rest \in Seq(Chars) /\ piece \o rest = run[p].rest
  <2>1. Len(run[p].rest) \in Nat /\ \A i \in 1..Len(run[p].rest) : run[p].rest[i] \in Chars
      BY <1>2, LenProperties, ElementOfSeq
  <2>2. /\ 1 \in Int /\ n \in Int /\ n + 1 \in Int /\ Len(run[p].rest) \in Int
        /\ \A i \in 1..n : run[p].rest[i] \in Chars
        /\ \A i \in (n + 1)..Len(run[p].rest) : run[p].rest[i] \in Chars
      BY <2>1
  <2>3. piece \in Seq(Chars) /\ rest \in Seq(Chars)
      BY <1>11, <2>2, SubSeqProperties
  <2>4. 1 \in 1..(Len(run[p].rest) + 1) /\ n \in (1 - 1)..Len(run[p].rest) /\ Len(run[p].rest) \in n..Len(run[p].rest)
      BY <2>1
  <2>5. piece \o rest = SubSeq(run[p].rest, 1, Len(run[p].rest))
      BY <1>2, <1>11, <2>4, ConcatAdjacentSubSeq
  <2> QED
      BY <1>2, <2>3, <2>5, SubSeqFull
<1>5. PICK f, b, t : f = files[run[p].file] /\ b = run[p].buffer /\ t = run[p].text
    OBVIOUS
<1>6. Joined(f, b, piece \o rest) = t /\ t \in Texts /\ run[p].ok
    BY <1>1, <1>2, <1>4, <1>5 DEF CallOk, Writes
<1>7. Joined(f, b \o piece, rest) = t /\ Joined(f \o b, piece, rest) = t /\ b \o piece \in Seq(Chars)
  <2>1. f \in Seq(Chars) /\ b \in Seq(Chars) /\ piece \in Seq(Chars) /\ rest \in Seq(Chars)
      BY <1>2, <1>4, <1>5
  <2> QED
      BY <1>6, <2>1, HandedOn
<1>8. ASSUME NEW x \in Seq(Chars), run' = [run EXCEPT ![p] = [run[p] EXCEPT !.buffer = x, !.rest = rest]],
             UNCHANGED files \/ \E e \in Seq(Chars) : files' = [files EXCEPT ![run[p].file] = e],
             Joined(files'[run[p].file], x, rest) = t
      PROVE  Whole' /\ [Register!Next]_(Register!vars)
  <2> DEFINE r == [run[p] EXCEPT !.buffer = x, !.rest = rest]
  <2>1. /\ r.pc = "write" /\ r.file = run[p].file /\ r.rest = rest /\ r.buffer = x
        /\ r.ok = run[p].ok /\ r.text = t
      BY <1>1, <1>2, <1>5 DEF Fields
  <2>2. run' = [run EXCEPT ![p] = r]
      BY <1>8
  <2> HIDE DEF r
  <2>3. Moves(p, r)
      BY <1>1, <1>8, <2>2 DEF Moves, Writes
  <2>4. CallOk(r, files')
      BY <1>4, <1>6, <1>8, <2>1 DEF CallOk, Writes
  <2>5. WantOf(r) = WantOf(run[p]) /\ SeenOf(r, files') = SeenOf(run[p], files)
      BY <1>1, <1>5, <2>1 DEF WantOf, SeenOf
  <2> QED
      BY <1>1, <2>3, <2>4, <2>5, SilentStep
<1>9. CASE run' = [run EXCEPT ![p] = [run[p] EXCEPT !.buffer = run[p].buffer \o piece, !.rest = rest]] /\ UNCHANGED files
    BY <1>5, <1>7, <1>8, <1>9
<1>10. CASE /\ Stored(p, Len(run[p].buffer))
            /\ run' = [run EXCEPT ![p] = [run[p] EXCEPT !.buffer = piece, !.rest = rest]]
  <2>1. Len(run[p].buffer) \in 0..Len(run[p].buffer) /\ run[p].pc \in Writes
      BY <1>1, <1>2, LenProperties DEF Writes
  <2>2. /\ \E e \in Seq(Chars) : files' = [files EXCEPT ![run[p].file] = e]
        /\ files'[run[p].file] = f \o b
      BY <1>5, <1>10, <2>1, StoredFile
  <2> QED
      BY <1>4, <1>7, <1>8, <1>10, <2>2
<1> QED
    BY <1>3, <1>9, <1>10, <1>11

\* A call that met an error writes nothing that counts.
LEMMA FailedCall ==
    ASSUME Own, Whole, NEW p \in Procs, run[p].pc \in Writes, NEW r, Moves(p, r), UNCHANGED path, UNCHANGED held,
           r.pc \in {"close", "remove"}, r.ok = FALSE, r.rest = run[p].rest, r.text = run[p].text,
           r.buffer \in {run[p].buffer, <<>>}
    PROVE  Whole' /\ [Register!Next]_(Register!vars)
<1>1. <<>> \in Seq(Chars)
    BY EmptySeq
<1>2. run[p].rest \in Seq(Chars) /\ run[p].buffer \in Seq(Chars) /\ run[p].text \in Texts
    BY CallFacts
<1>3. CallOk(r, files')
    BY <1>1, <1>2 DEF CallOk, Writes
<1>4. WantOf(r) = NoDoc /\ SeenOf(r, files') = NoDoc /\ SeenOf(run[p], files) = NoDoc
    BY CallFacts DEF WantOf, SeenOf, Writes
<1> QED
    BY <1>3, <1>4, FailStep

LEMMA WritingFails ==
    ASSUME Own, Whole, NEW p \in Procs, WriteFails(p) \/ FlushFails(p) \/ RenameFails(p)
    PROVE  Whole' /\ [Register!Next]_(Register!vars)
<1>1. DOMAIN run[p] = Fields
    BY CallFacts
<1>2. run[p].pc \in Writes /\ UNCHANGED path /\ UNCHANGED held
    BY DEF WriteFails, FlushFails, RenameFails, At, Writes
<1>3. CASE WriteFails(p)
  <2> DEFINE r == [run[p] EXCEPT !.pc = "close", !.ok = FALSE]
  <2>1. r.pc = "close" /\ r.ok = FALSE /\ r.rest = run[p].rest /\ r.text = run[p].text /\ r.buffer = run[p].buffer
      BY <1>1 DEF Fields
  <2>2. Moves(p, r)
      BY <1>3 DEF WriteFails, Goes, Moves
  <2> HIDE DEF r
  <2> QED
      BY <1>2, <2>1, <2>2, FailedCall
<1>4. CASE FlushFails(p)
  <2> DEFINE r == [run[p] EXCEPT !.buffer = <<>>, !.pc = "close", !.ok = FALSE]
  <2>1. r.pc = "close" /\ r.ok = FALSE /\ r.rest = run[p].rest /\ r.text = run[p].text /\ r.buffer = <<>>
      BY <1>1 DEF Fields
  <2>2. run' = [run EXCEPT ![p] = r]
    <3>1. [Flushed(p) EXCEPT !.pc = "close", !.ok = FALSE] = r
        BY <1>1 DEF Flushed, Fields
    <3> QED
        BY <1>4, <3>1 DEF FlushFails, Goes
  <2>3. PICK n \in 0..(Len(run[p].buffer) - 1) : Stored(p, n)
      BY <1>4 DEF FlushFails
  <2>4. n \in 0..Len(run[p].buffer)
    <3>1. Len(run[p].buffer) \in Nat
        BY CallFacts, LenProperties
    <3> QED
        BY <2>3, <3>1
  <2>5. \E e \in Seq(Chars) : files' = [files EXCEPT ![run[p].file] = e]
      BY <1>2, <2>3, <2>4, StoredFile
  <2> HIDE DEF r
  <2>6. Moves(p, r)
      BY <1>2, <2>2, <2>5 DEF Moves
  <2> QED
      BY <1>2, <2>1, <2>6, FailedCall
<1>5. CASE RenameFails(p)
  <2> DEFINE r == [run[p] EXCEPT !.pc = "remove", !.ok = FALSE]
  <2>1. r.pc = "remove" /\ r.ok = FALSE /\ r.rest = run[p].rest /\ r.text = run[p].text /\ r.buffer = run[p].buffer
      BY <1>1 DEF Fields
  <2>2. Moves(p, r)
      BY <1>5 DEF RenameFails, Goes, Moves
  <2> HIDE DEF r
  <2> QED
      BY <1>2, <2>1, <2>2, FailedCall
<1> QED
    BY <1>3, <1>4, <1>5

\* fflush and fclose: where no call fails, the file holds the text.
LEMMA BufferIsSent ==
    ASSUME Own, Whole, NEW p \in Procs, run[p].pc \in Writes, Stored(p, Len(run[p].buffer)), UNCHANGED path, UNCHANGED held,
           NEW r, run' = [run EXCEPT ![p] = r], r.pc \in {"close", "rename"}, r.ok = TRUE, run[p].ok, r.text = run[p].text,
           r.rest = run[p].rest, r.buffer = <<>>, r.file = run[p].file,
           files[run[p].file] \o run[p].buffer = run[p].text
    PROVE  Whole' /\ [Register!Next]_(Register!vars)
<1>1. run[p].rest \in Seq(Chars) /\ run[p].text \in Texts /\ Len(run[p].buffer) \in 0..Len(run[p].buffer)
  <2>1. Len(run[p].buffer) \in Nat
      BY CallFacts, LenProperties
  <2> QED
      BY <2>1, CallFacts
<1>2. /\ \E e \in Seq(Chars) : files' = [files EXCEPT ![run[p].file] = e]
      /\ files'[run[p].file] = run[p].text
    BY <1>1, StoredFile
<1>3. <<>> \in Seq(Chars)
    BY EmptySeq
<1>4. CallOk(r, files')
    BY <1>1, <1>2, <1>3 DEF CallOk, Writes
<1>5. Moves(p, r)
    BY <1>2 DEF Moves
<1>6. WantOf(r) = WantOf(run[p]) /\ SeenOf(r, files') = NoDoc /\ SeenOf(run[p], files) = NoDoc
    BY CallFacts DEF WantOf, SeenOf, Writes
<1> QED
    BY <1>4, <1>5, <1>6, SilentStep

LEMMA FileIsFlushed ==
    ASSUME Own, Whole, NEW p \in Procs, Flush(p)
    PROVE  Whole' /\ [Register!Next]_(Register!vars)
<1>1. /\ run[p].pc = "write" /\ run[p].rest = <<>> /\ Stored(p, Len(run[p].buffer))
      /\ UNCHANGED path /\ UNCHANGED held /\ run[p].pc \in Writes
    BY DEF Flush, At, Writes
<1>2. /\ DOMAIN run[p] = Fields /\ CallOk(run[p], files)
      /\ files[run[p].file] \in Seq(Chars) /\ run[p].buffer \in Seq(Chars)
    BY <1>1, CallFacts
<1>3. files[run[p].file] \o run[p].buffer = run[p].text /\ run[p].ok = TRUE
  <2>1. Joined(files[run[p].file], run[p].buffer, <<>>) = run[p].text /\ run[p].ok /\ run[p].ok \in BOOLEAN
      BY <1>1, <1>2 DEF CallOk
  <2>2. run[p].buffer \o <<>> = run[p].buffer
      BY <1>2, ConcatEmptySeq
  <2> QED
      BY <2>1, <2>2 DEF Joined
<1> DEFINE r == [run[p] EXCEPT !.buffer = <<>>, !.pc = "close"]
<1>4. /\ r.pc = "close" /\ r.ok = run[p].ok /\ r.rest = run[p].rest /\ r.text = run[p].text /\ r.buffer = <<>>
      /\ r.file = run[p].file
    BY <1>2 DEF Fields
<1>5. run' = [run EXCEPT ![p] = r]
  <2>1. [Flushed(p) EXCEPT !.pc = "close"] = r
      BY <1>2 DEF Flushed, Fields
  <2> QED
      BY <2>1 DEF Flush, Goes
<1> HIDE DEF r
<1> QED
    BY <1>1, <1>3, <1>4, <1>5, BufferIsSent

LEMMA FileIsClosed ==
    ASSUME Own, Whole, NEW p \in Procs, Close(p)
    PROVE  Whole' /\ [Register!Next]_(Register!vars)
<1>1. /\ run[p].pc = "close" /\ Stored(p, Len(run[p].buffer))
      /\ UNCHANGED path /\ UNCHANGED held /\ run[p].pc \in Writes
    BY DEF Close, At, Writes
<1>2. /\ DOMAIN run[p] = Fields /\ CallOk(run[p], files) /\ run[p].ok \in BOOLEAN
      /\ files[run[p].file] \in Seq(Chars) /\ run[p].buffer \in Seq(Chars)
    BY <1>1, CallFacts
<1>3. PICK ok \in BOOLEAN :
         /\ ok => run[p].ok
         /\ run' = [run EXCEPT ![p] = [Flushed(p) EXCEPT !.pc = IF ok THEN "rename" ELSE "remove", !.ok = ok]]
    BY <1>2 DEF Close, Goes
<1> DEFINE r == [run[p] EXCEPT !.buffer = <<>>, !.pc = IF ok THEN "rename" ELSE "remove", !.ok = ok]
<1>4. /\ r.pc = (IF ok THEN "rename" ELSE "remove") /\ r.ok = ok /\ r.rest = run[p].rest
      /\ r.text = run[p].text /\ r.buffer = <<>> /\ r.file = run[p].file
    BY <1>2 DEF Fields
<1>5. run' = [run EXCEPT ![p] = r]
  <2>1. [Flushed(p) EXCEPT !.pc = IF ok THEN "rename" ELSE "remove", !.ok = ok] = r
      BY <1>2 DEF Flushed, Fields
  <2> QED
      BY <1>3, <2>1
<1> HIDE DEF r
<1>6. CASE ok
  <2>1. run[p].buffer = <<>> /\ files[run[p].file] = run[p].text
      BY <1>1, <1>2, <1>3, <1>6 DEF CallOk
  <2>2. files[run[p].file] \o run[p].buffer = run[p].text
      BY <1>2, <2>1, ConcatEmptySeq
  <2>3. r.ok = TRUE /\ r.pc = "rename" /\ run[p].ok
      BY <1>3, <1>4, <1>6
  <2> QED
      BY <1>1, <1>4, <1>5, <2>2, <2>3, BufferIsSent
<1>7. CASE ~ok
  <2>1. r.ok = FALSE /\ r.pc = "remove"
      BY <1>4, <1>7
  <2>2. Len(run[p].buffer) \in 0..Len(run[p].buffer)
    <3>1. Len(run[p].buffer) \in Nat
        BY <1>2, LenProperties
    <3> QED
        BY <3>1
  <2>3. \E e \in Seq(Chars) : files' = [files EXCEPT ![run[p].file] = e]
      BY <1>1, <2>2, StoredFile
  <2>4. Moves(p, r)
      BY <1>1, <1>5, <2>3 DEF Moves
  <2> QED
      BY <1>1, <1>4, <2>1, <2>4, FailedCall
<1> QED
    BY <1>6, <1>7

LEMMA TempIsRemoved ==
    ASSUME Own, Whole, NEW p \in Procs, RemoveTemp(p) \/ RemoveFails(p)
    PROVE  Whole' /\ [Register!Next]_(Register!vars)
<1>1. /\ run[p].pc = "remove" /\ run' = [run EXCEPT ![p] = Idle]
      /\ files' = [files EXCEPT ![run[p].file] = <<>>] \/ UNCHANGED files
      /\ UNCHANGED path /\ UNCHANGED held
    BY DEF RemoveTemp, RemoveFails, At, Returns, Goes
<1>2. Moves(p, Idle)
  <2>1. <<>> \in Seq(Chars)
      BY EmptySeq
  <2> QED
      BY <1>1, <2>1 DEF Moves, Writes
<1>3. CallOk(Idle, files') /\ WantOf(Idle) = NoDoc /\ SeenOf(Idle, files') = NoDoc /\ SeenOf(run[p], files) = NoDoc
    BY <1>1, EndedCall, CallFacts DEF Ended
<1> QED
    BY <1>1, <1>2, <1>3, FailStep

\* replace_file_path: the moment of the write.
LEMMA FileIsReplaced ==
    ASSUME Own, Whole, NEW p \in Procs, Rename(p)
    PROVE  Whole' /\ [Register!Next]_(Register!vars)
<1>1. /\ run[p].pc = "rename" /\ run' = [run EXCEPT ![p] = Idle] /\ UNCHANGED files /\ path' = run[p].file
      /\ UNCHANGED held /\ run[p].pc \in Writes
    BY DEF Rename, At, Returns, Goes, Writes
<1>2. Moves(p, Idle)
    BY <1>1 DEF Moves
<1>3. CallOk(Idle, files') /\ WantOf(Idle) = NoDoc /\ SeenOf(Idle, files') = NoDoc /\ SeenOf(run[p], files) = NoDoc
    BY <1>1, EndedCall, CallFacts DEF Ended
<1>4. /\ Whole' /\ Want' = [Want EXCEPT ![p] = NoDoc] /\ Seen' = [Seen EXCEPT ![p] = NoDoc]
      /\ Want[p] = WantOf(run[p]) /\ Seen[p] = NoDoc
    BY <1>1, <1>2, <1>3, AfterStep
<1>5. UNCHANGED Seen
    BY <1>4 DEF Seen
<1>6. run[p].text \in Texts /\ run[p].ok /\ files[run[p].file] = run[p].text /\ run[p].file # 0
  <2>1. CallOk(run[p], files) /\ run[p].file \in 1..Len(files)
      BY <1>1, CallFacts
  <2> QED
      BY <1>1, <2>1 DEF CallOk, Writes
<1>7. Want[p] = Parsed(run[p].text) /\ Want[p] # NoDoc
    BY <1>4, <1>6, TextsAreRead DEF WantOf
<1>8. Value' = Want[p]
    BY <1>1, <1>6, <1>7 DEF Value
<1>9. Register!Commit(p)
    BY <1>1, <1>4, <1>5, <1>7, <1>8 DEF Register!Commit
<1> QED
    BY <1>4, <1>9 DEF Register!Next

-----------------------------------------------------------------------------
(* gtext_yaml_parse_file, and a process that ends.                         *)

\* The moment of the read.
LEMMA FileIsOpened ==
    ASSUME Own, Whole, NEW p \in Procs, OpenFile(p)
    PROVE  Whole' /\ [Register!Next]_(Register!vars)
<1> DEFINE r == [Idle EXCEPT !.pc = "size", !.file = path]
<1>1. /\ run[p].pc = "idle" /\ path # 0 /\ run' = [run EXCEPT ![p] = r]
      /\ UNCHANGED path /\ UNCHANGED files /\ UNCHANGED held
    BY DEF OpenFile, At, Goes
<1>2. /\ r.pc = "size" /\ r.file = path /\ r.rest = <<>> /\ r.buffer = <<>> /\ r.ok = TRUE /\ r.text = <<>>
    BY DEF Idle
<1> HIDE DEF r
<1>3. files[path] \in Texts /\ Value = Parsed(files[path]) /\ Value # NoDoc
    BY <1>1, TextsAreRead DEF Whole, Value
<1>4. Moves(p, r)
    BY <1>1 DEF Moves
<1>5. CallOk(r, files')
  <2>1. <<>> \in Seq(Chars)
      BY EmptySeq
  <2> QED
      BY <1>1, <1>2, <1>3, <2>1 DEF CallOk, Writes
<1>6. SeenOf(r, files') = Value /\ WantOf(r) = NoDoc /\ WantOf(run[p]) = NoDoc
    BY <1>1, <1>2, <1>3, CallFacts DEF SeenOf, WantOf, Writes
<1>7. /\ Whole' /\ UNCHANGED <<Value, Want>>
    BY <1>1, <1>4, <1>5, <1>6, QuietStep
<1>8. Seen' = [Seen EXCEPT ![p] = Value]
    BY <1>1, <1>4, <1>5, <1>6, AfterStep
<1>9. Register!See(p)
    BY <1>1, <1>3, <1>7, <1>8 DEF Register!See
<1> QED
    BY <1>7, <1>9 DEF Register!Next

LEMMA FileIsSized ==
    ASSUME Own, Whole, NEW p \in Procs, SizeFile(p)
    PROVE  Whole' /\ [Register!Next]_(Register!vars)
<1> DEFINE r == [run[p] EXCEPT !.pc = "read", !.size = Len(files[run[p].file])]
<1>1. /\ run[p].pc = "size" /\ run' = [run EXCEPT ![p] = r]
      /\ UNCHANGED path /\ UNCHANGED files /\ UNCHANGED held
    BY DEF SizeFile, At, Goes
<1>2. DOMAIN run[p] = Fields /\ CallOk(run[p], files)
    BY CallFacts
<1>3. /\ r.pc = "read" /\ r.size = Len(files[run[p].file]) /\ r.file = run[p].file /\ r.rest = run[p].rest
      /\ r.buffer = run[p].buffer /\ r.ok = run[p].ok /\ r.text = run[p].text
    BY <1>2 DEF Fields
<1> HIDE DEF r
<1>4. Moves(p, r)
    BY <1>1 DEF Moves
<1>5. CallOk(r, files')
    BY <1>1, <1>2, <1>3 DEF CallOk, Writes
<1>6. WantOf(r) = WantOf(run[p]) /\ SeenOf(r, files') = SeenOf(run[p], files)
    BY <1>1, <1>3 DEF SeenOf, WantOf
<1> QED
    BY <1>1, <1>4, <1>5, <1>6, SilentStep

LEMMA FileIsRead ==
    ASSUME Own, Whole, NEW p \in Procs, ReadFile(p)
    PROVE  Whole' /\ [Register!Next]_(Register!vars)
<1>1. /\ run[p].pc = "read" /\ run' = [run EXCEPT ![p] = Idle] /\ UNCHANGED path /\ UNCHANGED files
      /\ held' = [held EXCEPT ![p] = Parsed(SubSeq(files[run[p].file], 1, run[p].size))]
    BY DEF ReadFile, At, Returns, Goes
<1>2. PICK t : t = files[run[p].file]
    OBVIOUS
<1>3. t \in Texts /\ run[p].size = Len(t)
    BY <1>1, <1>2, CallFacts DEF CallOk
<1>4. t \in Seq(Chars) /\ Parsed(t) \in Values /\ Parsed(t) # NoDoc
    BY <1>3, TextsAreRead
<1>5. held' = [held EXCEPT ![p] = Parsed(t)]
  <2>1. SubSeq(t, 1, Len(t)) = t
      BY <1>4, SubSeqFull
  <2> QED
      BY <1>1, <1>2, <1>3, <2>1
<1>6. Moves(p, Idle)
    BY <1>1 DEF Moves
<1>7. CallOk(Idle, files') /\ WantOf(Idle) = NoDoc /\ SeenOf(Idle, files') = NoDoc
    BY EndedCall DEF Ended
<1>8. SeenOf(run[p], files) = Parsed(t) /\ WantOf(run[p]) = NoDoc
    BY <1>1, <1>2, CallFacts DEF SeenOf, Writes
<1>9. /\ Whole' /\ Want' = [Want EXCEPT ![p] = NoDoc] /\ Seen' = [Seen EXCEPT ![p] = NoDoc] /\ UNCHANGED Value
      /\ Want[p] = NoDoc /\ Seen[p] = Parsed(t)
  <2>1. UNCHANGED path /\ \E v \in Values : held' = [held EXCEPT ![p] = v]
      BY <1>1, <1>4, <1>5
  <2>2. /\ Whole' /\ Want' = [Want EXCEPT ![p] = WantOf(Idle)] /\ Seen' = [Seen EXCEPT ![p] = SeenOf(Idle, files')]
        /\ UNCHANGED Value /\ Want[p] = WantOf(run[p]) /\ Seen[p] = SeenOf(run[p], files)
      BY <1>6, <1>7, <2>1, AfterStep
  <2> QED
      BY <1>7, <1>8, <2>2
<1>10. UNCHANGED Want
    BY <1>9 DEF Want
<1>11. Register!Return(p)
    BY <1>4, <1>5, <1>9, <1>10 DEF Register!Return
<1> QED
    BY <1>9, <1>11 DEF Register!Next

LEMMA ReadingFails ==
    ASSUME Own, Whole, NEW p \in Procs, ReadFails(p)
    PROVE  Whole' /\ [Register!Next]_(Register!vars)
<1>1. /\ run[p].pc \in {"size", "read"} /\ run' = [run EXCEPT ![p] = Idle] /\ UNCHANGED files
      /\ UNCHANGED path /\ UNCHANGED held
    BY DEF ReadFails, Returns, Goes
<1>2. Moves(p, Idle)
    BY <1>1 DEF Moves
<1>3. CallOk(Idle, files') /\ WantOf(Idle) = NoDoc /\ SeenOf(Idle, files') = NoDoc
    BY EndedCall DEF Ended
<1>4. WantOf(run[p]) = NoDoc
    BY <1>1, CallFacts DEF Writes
<1> QED
    BY <1>1, <1>2, <1>3, <1>4, ForgetStep

LEMMA ProcessEnds ==
    ASSUME Own, Whole, NEW p \in Procs, Crash(p)
    PROVE  Whole' /\ [Register!Next]_(Register!vars)
<1> DEFINE r == [Idle EXCEPT !.pc = "dead"]
<1>1. run' = [run EXCEPT ![p] = r] /\ UNCHANGED files /\ UNCHANGED path /\ UNCHANGED held
    BY DEF Crash, Goes
<1>2. CallOk(r, files') /\ WantOf(r) = NoDoc /\ SeenOf(r, files') = NoDoc
    BY EndedCall DEF Ended
<1> HIDE DEF r
<1>3. Moves(p, r)
    BY <1>1 DEF Moves
<1>4. CASE run[p].pc \in {"size", "read"}
  <2>1. WantOf(run[p]) = NoDoc
      BY <1>4, CallFacts DEF Writes
  <2> QED
      BY <1>1, <1>2, <1>3, <2>1, ForgetStep
<1>5. CASE run[p].pc \notin {"size", "read"}
  <2>1. SeenOf(run[p], files) = NoDoc
      BY <1>5, CallFacts
  <2> QED
      BY <1>1, <1>2, <1>3, <2>1, FailStep
<1> QED
    BY <1>4, <1>5

-----------------------------------------------------------------------------
(* The theorem.                                                            *)

LEMMA InitWhole ==
    ASSUME Init
    PROVE  Whole /\ Register!Init
<1>1. /\ path \in {0, 1} /\ held = [p \in Procs |-> NoDoc] /\ run = [p \in Procs |-> Idle]
    BY DEF Init
<1>2. PICK d \in Docs, n \in Options \ {NoNewline} : files = (IF path = 0 THEN <<>> ELSE <<Rendered(d, n)>>)
    BY DEF Init
<1>3. Rendered(d, n) \in Texts
    BY <1>2, OptionsAssumption DEF Texts
<1>4. files \in Seq(Seq(Chars)) /\ (path # 0 => files[path] \in Texts)
  <2>1. CASE path = 0
      BY <1>2, <2>1, EmptySeq
  <2>2. CASE path = 1
    <3>1. PICK t : t = Rendered(d, n)
        OBVIOUS
    <3>2. t \in Seq(Chars) /\ files = <<t>>
        BY <1>2, <1>3, <2>2, <3>1, TextsAreRead
    <3> QED
        BY <1>3, <2>2, <3>1, <3>2
  <2> QED
      BY <1>1, <2>1, <2>2
<1>5. \A p \in Procs : /\ CallOk(run[p], files) /\ WantOf(run[p]) = NoDoc
                       /\ SeenOf(run[p], files) = NoDoc
    BY <1>1, EndedCall DEF Ended
<1>6. Whole
    BY <1>1, <1>4, <1>5 DEF Whole
<1>7. Want = [p \in Procs |-> NoDoc] /\ Seen = [p \in Procs |-> NoDoc]
    BY <1>5 DEF Want, Seen, WantOf, SeenOf
<1>8. Value \in Values \union {NoDoc}
    BY <1>4, TextsAreRead DEF Value
<1> QED
    BY <1>1, <1>6, <1>7, <1>8 DEF Register!Init

LEMMA NextWhole ==
    ASSUME Own, Whole, [Next]_vars
    PROVE  Whole' /\ [Register!Next]_(Register!vars)
<1>1. CASE UNCHANGED vars
  <2>1. UNCHANGED <<Value, Want, Seen, held>>
      BY <1>1 DEF vars, Value, Want, Seen
  <2> QED
      BY <1>1, <2>1 DEF vars, Whole, Register!vars
<1>2. CASE Next
  <2>1. PICK p \in Procs :
           \/ Write(p) \/ CreateTemp(p) \/ CreateFails(p) \/ WritePiece(p) \/ WriteFails(p) \/ Flush(p) \/ FlushFails(p)
           \/ Close(p) \/ RemoveTemp(p) \/ RemoveFails(p) \/ Rename(p) \/ RenameFails(p)
           \/ OpenFile(p) \/ SizeFile(p) \/ ReadFile(p) \/ ReadFails(p) \/ Crash(p)
      BY <1>2 DEF Next
  <2>2. CASE Write(p) \/ CreateTemp(p) \/ CreateFails(p)
      BY <2>2, WriteBegins, FileIsCreated, CreationFails
  <2>3. CASE WritePiece(p) \/ WriteFails(p) \/ FlushFails(p) \/ RenameFails(p)
      BY <2>3, PieceIsWritten, WritingFails
  <2>4. CASE Flush(p) \/ Close(p) \/ RemoveTemp(p) \/ RemoveFails(p) \/ Rename(p)
      BY <2>4, FileIsFlushed, FileIsClosed, TempIsRemoved, FileIsReplaced
  <2>5. CASE OpenFile(p) \/ SizeFile(p) \/ ReadFile(p) \/ ReadFails(p) \/ Crash(p)
      BY <2>5, FileIsOpened, FileIsSized, FileIsRead, ReadingFails, ProcessEnds
  <2> QED
      BY <2>1, <2>2, <2>3, <2>4, <2>5
<1> QED
    BY <1>1, <1>2

\* For any processes, documents and newlines: what gtext_yaml_write_file and
\* gtext_yaml_parse_file do to the file is what an atomic register does.  A write
\* that succeeds has replaced the whole document at its rename, one that failed or
\* died has changed nothing; a read returns the document that the file held when it
\* was opened, whole and with its newline.
THEOREM FileRefinesRegister == Spec => FileIsAtomic
<1>1. Init => Whole /\ Register!Init
    BY InitWhole
<1>2. Own /\ Whole /\ [Next]_vars => Whole' /\ [Register!Next]_(Register!vars)
    BY NextWhole
<1>3. Spec => Register!Spec
    BY <1>1, <1>2, OwnsForever, PTL DEF Spec, Register!Spec
<1> QED
    BY <1>3 DEF FileIsAtomic
=============================================================================
