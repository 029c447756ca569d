----------------------------- MODULE AtomicFile -----------------------------
(***************************************************************************)
(* What reading and writing a document in a file promise: a write replaces *)
(* the whole document in one moment before it returns, or not at all; a    *)
(* read returns the document the file held at one moment of its call.      *)
(***************************************************************************)
CONSTANTS Procs, Values, NoValue

VARIABLES
    value,  \* the document in the file, or NoValue
    want,   \* what each process is about to write
    seen,   \* what each process is about to return from a read
    got     \* what each process read last

vars == <<value, want, seen, got>>

Init == /\ value \in Values \union {NoValue}
        /\ want = [p \in Procs |-> NoValue] /\ seen = [p \in Procs |-> NoValue]
        /\ got = [p \in Procs |-> NoValue]

Begin(p)  == /\ want[p] = NoValue
             /\ \E v \in Values : want' = [want EXCEPT ![p] = v]
             /\ UNCHANGED <<value, seen, got>>
Commit(p) == /\ want[p] # NoValue
             /\ value' = want[p] /\ want' = [want EXCEPT ![p] = NoValue]
             /\ UNCHANGED <<seen, got>>
\* A write fails, or its process ends.
Abandon(p) == want' = [want EXCEPT ![p] = NoValue] /\ UNCHANGED <<value, seen, got>>
See(p)    == /\ value # NoValue
             /\ seen' = [seen EXCEPT ![p] = value] /\ UNCHANGED <<value, want, got>>
Return(p) == /\ seen[p] # NoValue
             /\ got' = [got EXCEPT ![p] = seen[p]] /\ seen' = [seen EXCEPT ![p] = NoValue]
             /\ UNCHANGED <<value, want>>
\* A read fails, or its process ends.
Forget(p) == seen' = [seen EXCEPT ![p] = NoValue] /\ UNCHANGED <<value, want, got>>

Next == \E p \in Procs : Begin(p) \/ Commit(p) \/ Abandon(p) \/ See(p) \/ Return(p) \/ Forget(p)
Spec == Init /\ [][Next]_vars
=============================================================================
