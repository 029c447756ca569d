----------------------------- MODULE EventFifo -----------------------------
(***************************************************************************)
(* What a queue of events promises: they are taken in the order in which   *)
(* they were put, each once, and none is lost.  A call may put several.    *)
(***************************************************************************)
EXTENDS Naturals, Sequences

VARIABLES
    waiting,  \* the events put and not taken yet
    taken     \* the events taken

vars == <<waiting, taken>>

Init == taken = <<>>
Put  == /\ UNCHANGED taken
        /\ Len(waiting') >= Len(waiting)
        /\ \A i \in 1..Len(waiting) : waiting'[i] = waiting[i]
Take == waiting # <<>> /\ taken' = Append(taken, Head(waiting)) /\ waiting' = Tail(waiting)
Next == Put \/ Take
Spec == Init /\ [][Next]_vars
=============================================================================
