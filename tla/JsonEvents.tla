----------------------------- MODULE JsonEvents -----------------------------
(***************************************************************************)
(* What the callback of a streaming JSON parser may rely on, whatever the  *)
(* bytes, the chunks and the failures: the events are a prefix of those of *)
(* one value, containers end in the order they began, an object is told    *)
(* key by key, nothing follows the end of the value, and nothing follows a *)
(* call that failed or a callback that refused.                            *)
(*                                                                         *)
(* Two leniencies are part of the promise: an object may end behind a key  *)
(* that got no value, and, if MaySlip, a malformed text may give a key     *)
(* more than one value.                                                    *)
(***************************************************************************)
EXTENDS Integers, Sequences, FiniteSets

CONSTANT MaySlip

Scalars == {"NULL", "BOOL", "NUMBER", "STRING"}
Kinds   == {"ARRAY", "OBJECT"}
Begins  == [ARRAY |-> "ARRAY_BEGIN", OBJECT |-> "OBJECT_BEGIN"]
Ends    == [ARRAY |-> "ARRAY_END", OBJECT |-> "OBJECT_END"]

VARIABLES
    told,  \* the types of the events told
    open,  \* the open containers: kind, and whether a key waits for its value
    over   \* has the value ended, a call failed or a callback refused?  (open is
           \* then forgotten)

vars == <<told, open, over>>

Innermost == open[Len(open)]
Outer     == SubSeq(open, 1, Len(open) - 1)
MayBegin  == IF open = <<>> THEN told = <<>> ELSE Innermost.kind = "ARRAY" \/ Innermost.keyed
\* The containers once the innermost was given a value.
WithValue == IF open = <<>> THEN open ELSE [open EXCEPT ![Len(open)].keyed = FALSE]

\* An event is told; the callback takes or refuses it, or it was the last.
Tell(type, next) ==
    /\ told' = Append(told, type)
    /\ \/ open' = next /\ over' = FALSE
       \/ open' = <<>> /\ over' = TRUE

Scalar == MayBegin /\ \E s \in Scalars : Tell(s, WithValue)
Begin  == MayBegin /\ \E k \in Kinds :
              Tell(Begins[k], Append(WithValue, [kind |-> k, keyed |-> FALSE]))
Key    == /\ open # <<>> /\ Innermost.kind = "OBJECT" /\ ~Innermost.keyed
          /\ Tell("KEY", [open EXCEPT ![Len(open)].keyed = TRUE])
End    == open # <<>> /\ Tell(Ends[Innermost.kind], Outer)
Slip   == /\ MaySlip /\ open # <<>> /\ Innermost.kind = "OBJECT"
          /\ open' = [open EXCEPT ![Len(open)].keyed = TRUE] /\ UNCHANGED <<told, over>>
Fail   == open' = <<>> /\ over' = TRUE /\ UNCHANGED told

Init == told = <<>> /\ open = <<>> /\ over = FALSE
Next == ~over /\ (Scalar \/ Begin \/ Key \/ End \/ Slip \/ Fail)
Spec == Init /\ [][Next]_vars

\* The events told are those of a whole value.
Times(types) == Cardinality({k \in 1..Len(told) : told[k] \in types})
Complete ==
    told # <<>> /\ Times({Begins[k] : k \in Kinds}) = Times({Ends[k] : k \in Kinds})
=============================================================================
