---------------------------- MODULE MCJsonWriter ---------------------------
(* Instances of JsonWriter for TLC. *)
EXTENDS JsonWriter

\* Compact, with spaces, and pretty, each with and without the rest.
SomeOptions ==
    {[pretty |-> p, spaces |-> s, trailingNewline |-> t, nonfinite |-> ~t] :
        p, s, t \in BOOLEAN}

\* In the error state nothing changes any more.  Before it, all that is ever read
\* of the output is its length and how it reads (what may follow is decided token
\* by token); what was offered counts by its length; the mark of a call that is
\* over influences nothing.
MCView ==
    IF error THEN <<call, torn>>
    ELSE <<[sink EXCEPT !.out = <<Len(sink.out), Reads(sink.out)>>], Len(offered), opts, stack,
           capacity, call, todo, IF call = "none" THEN 0 ELSE mark, torn>>
=============================================================================
