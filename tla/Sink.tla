-------------------------------- MODULE Sink --------------------------------
(***************************************************************************)
(* The two output sinks the CSV and the JSON writer write to, the growable *)
(* buffer and the fixed buffer (buffer_write_fn and fixed_buffer_write_fn, *)
(* the same code in src/csv/csv_writer.c and src/json/json_writer.c).  A   *)
(* write either succeeds (SinkTakes) or fails (SinkRefuses): the growable  *)
(* buffer when it has no memory to grow and then keeps nothing of it, the  *)
(* fixed buffer when it is full and then keeps what fits.                  *)
(***************************************************************************)
EXTENDS Naturals, SequencesExt

CONSTANTS
    Byte,         \* what is written, in pieces the sink does not look into
    SinkSizes,    \* sizes of fixed buffers
    InitialSize,  \* first size of the growable buffer (256 in the code)
    OutBound      \* bound: bytes offered to the sink

ASSUME SinkAssumption == /\ SinkSizes \subseteq Nat \ {0}
                         /\ InitialSize \in Nat \ {0}
                         /\ OutBound \in Nat

VARIABLES
    sink,     \* its kind, the bytes in it, its size, truncated
    offered   \* history: all bytes given to it, kept or not

NewSinks == [kind : {"growable"}, out : {<<>>}, size : {0}, truncated : {FALSE}]
              \union [kind : {"fixed"}, out : {<<>>}, size : SinkSizes, truncated : {FALSE}]

-----------------------------------------------------------------------------
\* fixed_buffer_write_fn: what fits of a write, one byte kept for the NUL.
Room == sink.size - (Len(sink.out) + 1)
\* Faulty: a write that does not fit is refused as a whole.
FixedTakesWhole(bytes) ==
    IF Len(bytes) > Room THEN [sink EXCEPT !.truncated = TRUE]
    ELSE [sink EXCEPT !.out = @ \o bytes]
FixedTakes(bytes) ==
    IF Len(bytes) > Room
    THEN [sink EXCEPT !.out = @ \o SubSeq(bytes, 1, Room), !.truncated = TRUE]
    ELSE [sink EXCEPT !.out = @ \o bytes]

\* buffer_write_fn: the size is doubled until the bytes and a NUL fit.
Needed(bytes) == Len(sink.out) + Len(bytes) + 1
FirstSize     == IF sink.size = 0 THEN InitialSize ELSE sink.size
\* Faulty: the byte for the NUL is forgotten.
EnoughWithoutNul(size, bytes) == size >= Needed(bytes) - 1
Enough(size, bytes) == size >= Needed(bytes)
Doublings == {n \in 1..(InitialSize + 2 * (OutBound + 1)) :
                 n % FirstSize = 0 /\ \E k \in 0..OutBound : n \div FirstSize = 2^k}
GrownSizes(bytes) ==
    {n \in Doublings : Enough(n, bytes) /\ (n > FirstSize => ~Enough(n \div 2, bytes))}

SinkTakes(bytes) ==
    /\ offered' = offered \o bytes
    /\ \/ /\ sink.kind = "fixed" /\ Len(bytes) <= Room
          /\ sink' = FixedTakes(bytes)
       \/ /\ sink.kind = "growable"
          /\ \E size \in IF Enough(sink.size, bytes) THEN {sink.size} ELSE GrownSizes(bytes) :
                sink' = [sink EXCEPT !.out = @ \o bytes, !.size = size]

SinkRefuses(bytes) ==
    /\ offered' = offered \o bytes
    /\ \/ /\ sink.kind = "fixed" /\ Len(bytes) > Room
          /\ sink' = FixedTakes(bytes)
       \/ /\ sink.kind = "growable" /\ ~Enough(sink.size, bytes)
          /\ sink' = sink

-----------------------------------------------------------------------------
SinkTypeOK ==
    /\ sink \in [kind : {"growable", "fixed"}, out : Seq(Byte), size : Nat, truncated : BOOLEAN]
    /\ offered \in Seq(Byte)

\* A sink that holds bytes has room for the NUL behind them, so the write of
\* the terminator never leaves the buffer (buffer_write_fn's last check never
\* fires, fixed_buffer_write_fn's defensive branch is never taken).
RoomForTerminator ==
    \/ Len(sink.out) < sink.size
    \/ sink.kind = "growable" /\ sink.size = 0 /\ sink.out = <<>>

\* A fixed buffer holds the beginning of everything offered to it, without a
\* gap, up to its size, and says so when that is not all
\* (gtext_csv_sink_fixed_buffer_truncated).
FixedKeepsPrefix ==
    sink.kind = "fixed" =>
        /\ IsPrefix(sink.out, offered)
        /\ sink.truncated <=> Len(offered) > Len(sink.out)
        /\ sink.truncated => Len(sink.out) = sink.size - 1
=============================================================================
