--------------------------- MODULE ByteStreamOps ---------------------------
(***************************************************************************)
(* A ByteStream as the classes that own one see it: the bounded FIFO of    *)
(* module ByteFifo as a record, so that a component can hold it as a part  *)
(* of its own state.  Theorem RingImplementsFifo is why the ring itself    *)
(* need not be carried along.                                              *)
(***************************************************************************)
EXTENDS Integers, Sequences

NewStream(capacity) == [capacity |-> capacity,
                        data |-> <<>>,       \* every byte ever accepted
                        popped |-> 0,        \* how many of them were read
                        input_ended |-> FALSE,
                        error |-> FALSE]

LesserOf(a, b) == IF a =< b THEN a ELSE b
GreaterOf(a, b) == IF a >= b THEN a ELSE b

bytes_written(bs) == Len(bs.data)
buffer_size(bs) == Len(bs.data) - bs.popped
buffer_empty(bs) == buffer_size(bs) = 0
remaining_capacity(bs) == bs.capacity - buffer_size(bs)
eof(bs) == bs.input_ended /\ buffer_empty(bs)

\* How many bytes of data a write accepts.
WriteLength(bs, data) ==
    IF bs.input_ended THEN 0 ELSE LesserOf(remaining_capacity(bs), Len(data))

Written(bs, data) ==
    [bs EXCEPT !.data = @ \o SubSeq(data, 1, WriteLength(bs, data))]

\* The bytes a peek or a read of len returns, and the stream after the read.
Peeked(bs, len) ==
    SubSeq(bs.data, bs.popped + 1, bs.popped + LesserOf(buffer_size(bs), len))

Popped(bs, len) == [bs EXCEPT !.popped = @ + LesserOf(buffer_size(bs), len)]

Ended(bs) == [bs EXCEPT !.input_ended = TRUE]

Failed(bs) == [bs EXCEPT !.error = TRUE]
=============================================================================
