----------------------------- MODULE TCPSegment -----------------------------
(***************************************************************************)
(* class TCPSegment, with the header fields the endpoints read or write.   *)
(***************************************************************************)
EXTENDS Integers, Sequences

\* A default-constructed segment.
NewSegment == [seqno |-> 0, syn |-> FALSE, fin |-> FALSE, rst |-> FALSE,
               ack |-> FALSE, ackno |-> 0, win |-> 0, payload |-> <<>>]

length_in_sequence_space(seg) ==
    Len(seg.payload) + (IF seg.syn THEN 1 ELSE 0) + (IF seg.fin THEN 1 ELSE 0)
=============================================================================
