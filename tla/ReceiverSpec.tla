---------------------------- MODULE ReceiverSpec ----------------------------
(***************************************************************************)
(* A TCPReceiver and a peer that has sent its stream, cut into segments,   *)
(* through a network that loses, repeats and reorders them.                *)
(*                                                                         *)
(* In sequence space the SYN is number 0, byte k of the stream number k+1  *)
(* and the FIN number StreamLen+1.                                         *)
(***************************************************************************)
EXTENDS TCPReceiver

CONSTANTS StreamLen,   \* the length of the peer's stream
          Capacity,    \* of the receiver
          Isns,        \* initial sequence numbers the peer may have chosen
          Plans        \* the ways the peer may cut up its stream, each a
                       \*   set of segments [from, to, syn, fin] that carry
                       \*   the bytes from .. to-1

VARIABLES rc,          \* the receiver
          peer_isn,
          plan,        \* the segments the peer sends
          received,    \* history: the numbers the receiver has been given
                       \*   while it had room for them
          moved        \* history: whose call was the last

vars == <<rc, peer_isn, plan, received, moved>>

Bytes(from, to) == [i \in 1 .. to - from |-> from + i - 1]

\* The absolute number a segment begins with, and the numbers it occupies.
StartOf(x) == IF x.syn THEN 0 ELSE x.from + 1
NumbersOf(x) == (IF x.syn THEN {0} ELSE {}) \cup (x.from + 1 .. x.to)
                    \cup (IF x.fin THEN {StreamLen + 1} ELSE {})

SegmentOf(x) == [NewSegment EXCEPT !.seqno = wrap(StartOf(x), peer_isn),
                                   !.syn = x.syn, !.fin = x.fin,
                                   !.payload = Bytes(x.from, x.to)]

Delivery == INSTANCE InOrderDelivery
              WITH Excerpts <- {e \in [from : 0 .. StreamLen, to : 0 .. StreamLen, last : BOOLEAN] :
                                   e.from =< e.to /\ (e.last => e.to = StreamLen)},
                   delivered <- stream_out(rc).data,
                   taken <- stream_out(rc).popped,
                   held <- UNION {n.first .. End(n) - 1 : n \in rc.reassembler.cache},
                   end_known <- rc.reassembler.eof,
                   ended <- stream_out(rc).input_ended

Init == /\ rc = NewReceiver(Capacity)
        /\ peer_isn \in Isns
        /\ plan \in Plans
        /\ received = {}
        /\ moved = "nobody"

\* There is room for the bytes up to the right edge of the window; a FIN
\* needs none, but the bytes before it do.
Admitted(x) ==
    LET edge == 1 + stream_out(rc).popped + Capacity
    IN  IF ~rc.set_isn /\ ~x.syn THEN {}
        ELSE {n \in NumbersOf(x) : \/ n < edge
                                   \/ n = StreamLen + 1 /\ n =< edge}

\* The segment a peer owes that knows how far the stream has come.
IsDue(x) == IF ~rc.set_isn THEN x.syn
            ELSE /\ ~x.syn
                 /\ x.from =< rc.reassembler.head_index
                 /\ rc.reassembler.head_index < x.to \/ x.fin

Arrive(x) == /\ rc' = segment_received(rc, SegmentOf(x))
             /\ received' = received \cup Admitted(x)
             /\ moved' = IF IsDue(x) THEN "due" ELSE "other"
             /\ UNCHANGED <<peer_isn, plan>>

Read(n) == /\ n =< buffer_size(stream_out(rc))
           /\ rc' = [rc EXCEPT !.reassembler.output = Popped(@, n)]
           /\ moved' = "reader"
           /\ UNCHANGED <<peer_isn, plan, received>>

Next == \/ \E x \in plan : Arrive(x)
        \/ \E n \in 1 .. Capacity : Read(n)

Spec == Init /\ [][Next]_vars

Retransmit == \E x \in plan : IsDue(x) /\ Arrive(x)

\* The reader keeps reading, and until the stream has ended the peer keeps
\* retransmitting what is due.
FairSpec == /\ Spec
            /\ WF_vars(Read(1))
            /\ []<><<Retransmit>>_vars \/ <>[]stream_out(rc).input_ended

-----------------------------------------------------------------------------
(* Properties. *)

\* The receiver's members are in range, and what it stores, in order or not,
\* never exceeds its capacity.
TypeOK == /\ rc.set_isn \in BOOLEAN
          /\ rc.isn \in Raw
          /\ rc.reassembler.unassembled_bytes \in Nat
          /\ window_size(rc) \in 0 .. Capacity
          /\ rc.reassembler.unassembled_bytes =< window_size(rc)
          /\ received \subseteq 0 .. StreamLen + 1
          /\ moved \in {"nobody", "due", "other", "reader"}

\* ackno() is the number of the first element of the peer's sequence space
\* (SYN, bytes, FIN) that the receiver has not received, whatever order the
\* segments came in and wherever the 32-bit numbers wrap around.
AcknoIsFirstMissing ==
    has_ackno(rc) =>
        LET first == CHOOSE n \in 0 .. StreamLen + 2 :
                         n \notin received /\ \A m \in 0 .. n - 1 : m \in received
        IN  ackno(rc) = wrap(first, peer_isn)

\* unassembled_bytes() counts each stored byte once, even if it came several
\* times in differently cut segments.
CountsEachByteOnce ==
    rc.reassembler.unassembled_bytes =
        Cardinality(UNION {n.first .. End(n) - 1 : n \in rc.reassembler.cache})

\* segment_received and push_substring, with its cache, implement in-order
\* delivery: however the stream was cut up, repeated and reordered, and
\* whatever nodes are merged, the output is a prefix of it that grows as soon
\* as it can, and ends exactly when the whole stream has been written.
ImplementsDelivery == Delivery!Spec

\* If segments that cover the stream keep arriving and the reader keeps
\* reading, the reader gets the whole stream and its end, although the
\* window is smaller than the stream.
StreamCompletes == <>(eof(stream_out(rc)) /\ stream_out(rc).popped = StreamLen)

\* The first number after the window that is advertised to the peer.
Edge == unwrap(ackno(rc), rc.isn, bytes_written(stream_out(rc))) + window_size(rc)

\* The right edge of the window the receiver advertises never moves left: a
\* peer may always send what it was once allowed to send.
WindowNeverShrinks == [][has_ackno(rc) => Edge' >= Edge]_vars

Stores(receiver, k) == \/ k < bytes_written(stream_out(receiver))
                       \/ \E n \in receiver.reassembler.cache : k \in n.first .. End(n) - 1

\* The advertised window tells the peer exactly what the receiver will take:
\* of a segment that arrives next, the bytes before the edge are stored, and
\* none beyond it.
WindowIsExact ==
    has_ackno(rc) =>
        \A x \in plan :
            LET after == segment_received(rc, SegmentOf(x))
            IN  \A k \in x.from .. x.to - 1 : Stores(after, k) <=> k + 1 < Edge
=============================================================================
