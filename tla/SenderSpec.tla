----------------------------- MODULE SenderSpec -----------------------------
(***************************************************************************)
(* A TCPSender, the application that writes to it, the clock, and a peer   *)
(* that takes what it is sent and acknowledges it.                         *)
(*                                                                         *)
(* The peer is an honest receiver: it acknowledges only what was sent and  *)
(* what its window admitted, and never moves the right edge of its window  *)
(* back.  Its acknowledgments travel through a network that may lose them  *)
(* and, if it is a reordering one, repeat and reorder them.                *)
(* The owner drains segments_out after each call, so segments_out always   *)
(* holds what the last call produced.                                      *)
(***************************************************************************)
EXTENDS TCPSender

CONSTANTS StreamLen,     \* bound: bytes the application writes
          SendCapacity,  \* of the outgoing stream
          Timeout,       \* the initial retransmission timeout
          Isn,
          Networks,      \* records [reordering, windows]: what the network may
                         \* do, and the window sizes the peer may advertise
          MaxAcks,       \* bound: acknowledgments in the network
          MaxTime        \* bound: the time that passes

\* The stream is shorter than half the sequence numbers: all numbers in use
\* are close enough to each other for unwrap.
ASSUME SenderAssumption ==
    /\ StreamLen \in Nat /\ 2 * (StreamLen + 2) =< U32
    /\ SendCapacity \in Nat
    /\ Timeout \in Nat
    /\ Isn \in Raw
    /\ MAX_PAYLOAD_SIZE \in Nat
    /\ \A net \in Networks : net.windows \subseteq Nat

VARIABLES network,       \* one of Networks
          s,             \* the sender
          acks,          \* acknowledgments in the network: [ackno, win]
          peer_next,     \* the first absolute number the peer has not taken
          peer_edge,     \* the end of the largest window it has advertised
          now

vars == <<network, s, acks, peer_next, peer_edge, now>>

Init == /\ network \in Networks
        /\ s = NewSender(SendCapacity, Timeout, Isn)
        /\ acks = <<>>
        /\ peer_next = 0
        /\ peer_edge = 0
        /\ now = 0

\* A call: the sender's new state, from one whose queue has been drained.
Drained == [s EXCEPT !.segments_out = <<>>]

-----------------------------------------------------------------------------
(* The application and the owner. *)

Write(n) ==
    /\ bytes_written(s.stream) + n =< StreamLen
    /\ ~s.stream.input_ended
    /\ s' = [Drained EXCEPT !.stream =
                 Written(@, [i \in 1 .. n |-> bytes_written(s.stream) + i - 1])]
    /\ UNCHANGED <<network, acks, peer_next, peer_edge, now>>

EndInput == /\ s' = [Drained EXCEPT !.stream = Ended(@)]
            /\ UNCHANGED <<network, acks, peer_next, peer_edge, now>>

FillWindow == /\ s' = fill_window(Drained)
              /\ UNCHANGED <<network, acks, peer_next, peer_edge, now>>

SendEmpty == /\ s.next_seqno > 0
             /\ s' = send_empty_segment(Drained)
             /\ UNCHANGED <<network, acks, peer_next, peer_edge, now>>

Tick(ms) == /\ now + ms =< MaxTime
            /\ now' = now + ms
            /\ s' = tick(Drained, ms)
            /\ UNCHANGED <<network, acks, peer_next, peer_edge>>

\* The owner fills the window after it has passed on an acknowledgment.
AckReceived(i) ==
    /\ s' = fill_window(ack_received(Drained, acks[i].ackno, acks[i].win))
    /\ \/ acks' = [j \in 1 .. Len(acks) - 1 |-> IF j < i THEN acks[j] ELSE acks[j + 1]]
       \/ network.reordering /\ acks' = acks
    /\ UNCHANGED <<network, peer_next, peer_edge, now>>

-----------------------------------------------------------------------------
(* The peer and the network. *)

\* The peer takes some of what was sent within its window, lets its reader
\* take some of it, and acknowledges.  Its SYN has no window to respect.
PeerAcks(n, win) ==
    /\ Len(acks) < MaxAcks
    /\ s.next_seqno > 0
    /\ n \in GreaterOf(1, peer_next) .. s.next_seqno
    /\ n =< GreaterOf(1, peer_edge)
    /\ n + win >= peer_edge
    /\ peer_next' = n
    /\ peer_edge' = n + win
    /\ acks' = Append(acks, [ackno |-> wrap(n, Isn), win |-> win])
    /\ UNCHANGED <<network, s, now>>

LoseAck == /\ acks # <<>>
           /\ acks' = Tail(acks)
           /\ UNCHANGED <<network, s, peer_next, peer_edge, now>>

Next == \/ \E n \in 1 .. StreamLen : Write(n)
        \/ EndInput
        \/ FillWindow
        \/ SendEmpty
        \/ \E ms \in 1 .. 2 * Timeout : Tick(ms)
        \/ \E i \in 1 .. Len(acks) : (i = 1 \/ network.reordering) /\ AckReceived(i)
        \/ \E n \in 1 .. StreamLen + 2, win \in network.windows : PeerAcks(n, win)
        \/ LoseAck

Spec == Init /\ [][Next]_vars

-----------------------------------------------------------------------------
(* Properties. *)

\* The absolute numbers of the segment at place i of the cache.
FirstOf(i) == AbsoluteOf(s, s.cache[i].seg.seqno)
LastOf(i) == FirstOf(i) + length_in_sequence_space(s.cache[i].seg) - 1

\* Nothing that was sent and not acknowledged can be forgotten: the kept
\* segments follow each other without a gap from at or before the latest
\* acknowledgment up to the next number to be sent.
CacheCoversFlight ==
    IF s.cache = <<>> THEN bytes_in_flight(s) = 0
    ELSE /\ FirstOf(1) =< AbsoluteOf(s, s.latest_ackno)
         /\ AbsoluteOf(s, s.latest_ackno) =< LastOf(1)
         /\ \A i \in 1 .. Len(s.cache) - 1 : FirstOf(i + 1) = LastOf(i) + 1
         /\ LastOf(Len(s.cache)) = s.next_seqno - 1

\* The sender never believes more acknowledged than the peer has taken,
\* however late or lost the acknowledgments are.
AckedWasTaken == AbsoluteOf(s, s.latest_ackno) =< peer_next

\* Every byte handed to a segment travels at its own place: the sequence
\* number of a segment is one more than the stream index of its first byte.
BytesAreInPlace ==
    \A i \in 1 .. Len(s.segments_out) :
        LET seg == s.segments_out[i]
        IN  \A k \in 1 .. Len(seg.payload) :
                Plus(seg.seqno, One(seg.syn) + k - 1) = wrap(seg.payload[k] + 1, Isn)

\* The sender does not send beyond the largest window the peer has
\* advertised.  (The first segment is sent before any window is known; it
\* holds the SYN and at most one byte.)
WindowRespected == s.next_seqno =< GreaterOf(2, peer_edge)

\* It respects the window if acknowledgments come in order and the window does
\* not close.
WindowRespectedInOrder ==
    ~network.reordering /\ 0 \notin network.windows => WindowRespected

\* A step of the clock sends at most one segment, the oldest the peer has
\* not acknowledged, and only when that has waited for the whole timeout.
ClockResendsOldest ==
    [][now' # now /\ s'.segments_out # <<>> =>
          /\ s'.segments_out = <<s.cache[1].seg>>
          /\ ~IsAcked(s, s.cache[1].seg)
          /\ s.cache[1].age + (now' - now) >= s.timeout]_vars
=============================================================================
