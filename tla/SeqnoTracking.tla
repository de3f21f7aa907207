--------------------------- MODULE SeqnoTracking ---------------------------
(***************************************************************************)
(* How the endpoints of a connection use wrap and unwrap.  One direction   *)
(* of an established connection: the sender numbers its segments, the      *)
(* receiver recovers their absolute numbers with the length of what it has *)
(* assembled as its checkpoint and acknowledges, and the sender recovers   *)
(* the acknowledgments with its next number.  Both only ever see the low   *)
(* half, over any number of wrap-arounds.                                  *)
(*                                                                         *)
(* Bytes are their stream indices.  The receiver's owner reads at once, so *)
(* the window does not change.  The network delivers everything that was   *)
(* sent any number of times, in any order or never; it is TCP's assumption *)
(* that nothing stays in it while Lifetime further numbers are used.       *)
(***************************************************************************)
EXTENDS WrappingIntegers

CONSTANTS Window,    \* what the receiver advertises, its capacity
          Lifetime   \* how many numbers may overtake a packet

ASSUME LifetimeAssumption == /\ Window \in Nat \ {0}
                             /\ Lifetime \in Nat
                             /\ Window =< Lifetime
                             /\ 2 * Lifetime < U32

VARIABLES isn,            \* the stream's initial sequence number
          next_seqno,     \* sender: the absolute number of the next byte
          latest_ackno,   \* sender: the raw number it was sent last
          window_used,    \* sender: _window_used_size
          bytes_written,  \* receiver: the length of the assembled stream
          unassembled,    \* receiver: the indices of bytes past a gap
          segments,       \* sent: [seqno, len], and first, the absolute number
          acks            \* sent: [ackno], and at, the absolute number

sender == <<next_seqno, latest_ackno, window_used>>
receiver == <<bytes_written, unassembled>>
vars == <<isn, sender, receiver, segments, acks>>

\* The handshake is over.
Init == /\ isn \in Raw
        /\ next_seqno = 1
        /\ latest_ackno = wrap(1, isn)
        /\ window_used = 0
        /\ bytes_written = 0
        /\ unassembled = {}
        /\ segments = {}
        /\ acks = {}

\* Mutant: what is sent does not use up the window.
fill_window_uncounted(n) ==
    /\ n =< Window - window_used
    /\ next_seqno + n < U64
    /\ next_seqno' = next_seqno + n
    /\ segments' = {s \in segments : next_seqno' =< s.first + Lifetime}
                     \cup {[seqno |-> wrap(next_seqno, isn), first |-> next_seqno, len |-> n]}
    /\ acks' = {a \in acks : next_seqno' =< a.at + Lifetime}
    /\ UNCHANGED <<isn, latest_ackno, window_used, receiver>>

\* The sender sends the next n bytes, as far as the window goes.  A segment
\* it sends again is one that is still among segments.
fill_window(n) ==
    /\ n =< Window - window_used
    /\ next_seqno + n < U64
    /\ next_seqno' = next_seqno + n
    /\ window_used' = window_used + n
    /\ segments' = {s \in segments : next_seqno' =< s.first + Lifetime}
                     \cup {[seqno |-> wrap(next_seqno, isn), first |-> next_seqno, len |-> n]}
    /\ acks' = {a \in acks : next_seqno' =< a.at + Lifetime}
    /\ UNCHANGED <<isn, latest_ackno, receiver>>

\* The bytes the reassembler holds after a segment: of those in its window.
Held(s) ==
    LET absolute_seqno == unwrap(s.seqno, isn, bytes_written)
        index == (absolute_seqno - 1) % U64
    IN  unassembled \cup ((index .. index + s.len - 1)
                            \cap (bytes_written .. bytes_written + Window - 1))

\* All that is contiguous is assembled, and the segment is acknowledged.
segment_received(s) ==
    /\ bytes_written' \in bytes_written .. bytes_written + Window
    /\ bytes_written .. bytes_written' - 1 \subseteq Held(s)
    /\ bytes_written' \notin Held(s)
    /\ unassembled' = {i \in Held(s) : i > bytes_written'}
    /\ acks' = acks \cup {[ackno |-> wrap(1 + bytes_written', isn), at |-> 1 + bytes_written']}
    /\ UNCHANGED <<isn, sender, segments>>

\* An acknowledgment that is older than the latest, or beyond what was sent,
\* is ignored.
ack_received(m) ==
    LET b == unwrap(m.ackno, isn, next_seqno)
        a == unwrap(Plus(latest_ackno, window_used), isn, next_seqno)
        used == IF a > b THEN a - b ELSE 0
    IN  /\ unwrap(latest_ackno, isn, next_seqno) =< b
        /\ b =< next_seqno
        /\ window_used' = IF used > Window THEN Window ELSE used
        /\ latest_ackno' = m.ackno
        /\ UNCHANGED <<isn, next_seqno, receiver, segments, acks>>

Next == \/ \E n \in 1 .. Window : fill_window(n)
        \/ \E s \in segments : segment_received(s)
        \/ \E m \in acks : ack_received(m)

Spec == Init /\ [][Next]_vars

-----------------------------------------------------------------------------
(* Properties. *)

\* Raw numbers have the width of WrappingInt32, absolute ones that of uint64_t.
TypeOK == /\ isn \in Raw
          /\ next_seqno \in Absolute
          /\ latest_ackno \in Raw
          /\ window_used \in 0 .. Window
          /\ bytes_written \in Absolute
          /\ unassembled \subseteq Absolute
          /\ segments \subseteq [seqno : Raw, first : Absolute, len : 1 .. Window]
          /\ acks \subseteq [ackno : Raw, at : Absolute]

\* unwrap does what its comment promises, for both checkpoints in use: the
\* absolute number it returns wraps to the number it was given, and no other
\* one that does is closer to the checkpoint, at both ends of the 64-bit
\* range included.
UnwrapIsClosest ==
    \A n \in Raw, checkpoint \in {bytes_written, next_seqno} :
        LET u == unwrap(n, isn, checkpoint)
        IN  /\ u \in Absolute
            /\ wrap(u, isn) = n
            /\ \A a \in Absolute :
                  wrap(a, isn) = n => Distance(checkpoint, u) =< Distance(checkpoint, a)

\* Neither endpoint loses track of the other, however often the low half has
\* wrapped around: every segment that may still arrive is put where it was
\* sent from, every acknowledgment is taken for the number it was sent for,
\* and the sender never counts as acknowledged, and so drops, a byte that the
\* receiver has not assembled, nor the receiver one that was not sent.
NumbersAreRecovered ==
    /\ \A s \in segments : unwrap(s.seqno, isn, bytes_written) = s.first
    /\ \A m \in acks : unwrap(m.ackno, isn, next_seqno) = m.at
    /\ unwrap(latest_ackno, isn, next_seqno) =< bytes_written + 1
    /\ bytes_written < next_seqno
=============================================================================
