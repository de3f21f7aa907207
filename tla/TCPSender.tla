----------------------------- MODULE TCPSender -----------------------------
(***************************************************************************)
(* class TCPSender: cuts the outgoing stream into segments as the peer's   *)
(* window allows, keeps a copy of each until it is acknowledged, and       *)
(* retransmits the oldest when the timer expires.                          *)
(*                                                                         *)
(* A kept segment carries its age, the time since it was last sent, in     *)
(* place of the absolute time of sending: the code only subtracts the two. *)
(***************************************************************************)
EXTENDS ByteStreamOps, WrappingIntegers, TCPSegment

CONSTANT MAX_PAYLOAD_SIZE

NewSender(capacity, retx_timeout, isn) ==
    [isn |-> isn,
     segments_out |-> <<>>,
     stream |-> NewStream(capacity),
     next_seqno |-> 0,                \* absolute
     window_size |-> 1,
     window_used |-> 0,
     cache |-> <<>>,                  \* of [age, seg], the oldest first
     initial_timeout |-> retx_timeout,
     timeout |-> retx_timeout,
     latest_ackno |-> isn,
     syned |-> FALSE,
     fin |-> FALSE,
     retransmissions |-> 0]

One(flag) == IF flag THEN 1 ELSE 0

AbsoluteOf(s, n) == unwrap(n, s.isn, s.next_seqno)

bytes_in_flight(s) == (s.next_seqno - AbsoluteOf(s, s.latest_ackno)) % U64

\* A new segment is queued for sending and kept for retransmission.
Send(s, seg) ==
    LET numbered == [seg EXCEPT !.seqno = wrap(s.next_seqno, s.isn)]
    IN  [s EXCEPT !.segments_out = Append(@, numbered),
                  !.cache = Append(@, [age |-> 0, seg |-> numbered]),
                  !.next_seqno = @ + length_in_sequence_space(seg),
                  !.window_used = @ + length_in_sequence_space(seg)]

\* Mutant: the probing byte is sent and not taken from the stream.
ProbeZeroWindow_keeps_byte(s) ==
    IF ~buffer_empty(s.stream)
    THEN Send(s, [NewSegment EXCEPT !.payload = Peeked(s.stream, 1)])
    ELSE s

\* Mutant: a closed window is not probed.
ProbeZeroWindow_never(s) == s

\* fill_window when the window is zero: one byte, or the FIN, as a probe.
ProbeZeroWindow(s) ==
    IF ~buffer_empty(s.stream)
    THEN Send([s EXCEPT !.stream = Popped(@, 1)],
              [NewSegment EXCEPT !.payload = Peeked(s.stream, 1)])
    ELSE IF eof(s.stream) /\ ~s.fin
    THEN Send([s EXCEPT !.fin = TRUE], [NewSegment EXCEPT !.fin = TRUE])
    ELSE s

window_unused_size(s) ==
    IF s.window_size > s.window_used THEN s.window_size - s.window_used ELSE 0

\* Mutant: the FIN is added to a segment that already fills the window.
FinFits_ignores_window(s, stream, content, unused) == eof(stream) /\ ~s.fin

\* The FIN goes with this content if the stream ends with it and the window
\* has room for one more.
FinFits(s, stream, content, unused) ==
    eof(stream) /\ ~s.fin /\ Len(content) + One(~s.syned) < unused

\* One turn of the loop of fill_window; no change once it is over.
FillOnce(s) ==
    LET unused == window_unused_size(s)
        payload_size == GreaterOf(1, LesserOf(unused - One(~s.syned), MAX_PAYLOAD_SIZE))
        content == Peeked(s.stream, payload_size)
        stream == Popped(s.stream, payload_size)
        fin == FinFits(s, stream, content, unused)
        seg == [NewSegment EXCEPT !.payload = content, !.syn = ~s.syned, !.fin = fin]
    IN  IF \/ buffer_empty(s.stream) /\ s.syned /\ s.fin
           \/ unused = 0
           \/ length_in_sequence_space(seg) = 0
        THEN s
        ELSE Send([s EXCEPT !.stream = stream, !.syned = TRUE, !.fin = @ \/ fin], seg)

\* Each turn of the loop uses up at least one number of the window.
fill_window(s) ==
    LET after[turns \in 0 .. s.window_size] ==
            IF turns = 0 THEN s ELSE FillOnce(after[turns - 1])
    IN  IF s.window_size = 0 /\ s.window_used = 0 THEN ProbeZeroWindow(s)
        ELSE after[s.window_size]

\* Mutant: a segment is forgotten as soon as its first number is acknowledged.
IsAcked_first_number(s, seg) ==
    AbsoluteOf(s, s.latest_ackno) > AbsoluteOf(s, seg.seqno)

IsAcked(s, seg) ==
    AbsoluteOf(s, s.latest_ackno)
        >= AbsoluteOf(s, Plus(seg.seqno, length_in_sequence_space(seg)))

\* The acknowledged segments at the front of the cache are dropped.
remove_acked_seg(s) ==
    LET acked(i) == IsAcked(s, s.cache[i].seg)
        front == CHOOSE n \in 0 .. Len(s.cache) : /\ \A i \in 1 .. n : acked(i)
                                                  /\ n < Len(s.cache) => ~acked(n + 1)
    IN  [s EXCEPT !.cache = SubSeq(@, front + 1, Len(@))]

\* The front of the cache counts as sent now.
RestartTimer(s) ==
    IF s.cache = <<>> THEN s ELSE [s EXCEPT !.cache[1].age = 0]

\* Mutant: older acknowledgments are taken as well.
IsIgnored_unsent_only(s, ackno) == AbsoluteOf(s, ackno) > s.next_seqno

\* An acknowledgment older than the latest, or of something never sent.
IsIgnored(s, ackno) ==
    \/ AbsoluteOf(s, s.latest_ackno) > AbsoluteOf(s, ackno)
    \/ AbsoluteOf(s, ackno) > s.next_seqno

\* What is taken to be in use of the window that begins at ackno.
UsedAfter(s, ackno, window_size) ==
    LET a == AbsoluteOf(s, Plus(s.latest_ackno, s.window_used))
        b == AbsoluteOf(s, ackno)
    IN  LesserOf(IF a > b THEN a - b ELSE 0, window_size)

\* Mutant: the ackno is taken for the last number received.
Acknowledge_inclusive(s, ackno) ==
    RestartTimer(remove_acked_seg([s EXCEPT !.timeout = s.initial_timeout,
                                            !.retransmissions = 0,
                                            !.latest_ackno = Plus(ackno, 1)]))

\* The effects of an acknowledgment of something new.
Acknowledge(s, ackno) ==
    RestartTimer(remove_acked_seg([s EXCEPT !.timeout = s.initial_timeout,
                                            !.retransmissions = 0,
                                            !.latest_ackno = ackno]))

ack_received(s, ackno, window_size) ==
    LET windowed == [s EXCEPT !.window_size = window_size,
                              !.window_used = UsedAfter(s, ackno, window_size)]
    IN  IF IsIgnored(s, ackno) THEN s
        ELSE IF ackno = s.latest_ackno THEN windowed
        ELSE Acknowledge(windowed, ackno)

\* Mutant: the newest segment is sent again.
retransmit_newest(s) ==
    LET backoff == s.window_size # 0
    IN  [s EXCEPT !.segments_out = Append(@, s.cache[Len(s.cache)].seg),
                  !.cache[1].age = 0,
                  !.retransmissions = IF backoff THEN @ + 1 ELSE @,
                  !.timeout = IF backoff THEN 2 * @ ELSE @]

\* The timer has expired: the oldest segment is sent again, and the timeout
\* is doubled unless the peer merely has no room.
retransmit(s) ==
    LET backoff == s.window_size # 0
    IN  [s EXCEPT !.segments_out = Append(@, s.cache[1].seg),
                  !.cache[1].age = 0,
                  !.retransmissions = IF backoff THEN @ + 1 ELSE @,
                  !.timeout = IF backoff THEN 2 * @ ELSE @]

tick(s, ms) ==
    LET later == [i \in DOMAIN s.cache |-> [age |-> s.cache[i].age + ms, seg |-> s.cache[i].seg]]
        aged == remove_acked_seg([s EXCEPT !.cache = later])
    IN  IF aged.cache = <<>> THEN aged
        ELSE IF aged.cache[1].age >= aged.timeout THEN retransmit(aged)
        ELSE aged

send_empty_segment(s) ==
    [s EXCEPT !.segments_out =
         Append(@, [NewSegment EXCEPT !.seqno = wrap(s.next_seqno, s.isn)])]
=============================================================================
