--------------------------- MODULE TCPConnection ---------------------------
(***************************************************************************)
(* class TCPConnection: one endpoint, made of a TCPReceiver and a          *)
(* TCPSender, and the summaries of class TCPState it decides by.           *)
(*                                                                         *)
(* There are two clocks.  tick counts the time that has passed.  For an    *)
(* owner that lets any time pass between two calls, tick_finding reduces   *)
(* it to what a call can find out: that the retransmission timer has       *)
(* expired, and that no segment has arrived for ten initial timeouts.      *)
(***************************************************************************)
EXTENDS ByteStreamOps, WrappingIntegers, TCPSegment

CONSTANT MAX_PAYLOAD_SIZE

Rx == INSTANCE TCPReceiver
Tx == INSTANCE TCPSender

\* The limit MAX_RETX_ATTEMPTS is taken to be a member of the configuration.
NewConnection(cfg) ==
    [receiver |-> Rx!NewReceiver(cfg.recv_capacity),
     sender |-> Tx!NewSender(cfg.send_capacity, cfg.rt_timeout, cfg.isn),
     segments_out |-> <<>>,
     linger |-> TRUE,
     active |-> TRUE,
     idle |-> 0,            \* time_since_last_segment_received
     max_attempts |-> cfg.max_attempts]

inbound_stream(c) == Rx!stream_out(c.receiver)

-----------------------------------------------------------------------------
(* TCPState::state_summary *)

receiver_state(c) ==
    IF inbound_stream(c).error THEN "ERROR"
    ELSE IF ~Rx!has_ackno(c.receiver) THEN "LISTEN"
    ELSE IF inbound_stream(c).input_ended THEN "FIN_RECV"
    ELSE "SYN_RECV"

sender_state(c) ==
    LET s == c.sender
    IN  IF s.stream.error THEN "ERROR"
        ELSE IF s.next_seqno = 0 THEN "CLOSED"
        ELSE IF s.next_seqno = Tx!bytes_in_flight(s) THEN "SYN_SENT"
        ELSE IF ~eof(s.stream) \/ s.next_seqno < bytes_written(s.stream) + 2 THEN "SYN_ACKED"
        ELSE IF Tx!bytes_in_flight(s) > 0 THEN "FIN_SENT"
        ELSE "FIN_ACKED"

BothFinished(c) == receiver_state(c) = "FIN_RECV" /\ sender_state(c) = "FIN_ACKED"

-----------------------------------------------------------------------------
(* The private operations. *)

\* The largest window the header's 16 bits can tell.
MaxWindow == 65535

\* Mutant: a segment of an endpoint that has heard nothing claims an ackno.
Stamped_always_ack(c, seg) ==
    [seg EXCEPT !.ack = TRUE,
                !.ackno = IF Rx!has_ackno(c.receiver) THEN Rx!ackno(c.receiver) ELSE 0,
                !.win = LesserOf(Rx!window_size(c.receiver), MaxWindow)]

Stamped(c, seg) ==
    [seg EXCEPT !.ack = receiver_state(c) # "LISTEN",
                !.ackno = IF Rx!has_ackno(c.receiver) THEN Rx!ackno(c.receiver) ELSE 0,
                !.win = LesserOf(Rx!window_size(c.receiver), MaxWindow)]

\* What the sender has queued leaves with the receiver's news.
send_with_ackno_and_win(c) ==
    LET queue == c.sender.segments_out
    IN  [c EXCEPT !.sender.segments_out = <<>>,
                  !.segments_out = @ \o [i \in DOMAIN queue |-> Stamped(c, queue[i])]]

send_rst_seg(c) ==
    [c EXCEPT !.sender.segments_out =
         Append(@, [NewSegment EXCEPT !.seqno = wrap(c.sender.next_seqno, c.sender.isn),
                                      !.rst = TRUE])]

set_rst_state(c) ==
    [c EXCEPT !.active = FALSE,
              !.linger = FALSE,
              !.sender.stream = Failed(@),
              !.receiver.reassembler.output = Failed(@)]

-----------------------------------------------------------------------------
(* The public operations. *)

\* Mutant: whoever has received the FIN does not linger.
decide_linger_on_fin(c) ==
    IF inbound_stream(c).input_ended THEN [c EXCEPT !.linger = FALSE] ELSE c

\* segment_received: the endpoint that hears the end of the peer's stream
\* before its own has ended need not linger.
decide_linger(c) ==
    IF inbound_stream(c).input_ended /\ ~eof(c.sender.stream)
    THEN [c EXCEPT !.linger = FALSE]
    ELSE c

\* Something has to be said, even if there is nothing to send: the segment
\* takes up sequence numbers, or is a keep-alive.
MustAnswer(c, seg) ==
    \/ length_in_sequence_space(seg) > 0
    \/ seg.seqno = Minus(Rx!ackno(c.receiver), 1)

\* segment_received: fill the window and answer, once the peer's SYN is known.
reply(c, seg) ==
    LET filled == [c EXCEPT !.sender = Tx!fill_window(@)]
    IN  IF ~Rx!has_ackno(c.receiver) THEN c
        ELSE IF filled.sender.segments_out = <<>> /\ MustAnswer(c, seg)
        THEN [filled EXCEPT !.sender = Tx!send_empty_segment(@)]
        ELSE filled

segment_received(c, seg) ==
    LET received == [c EXCEPT !.idle = 0, !.receiver = Rx!segment_received(@, seg)]
        informed == IF seg.ack
                    THEN [received EXCEPT !.sender = Tx!ack_received(@, seg.ackno, seg.win)]
                    ELSE received
        decided == decide_linger(informed)
    IN  IF seg.rst THEN set_rst_state(c)
        ELSE IF BothFinished(decided) /\ ~decided.linger
        THEN [decided EXCEPT !.active = FALSE]
        ELSE send_with_ackno_and_win(reply(decided, seg))

write(c, data) ==
    send_with_ackno_and_win(
        [c EXCEPT !.sender = Tx!fill_window([@ EXCEPT !.stream = Written(@, data)])])

end_input_stream(c) ==
    send_with_ackno_and_win(
        [c EXCEPT !.sender = Tx!fill_window([@ EXCEPT !.stream = Ended(@)])])

connect(c) == send_with_ackno_and_win([c EXCEPT !.sender = Tx!fill_window(@)])

\* The connection is given up after too many retransmissions in a row.
abort_if_hopeless(c) ==
    IF c.sender.retransmissions > c.max_attempts
    THEN set_rst_state(send_rst_seg([c EXCEPT !.sender.segments_out = <<>>]))
    ELSE c

\* Mutant: an endpoint leaves after its linger time, finished or not.
after_tick_leaves_early(c, idle_long) ==
    LET sent == send_with_ackno_and_win(abort_if_hopeless(c))
    IN  IF receiver_state(sent) = "FIN_RECV" /\ sent.linger /\ idle_long
        THEN [sent EXCEPT !.active = FALSE]
        ELSE sent

\* What tick does once the sender's own tick is over.
after_tick(c, idle_long) ==
    LET sent == send_with_ackno_and_win(abort_if_hopeless(c))
    IN  IF BothFinished(sent) /\ sent.linger /\ idle_long
        THEN [sent EXCEPT !.active = FALSE]
        ELSE sent

LingerTime(c) == 10 * c.sender.initial_timeout

\* The time beyond the linger time is not counted.
tick(c, ms) ==
    LET idle == LesserOf(c.idle + ms, LingerTime(c))
    IN  after_tick([c EXCEPT !.sender = Tx!tick(@, ms), !.idle = idle], idle = LingerTime(c))

tick_finding(c, timer_expired, idle_long) ==
    LET s == Tx!remove_acked_seg(c.sender)
    IN  after_tick([c EXCEPT !.sender = IF timer_expired /\ s.cache # <<>>
                                        THEN Tx!retransmit(s) ELSE s], idle_long)

\* The destructor.
destroy(c) ==
    IF c.active THEN send_with_ackno_and_win(set_rst_state(send_rst_seg(c))) ELSE c
=============================================================================
