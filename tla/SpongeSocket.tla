---------------------------- MODULE SpongeSocket ----------------------------
(***************************************************************************)
(* TCPSpongeSocket: the socket pair between the owner and the TCP thread,  *)
(* and the thread's state with its four rules.                             *)
(*                                                                         *)
(* The TCPConnection, which has modules of its own, appears as what its    *)
(* owner can see of it: two streams, whether it is active, and whether     *)
(* segments wait to be sent.  Its peer has a window of one byte.           *)
(***************************************************************************)
EXTENDS EventLoop, ByteStreamOps, SequencesExt

CONSTANTS Capacity,    \* of the streams
          PipeSize     \* what each direction of the socket pair holds

\* up is the direction to the TCP thread, down the one to the owner.  A
\* direction that was shut down can be read to its end.
NewPair == [up |-> <<>>, down |-> <<>>, up_shut |-> FALSE, down_shut |-> FALSE]
ShutBoth(pair) == [pair EXCEPT !.up_shut = TRUE, !.down_shut = TRUE]

\* What poll finds at an end of the pair, given what it reads and writes.
EndEvents(pair, in, in_shut, out) ==
    (IF in # <<>> \/ in_shut THEN {"in"} ELSE {})
      \cup (IF Len(out) < PipeSize THEN {"out"} ELSE {})
      \cup (IF pair.up_shut /\ pair.down_shut THEN {"hup"} ELSE {})
OwnerEvents(pair) == EndEvents(pair, pair.down, pair.down_shut, pair.up)
ThreadEvents(pair) == EndEvents(pair, pair.up, pair.up_shut, pair.down)

\* FileDescriptor::read and write of a number of bytes.
ReadLength(queue, limit) == LesserOf(Len(queue), limit)
WroteLength(queue, data) == LesserOf(PipeSize - Len(queue), Len(data))

-----------------------------------------------------------------------------
(* The TCPConnection. *)

\* A segment or a datagram: a SYN, a FIN, a RST, one without contents, or a
\* byte.
Control(kind) == [kind |-> kind, byte |-> 0]
Data(byte) == [kind |-> "byte", byte |-> byte]

NewTcp == [connected |-> FALSE, active |-> TRUE, linger |-> TRUE,
           outbound |-> NewStream(Capacity), inbound |-> NewStream(Capacity),
           in_flight |-> {Control("syn")}, fin_acked |-> FALSE,
           segments_out |-> <<Control("syn")>>]

Send(tcp, what) == [tcp EXCEPT !.segments_out = Append(@, what)]
SendInWindow(tcp, what) == [Send(tcp, what) EXCEPT !.in_flight = {what}]

fill_window(tcp) ==
    IF tcp.in_flight # {} THEN tcp
    ELSE IF ~buffer_empty(tcp.outbound)
    THEN [SendInWindow(tcp, Data(Peeked(tcp.outbound, 1)[1])) EXCEPT !.outbound = Popped(@, 1)]
    ELSE IF tcp.outbound.input_ended /\ ~tcp.fin_acked
    THEN SendInWindow(tcp, Control("fin"))
    ELSE tcp

Finished(tcp) == tcp.inbound.input_ended /\ tcp.fin_acked

set_rst_state(tcp) == [tcp EXCEPT !.active = FALSE, !.linger = FALSE,
                                  !.outbound = Failed(@), !.inbound = Failed(@)]

\* What the receiver and the sender make of a datagram; one without contents
\* acknowledges what is in flight, as a SYN does.
Taken(tcp, datagram) ==
    CASE datagram.kind = "syn" -> [tcp EXCEPT !.connected = TRUE, !.in_flight = {}]
      [] datagram.kind = "fin" -> [tcp EXCEPT !.inbound = Ended(@)]
      [] datagram.kind = "byte" -> [tcp EXCEPT !.inbound = Written(@, <<datagram.byte>>)]
      [] datagram.kind = "empty" -> [tcp EXCEPT !.fin_acked = Control("fin") \in tcp.in_flight,
                                                !.in_flight = {}]

segment_received(tcp, datagram) ==
    LET taken == Taken(tcp, datagram)
        t == [taken EXCEPT !.linger = @ /\ ~(taken.inbound.input_ended /\ ~eof(taken.outbound))]
        filled == fill_window(t)
    IN  IF datagram.kind = "rst" THEN set_rst_state(tcp)
        ELSE IF Finished(t) /\ ~t.linger THEN [t EXCEPT !.active = FALSE]
        ELSE IF filled = t /\ datagram.kind # "empty" THEN Send(t, Control("empty"))
        ELSE filled

write(tcp, data) == fill_window([tcp EXCEPT !.outbound = Written(@, data)])
end_input_stream(tcp) == fill_window([tcp EXCEPT !.outbound = Ended(@)])

\* The time that has passed may have been enough for the connection to be
\* given up, or to have lingered long enough.  One that is given up drops
\* the sender's queue, which holds no more than what this tick sends again:
\* what the connection has queued already goes out before the RST.
tick(tcp, hopeless, lingered) ==
    IF hopeless THEN set_rst_state(Send(tcp, Control("rst")))
    ELSE [tcp EXCEPT !.active = ~(Finished(tcp) /\ tcp.linger /\ lingered)]

-----------------------------------------------------------------------------
(* The rules: datagrams, from the owner, to the owner, segments. *)

NewSocket == [loop |-> NewLoop, tcp |-> NewTcp, eof |-> FALSE,
              inbound_shutdown |-> FALSE, outbound_shutdown |-> FALSE]

SocketDirection == <<"in", "in", "out", "out">>

SocketGone(s, r) == r = 2 /\ s.eof

\* Of the rules only the second has something to do when it is cancelled.
SocketCancel(s, r) ==
    IF r = 2 THEN [s EXCEPT !.tcp = end_input_stream(@), !.outbound_shutdown = TRUE] ELSE s

\* Mutant: the third rule does not remember that it has shut the pair down.
SocketInterest_again(s, r) ==
    CASE r = 1 -> s.tcp.active
      [] r = 2 -> s.tcp.active /\ ~s.outbound_shutdown /\ remaining_capacity(s.tcp.outbound) > 0
      [] r = 3 -> ~buffer_empty(s.tcp.inbound) \/ eof(s.tcp.inbound) \/ s.tcp.inbound.error
      [] r = 4 -> s.tcp.segments_out # <<>>

SocketInterest(s, r) ==
    CASE r = 1 -> s.tcp.active
      [] r = 2 -> s.tcp.active /\ ~s.outbound_shutdown /\ remaining_capacity(s.tcp.outbound) > 0
      [] r = 3 -> \/ ~buffer_empty(s.tcp.inbound)
                  \/ (eof(s.tcp.inbound) \/ s.tcp.inbound.error) /\ ~s.inbound_shutdown
      [] r = 4 -> s.tcp.segments_out # <<>>

SocketSetUp(s) == set_up(s, SocketGone, SocketCancel, SocketInterest)
=============================================================================
