---------------------------- MODULE TCPReceiver ----------------------------
(***************************************************************************)
(* class TCPReceiver: translates the sequence numbers of inbound segments  *)
(* to stream indices for its reassembler, and tells the peer how far the   *)
(* stream is assembled and how much more there is room for.                *)
(***************************************************************************)
EXTENDS StreamReassembler, TCPSegment

NewReceiver(capacity) == [reassembler |-> NewReassembler(capacity),
                          isn |-> 0,
                          set_isn |-> FALSE]

stream_out(rc) == rc.reassembler.output

\* The stream begins one sequence number after the SYN.  The segment that
\* brings the first SYN is the only one whose payload begins there too.
Bias(rc) == IF rc.set_isn THEN 1 ELSE 0

segment_received(rc, seg) ==
    IF ~rc.set_isn /\ ~seg.syn THEN rc
    ELSE LET isn == IF rc.set_isn THEN rc.isn ELSE seg.seqno
             checkpoint == bytes_written(stream_out(rc))
             index == (unwrap(seg.seqno, isn, checkpoint) - Bias(rc)) % U64
         IN  [reassembler |-> push_substring(rc.reassembler, seg.payload, index, seg.fin),
              isn |-> isn,
              set_isn |-> TRUE]

\* ackno() is empty until the SYN has arrived.
has_ackno(rc) == rc.set_isn

\* Mutant: the FIN is not acknowledged.
ackno_without_fin(rc) == wrap(1 + bytes_written(stream_out(rc)), rc.isn)

ackno(rc) ==
    wrap(1 + bytes_written(stream_out(rc))
           + (IF stream_out(rc).input_ended THEN 1 ELSE 0), rc.isn)

\* Mutant: the whole capacity is advertised, whatever is waiting to be read.
window_size_ignores_buffer(rc) == stream_out(rc).capacity

\* Mutant: bytes stored out of order are taken off the window as well.
window_size_less_unassembled(rc) ==
    stream_out(rc).capacity - buffer_size(stream_out(rc)) - rc.reassembler.unassembled_bytes

window_size(rc) == stream_out(rc).capacity - buffer_size(stream_out(rc))
=============================================================================
