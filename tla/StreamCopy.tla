----------------------------- MODULE StreamCopy -----------------------------
(***************************************************************************)
(* bidirectional_stream_copy: the state of the thread that copies its      *)
(* input to the socket and the socket to its output, and its four rules:   *)
(* from the input, to the socket, from the socket, to the output.          *)
(***************************************************************************)
EXTENDS EventLoop, ByteStreamOps

CONSTANTS BufferSize,    \* of the two streams
          MaxCopy        \* the most that is written at once

NewCopy == [loop |-> NewLoop,
            outbound |-> NewStream(BufferSize), inbound |-> NewStream(BufferSize),
            outbound_shutdown |-> FALSE, inbound_shutdown |-> FALSE,
            input_eof |-> FALSE, socket_eof |-> FALSE, output_closed |-> FALSE]

CopyDirection == <<"in", "out", "in", "out">>

CopyGone(c, r) == \/ r = 1 /\ c.input_eof
                  \/ r = 3 /\ c.socket_eof
                  \/ r = 4 /\ c.output_closed

CopyCancel(c, r) == IF r \in {1, 2} THEN [c EXCEPT !.outbound = Ended(@)]
                    ELSE [c EXCEPT !.inbound = Ended(@)]

CopyInterest(c, r) ==
    CASE r = 1 -> /\ ~c.outbound.error /\ ~c.inbound.error
                  /\ remaining_capacity(c.outbound) > 0
      [] r = 2 -> \/ ~buffer_empty(c.outbound)
                  \/ eof(c.outbound) /\ ~c.outbound_shutdown
      [] r = 3 -> /\ ~c.outbound.error /\ ~c.inbound.error
                  /\ remaining_capacity(c.inbound) > 0
      [] r = 4 -> \/ ~buffer_empty(c.inbound)
                  \/ eof(c.inbound) /\ ~c.inbound_shutdown

CopySetUp(c) == set_up(c, CopyGone, CopyCancel, CopyInterest)

\* Some bytes that were read, none of them at the end of what is read.
TakeInput(c, bytes) ==
    [c EXCEPT !.outbound = IF bytes = <<>> THEN Ended(@) ELSE Written(@, bytes),
              !.input_eof = (bytes = <<>>)]
TakeSocket(c, bytes) ==
    [c EXCEPT !.inbound = IF bytes = <<>> THEN Ended(@) ELSE Written(@, bytes),
              !.socket_eof = (bytes = <<>>)]

\* Mutant: the socket is shut down whenever there is nothing left to write.
GaveSocket_empty(c, n) ==
    LET outbound == Popped(c.outbound, n)
    IN  [c EXCEPT !.outbound = outbound, !.outbound_shutdown = @ \/ buffer_empty(outbound)]

\* Some bytes were written; at the end of the stream the socket is shut down,
\* the output closed.
GaveSocket(c, n) ==
    LET outbound == Popped(c.outbound, n)
    IN  [c EXCEPT !.outbound = outbound, !.outbound_shutdown = @ \/ eof(outbound)]
GaveOutput(c, n) ==
    LET inbound == Popped(c.inbound, n)
    IN  [c EXCEPT !.inbound = inbound, !.inbound_shutdown = @ \/ eof(inbound),
                  !.output_closed = @ \/ eof(inbound)]
=============================================================================
