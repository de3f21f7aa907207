-------------------------- MODULE MCConnectionPair --------------------------
(* The scenarios that are played by the two endpoints. *)
EXTENDS ConnectionPair

ConfigOf(capacity, isn, attempts) ==
    [recv_capacity |-> capacity, send_capacity |-> 2, rt_timeout |-> 1, isn |-> isn,
     max_attempts |-> attempts]

\* The sequence numbers of both wrap around during the exchange.
Windows(client, server, attempts) ==
    [client |-> ConfigOf(client, 14, attempts), server |-> ConfigOf(server, 15, attempts)]

Both(client, server) == [client |-> client, server |-> server]

\* The client's window closes with every byte it receives.
FullWindow == [config |-> Windows(1, 2, 1), stream_len |-> Both(2, 2), timed |-> TRUE,
               max_lost |-> 0, benchmark |-> "no", quiet_close |-> TRUE, may_end |-> Endpoints,
               may_destroy |-> {}, max_net |-> Both(1, 1)]

\* The windows have room for both streams.
OpenWindow == [FullWindow EXCEPT !.config = Windows(2, 2, 1), !.stream_len = Both(2, 1),
                                 !.quiet_close = FALSE]

Truncated == [FullWindow EXCEPT !.quiet_close = FALSE]

\* Three segments are lost; a fourth retransmission in a row would be too many.
Losing == [FullWindow EXCEPT !.config = Windows(2, 2, 3), !.stream_len = Both(1, 1),
                             !.max_lost = 3]

\* The benchmark, with the string longer than the buffers.
Ordered == [OpenWindow EXCEPT !.benchmark = "ordered", !.stream_len = Both(5, 0)]
Reversed == [Ordered EXCEPT !.benchmark = "reversed"]

\* Segments are lost and repeated, and resent once before they are given up.
Lossy == [config |-> Windows(2, 2, 1), stream_len |-> Both(1, 1), timed |-> FALSE,
          max_lost |-> 0, benchmark |-> "no", quiet_close |-> TRUE, may_end |-> Endpoints,
          may_destroy |-> {}, max_net |-> Both(1, 1)]

\* The server's acknowledgments overtake each other.
Reordered == [Lossy EXCEPT !.config = Windows(2, 2, 0), !.stream_len = Both(1, 0),
                           !.may_destroy = {"client"}, !.max_net = Both(2, 1)]

\* Two of the client's segments are under way together, overtake each other
\* and come again after later ones; the server does not end its stream.
Overtaking == [Lossy EXCEPT !.config = Windows(2, 2, 0), !.stream_len = Both(2, 0),
                            !.may_end = {"client"}, !.max_net = Both(1, 2)]

TimedScenarios == [full_window |-> FullWindow, open_window |-> OpenWindow, losing |-> Losing,
                   ordered |-> Ordered, reversed |-> Reversed]
UnreliableScenarios == [lossy |-> Lossy, reordered |-> Reordered,
                        overtaking |-> Overtaking]
TruncatedScenario == [truncated |-> Truncated]
=============================================================================
