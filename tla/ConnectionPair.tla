--------------------------- MODULE ConnectionPair ---------------------------
(***************************************************************************)
(* Two TCPConnections, each run by a TCPSpongeSocket, and the network      *)
(* between them: the client connects, the server listens, each writes its  *)
(* stream, ends it, and reads the other's.                                 *)
(*                                                                         *)
(* There are two kinds of network.  A timed one keeps the order and is     *)
(* quick compared with the timeouts, so that time passes only when nothing *)
(* is under way; it loses a bounded number of segments.  The other one     *)
(* loses, repeats and reorders segments, and timers expire whenever they   *)
(* like.  In place of the sockets, the loop of apps/tcp_benchmark.cc may   *)
(* run the two connections.                                                *)
(***************************************************************************)
EXTENDS TCPConnection, SequencesExt

CONSTANT Scenarios       \* a function to records with the fields below

VARIABLES scenario,      \* the one that is played
          conn,          \* the two connections
          net,           \* the segments under way to each endpoint
          lost,          \* how many segments the timed network has lost
          destroyed      \* the endpoints whose owner has abandoned them

vars == <<scenario, conn, net, lost, destroyed>>

Config == Scenarios[scenario].config            \* of each endpoint, as in TCPConfig
StreamLen == Scenarios[scenario].stream_len     \* bound: bytes each endpoint writes
Timed == Scenarios[scenario].timed
MaxLost == Scenarios[scenario].max_lost         \* bound: segments the timed network loses
Benchmark == Scenarios[scenario].benchmark      \* "no", or how move_segments orders them
QuietClose == Scenarios[scenario].quiet_close   \* streams end when all is acknowledged
MayEnd == Scenarios[scenario].may_end           \* endpoints whose stream ends
MayDestroy == Scenarios[scenario].may_destroy   \* endpoints that may be abandoned
MaxNet == Scenarios[scenario].max_net           \* bound: segments under way to each

Endpoints == {"client", "server"}
Peer(e) == IF e = "client" THEN "server" ELSE "client"

Init == /\ scenario \in DOMAIN Scenarios
        /\ conn = [e \in Endpoints |->
                      IF Benchmark = "no" THEN NewConnection(Config[e])
                      ELSE IF e = "client" THEN connect(NewConnection(Config[e]))
                      ELSE end_input_stream(NewConnection(Config[e]))]
        /\ lost = 0
        /\ net = [e \in Endpoints |-> <<>>]
        /\ destroyed = {}

\* What an endpoint has to send enters the network; an unreliable network
\* keeps one copy of equal segments, and none of those it has no room for.
Put(e, queue, seg) ==
    IF Timed THEN Append(queue, seg)
    ELSE IF Len(queue) >= MaxNet[e] \/ Contains(queue, seg) THEN queue
    ELSE Append(queue, seg)

\* The connection of e becomes c, after its owner has drained its queue into
\* the network, from which taken has been removed.
Update(e, c, taken) ==
    /\ conn' = [conn EXCEPT ![e] = [c EXCEPT !.segments_out = <<>>]]
    /\ net' = [net EXCEPT ![e] = taken,
                          ![Peer(e)] = FoldLeft(LAMBDA q, seg : Put(Peer(e), q, seg),
                                                @, c.segments_out)]
    /\ UNCHANGED <<scenario, lost, destroyed>>

-----------------------------------------------------------------------------
(* The owners: TCPSpongeSocket. *)

CanConnect == /\ Benchmark = "no"
              /\ sender_state(conn["client"]) = "CLOSED"
              /\ conn["client"].active

Connect == /\ CanConnect
           /\ Update("client", connect(conn["client"]), net["client"])

\* The application gets hold of its socket when connect() or
\* listen_and_accept() returns.
Established(e) ==
    LET states == <<sender_state(conn[e]), receiver_state(conn[e])>>
    IN  IF e = "client"
        THEN states \notin {<<"CLOSED", "LISTEN">>, <<"SYN_SENT", "LISTEN">>}
        ELSE states \notin {<<"CLOSED", "LISTEN">>, <<"SYN_SENT", "SYN_RECV">>,
                            <<"SYN_SENT", "LISTEN">>}

Outgoing(e) == conn[e].sender.stream
CanWrite(e) == Benchmark = "no" /\ conn[e].active /\ Established(e) /\ ~Outgoing(e).input_ended

\* How much of its stream the application can write.
Room(e) == IF CanWrite(e)
           THEN LesserOf(remaining_capacity(Outgoing(e)),
                         StreamLen[e] - bytes_written(Outgoing(e)))
           ELSE 0

Write(e, n) ==
    /\ n =< Room(e)
    /\ Update(e, write(conn[e], [i \in 1 .. n |-> bytes_written(Outgoing(e)) + i - 1]),
              net[e])

CanEnd(e) ==
    /\ e \in MayEnd
    /\ CanWrite(e)
    /\ remaining_capacity(Outgoing(e)) > 0
    /\ bytes_written(Outgoing(e)) = StreamLen[e]
    /\ QuietClose => buffer_empty(Outgoing(e)) /\ Tx!bytes_in_flight(conn[e].sender) = 0

EndInput(e) ==
    /\ CanEnd(e)
    /\ Update(e, end_input_stream(conn[e]), net[e])

Read(e, n) ==
    /\ Benchmark = "no"
    /\ n =< buffer_size(inbound_stream(conn[e]))
    /\ conn' = [conn EXCEPT ![e].receiver.reassembler.output = Popped(@, n)]
    /\ UNCHANGED <<scenario, net, lost, destroyed>>

\* Nothing is under way.
Quiet == \A e \in Endpoints : net[e] = <<>>

\* The two event loops tell their connections how much time has passed.
Ticked == [e \in Endpoints |-> IF conn[e].active THEN tick(conn[e], 1) ELSE conn[e]]

TimePasses ==
    /\ Timed /\ Benchmark = "no" /\ Quiet
    /\ conn' = [e \in Endpoints |-> [Ticked[e] EXCEPT !.segments_out = <<>>]]
    /\ net' = [e \in Endpoints |-> Ticked[Peer(e)].segments_out]
    /\ UNCHANGED <<scenario, lost, destroyed>>

TimerExpires(e) ==
    /\ ~Timed /\ conn[e].active
    /\ conn[e].sender.cache # <<>>
    /\ Update(e, tick_finding(conn[e], TRUE, FALSE), net[e])

\* A tick that finds neither timer expired changes nothing.
LingerExpires(e) ==
    /\ ~Timed /\ conn[e].active
    /\ tick_finding(conn[e], FALSE, TRUE) # conn[e]
    /\ Update(e, tick_finding(conn[e], FALSE, TRUE), net[e])

\* The owner gives the connection up, and drops it with its queue.
Destroy(e) ==
    /\ e \in MayDestroy \ destroyed
    /\ Established(e)
    /\ conn' = [conn EXCEPT ![e] = [destroy(@) EXCEPT !.segments_out = <<>>]]
    /\ destroyed' = destroyed \cup {e}
    /\ UNCHANGED <<scenario, net, lost>>

-----------------------------------------------------------------------------
(* The network. *)

\* A listening adapter lets only a SYN pass.
Passes(e, seg) ==
    e = "server" /\ ~Rx!has_ackno(conn[e].receiver) => seg.syn /\ ~seg.rst

IsWanted(e, i) == i \in DOMAIN net[e] /\ conn[e].active /\ Passes(e, net[e][i])

Deliver(e, i) ==
    /\ IsWanted(e, i)
    /\ \E taken \in {RemoveAt(net[e], i)} \cup (IF Timed THEN {} ELSE {net[e]}) :
          Update(e, segment_received(conn[e], net[e][i]), taken)

\* The endpoint has gone, or its listening adapter drops the segment.
Ignore(e, i) ==
    /\ i \in DOMAIN net[e] /\ ~IsWanted(e, i)
    /\ net' = [net EXCEPT ![e] = RemoveAt(@, i)]
    /\ UNCHANGED <<scenario, conn, lost, destroyed>>

Lose(e, i) ==
    /\ IsWanted(e, i)
    /\ lost' = IF Timed THEN lost + 1 ELSE lost
    /\ lost' =< MaxLost
    /\ net' = [net EXCEPT ![e] = RemoveAt(@, i)]
    /\ UNCHANGED <<scenario, conn, destroyed>>

-----------------------------------------------------------------------------
(* The benchmark: the client is its x, the server its y. *)

\* As much of the rest of the string as there is room for, as often as there is.
WrittenByLoop(x) ==
    LET once(c) == LET done == bytes_written(c.sender.stream)
                       want == LesserOf(remaining_capacity(c.sender.stream),
                                        StreamLen["client"] - done)
                   IN  IF want = 0 THEN c ELSE write(c, [i \in 1 .. want |-> done + i - 1])
        written == FoldLeft(LAMBDA c, i : once(c), x, [i \in 1 .. StreamLen["client"] |-> i])
    IN  IF /\ bytes_written(written.sender.stream) = StreamLen["client"]
           /\ ~written.sender.stream.input_ended
        THEN end_input_stream(written)
        ELSE written

move_segments(segments, y, reorder) ==
    FoldLeft(segment_received, y, IF reorder THEN Reverse(segments) ELSE segments)

\* One turn of the loop: the two connections after it.
Looped ==
    LET x == WrittenByLoop(conn["client"])
        y == move_segments(x.segments_out, conn["server"], Benchmark = "reversed")
        z == move_segments(y.segments_out, [x EXCEPT !.segments_out = <<>>], FALSE)
    IN  [client |-> tick(z, 1),
         server |-> tick([y EXCEPT !.segments_out = <<>>,
                                   !.receiver.reassembler.output = Popped(@, buffer_size(@))],
                         1)]

CanLoop == /\ Benchmark # "no"
           /\ \/ ~eof(inbound_stream(conn["server"]))
              \/ \E e \in Endpoints : conn[e].active

Loop == /\ CanLoop
        /\ conn' = Looped
        /\ UNCHANGED <<scenario, net, lost, destroyed>>

-----------------------------------------------------------------------------

\* Nothing is left to do.
Finished == \A e \in Endpoints : /\ ~conn[e].active
                                 /\ net[e] = <<>>
                                 /\ buffer_empty(inbound_stream(conn[e]))

Done == Finished /\ UNCHANGED vars

Next ==
    \/ Connect
    \/ \E e \in Endpoints :
          \/ \E n \in 1 .. StreamLen[e] : Write(e, n)
          \/ EndInput(e)
          \/ \E n \in 1 .. StreamLen[Peer(e)] : Read(e, n)
          \/ TimerExpires(e)
          \/ LingerExpires(e)
          \/ Destroy(e)
          \/ \E i \in 1 .. Len(net[e]) : (i = 1 \/ ~Timed)
                /\ (Deliver(e, i) \/ Ignore(e, i) \/ Lose(e, i))
    \/ TimePasses
    \/ Loop
    \/ Done

Spec == Init /\ [][Next]_vars

\* Nothing can change any more, except that segments may be lost: nothing is
\* under way, the applications have nothing to do, and the turns of the event
\* loops, which never end, have no effect.
Stalled ==
    /\ Quiet /\ ~CanConnect
    /\ \A e \in Endpoints : ~CanEnd(e) /\ Room(e) = 0 /\ buffer_empty(inbound_stream(conn[e]))
    /\ Benchmark = "no" => Ticked = conn
    /\ CanLoop => Looped = conn

\* Weak fairness of Next, with what it means for Next to be disabled written
\* out, and of the readers.
FairSpec == /\ Spec
            /\ []<><<TRUE>>_vars \/ <>[]Stalled
            /\ \A e \in Endpoints : WF_vars(Read(e, 1))

-----------------------------------------------------------------------------
(* Properties. *)

Incoming(e) == inbound_stream(conn[e])
HasFailed(e) == Outgoing(e).error

\* How many sequence numbers of its peer's stream e has taken.
Taken(e) == IF ~Rx!has_ackno(conn[e].receiver) THEN 0
            ELSE 1 + bytes_written(Incoming(e)) + Tx!One(Incoming(e).input_ended)

\* Both streams of an endpoint fail together, and only then or after both
\* have finished is it inactive; queues never outlast a call.
TypeOK == \A e \in Endpoints :
    /\ Outgoing(e).error = Incoming(e).error
    /\ ~conn[e].active => HasFailed(e) \/ BothFinished(conn[e])
    /\ HasFailed(e) => ~conn[e].active
    /\ conn[e].sender.segments_out = <<>>
    /\ conn[e].sender.next_seqno =< StreamLen[e] + 2
    /\ Timed \/ Len(net[e]) =< MaxNet[e]

\* What an endpoint has assembled is a prefix of what its peer has written,
\* and ends only where that ends.
StreamsArePrefixes == \A e \in Endpoints :
    /\ IsPrefix(Incoming(e).data, Outgoing(Peer(e)).data)
    /\ Incoming(e).input_ended => /\ Outgoing(Peer(e)).input_ended
                                  /\ Incoming(e).data = Outgoing(Peer(e)).data

\* No endpoint believes more acknowledged than its peer has assembled.
AckedIsAssembled == \A e \in Endpoints :
    Tx!AbsoluteOf(conn[e].sender, conn[e].sender.latest_ackno) =< Taken(Peer(e))

\* An endpoint that leaves without an error has delivered its whole stream,
\* and has received the whole of its peer's.
CleanCloseIsComplete == \A e \in Endpoints :
    ~conn[e].active /\ ~HasFailed(e) =>
        \A p \in Endpoints : /\ Incoming(p).input_ended
                             /\ Incoming(p).data = Outgoing(Peer(p)).data
                             /\ bytes_written(Outgoing(p)) = StreamLen[p]

\* At least one of two endpoints without an error lingers: the last
\* acknowledgment of one of them can always be repeated.
SomeoneLingers ==
    \/ \E e \in Endpoints : HasFailed(e)
    \/ \E e \in Endpoints : conn[e].linger

\* The states of an endpoint's sender and of its receiver, in their order.
SenderRank == [CLOSED |-> 0, SYN_SENT |-> 1, SYN_ACKED |-> 2, FIN_SENT |-> 3,
               FIN_ACKED |-> 4, ERROR |-> 5]
ReceiverRank == [LISTEN |-> 0, SYN_RECV |-> 1, FIN_RECV |-> 2, ERROR |-> 3]

\* The summaries of TCPState, computed from several counters each, only ever
\* advance.
StatesAdvance ==
    [][\A e \in Endpoints :
          conn'[e] # conn[e] =>
              /\ SenderRank[sender_state(conn[e])] =< SenderRank[sender_state(conn'[e])]
              /\ ReceiverRank[receiver_state(conn[e])]
                    =< ReceiverRank[receiver_state(conn'[e])]]_vars

\* Over a timed network that loses at most three segments, whichever they
\* are, both streams are delivered as they were written, are read to the end,
\* and both endpoints leave without an error: no lingering endpoint leaves
\* before the peer's timer, doubled by the losses, makes it repeat its FIN.
\* And the loops of the benchmark end, with the string received as sent.
BothFinish ==
    <>(\A e \in Endpoints :
          /\ ~conn[e].active /\ ~HasFailed(e)
          /\ eof(Incoming(e)) /\ Incoming(e).data = Outgoing(Peer(e)).data)
=============================================================================
