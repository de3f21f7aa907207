---------------------------- MODULE SocketSystem ----------------------------
(***************************************************************************)
(* A process that copies between its standard streams and a TCP            *)
(* connection: the owner's thread runs bidirectional_stream_copy, the TCP  *)
(* thread the connection, each with its EventLoop, and the socket pair is  *)
(* between them.  Each callback is a step, in which the owner's thread and *)
(* the TCP thread interleave with each other, the peer and the input.      *)
(***************************************************************************)
EXTENDS SpongeSocket, StreamCopy

CONSTANTS Plans    \* records: input and incoming are the numbers of bytes to
                   \*   be copied each way, pipe whether the input reports its
                   \*   end as a hangup, resets whether the connection may be
                   \*   reset, unclean whether the owner may be interrupted

VARIABLES plan,      \* one of Plans
          owner,     \* what the owner does
          copy,      \* its bidirectional_stream_copy
          pair,      \* the socket pair
          sock,      \* the TCP thread's part of the socket
          main,      \* what runs the connection: "connect", "thread", "finished"
          abort,
          input,     \* standard input: what can be read, and whether it is all
          output,    \* history: what was written to standard output
          arrived,   \* the datagram waiting at the adapter, as a sequence
          peer,      \* history: bytes and FIN the peer sent, and what it was sent
                     \*   that has contents
          died       \* why the process died, if it did

vars == <<plan, owner, copy, pair, sock, main, abort, input, output, arrived, peer, died>>

Init == /\ plan \in Plans
        /\ owner = "connecting"
        /\ copy = NewCopy
        /\ pair = NewPair
        /\ sock = SocketSetUp(NewSocket)
        /\ main = "connect"
        /\ abort = FALSE
        /\ input = [bytes |-> <<>>, typed |-> 0, closed |-> FALSE]
        /\ output = <<>>
        /\ arrived = <<>>
        /\ peer = [sent |-> 0, fin |-> FALSE, got |-> <<>>]
        /\ died = "no"

Alive == died = "no"

-----------------------------------------------------------------------------
(* The owner's thread. *)

CopyRuns == Alive /\ owner = "copying"

CopyEvents ==
    <<IF input.bytes # <<>> THEN {"in"}
      ELSE IF input.closed THEN {IF plan.pipe THEN "hup" ELSE "in"} ELSE {},
      OwnerEvents(pair), OwnerEvents(pair),
      IF copy.output_closed THEN {} ELSE {"out"}>>

\* The loop goes on; the next call prepares for poll at once, which nobody
\* else can notice.
Continued(c) == IF c.loop.phase = "returned" THEN CopySetUp(c) ELSE c

CopyPolls ==
    /\ CopyRuns
    /\ copy.loop.phase = "poll"
    /\ PollReturns(copy.loop, CopyDirection, CopyEvents)
    /\ copy' = Continued([copy EXCEPT !.loop = Polled(@, CopyDirection, CopyEvents)])
    /\ UNCHANGED <<plan, owner, pair, sock, main, abort, input, output, arrived, peer, died>>

\* The callback of rule r, or its cancellation, with the copy it leaves.
CopyTurn(r, c) ==
    /\ CopyRuns
    /\ copy.loop.phase = "dispatch"
    /\ Current(copy.loop) = r
    /\ copy' = Continued([c EXCEPT !.loop = Handled(@, r)])

CopyCallback(r) == r \in copy.loop.ready

ReadsInput ==
    LET n == ReadLength(input.bytes, remaining_capacity(copy.outbound))
    IN  /\ CopyCallback(1)
        /\ CopyTurn(1, TakeInput(copy, SubSeq(input.bytes, 1, n)))
        /\ input' = [input EXCEPT !.bytes = SubSeq(@, n + 1, Len(@))]
        /\ UNCHANGED <<plan, owner, pair, sock, main, abort, output, arrived, peer, died>>

\* Writing to what was shut down kills the process.
WritesSocket ==
    LET data == Peeked(copy.outbound, MaxCopy)
        n == WroteLength(pair.up, data)
        c == GaveSocket(copy, n)
    IN  /\ CopyCallback(2)
        /\ IF pair.up_shut /\ data # <<>>
           THEN died' = "broken pipe" /\ CopyRuns /\ UNCHANGED <<copy, pair>>
           ELSE /\ CopyTurn(2, c)
                /\ pair' = [pair EXCEPT !.up = @ \o SubSeq(data, 1, n),
                                        !.up_shut = @ \/ c.outbound_shutdown]
                /\ UNCHANGED died
        /\ UNCHANGED <<plan, owner, sock, main, abort, input, output, arrived, peer>>

ReadsSocket ==
    LET n == ReadLength(pair.down, remaining_capacity(copy.inbound))
    IN  /\ CopyCallback(3)
        /\ CopyTurn(3, TakeSocket(copy, SubSeq(pair.down, 1, n)))
        /\ pair' = [pair EXCEPT !.down = SubSeq(@, n + 1, Len(@))]
        /\ UNCHANGED <<plan, owner, sock, main, abort, input, output, arrived, peer, died>>

WritesOutput ==
    LET data == Peeked(copy.inbound, MaxCopy)
    IN  /\ CopyCallback(4)
        /\ CopyTurn(4, GaveOutput(copy, Len(data)))
        /\ output' = output \o data
        /\ UNCHANGED <<plan, owner, pair, sock, main, abort, input, arrived, peer, died>>

CancelsRule ==
    \E r \in copy.loop.defunct :
        /\ CopyTurn(r, CopyCancel(copy, r))
        /\ UNCHANGED <<plan, owner, pair, sock, main, abort, input, output, arrived, peer, died>>

\* wait_until_closed.
CopyReturns ==
    /\ CopyRuns
    /\ copy.loop.phase = "exit"
    /\ owner' = "waiting"
    /\ pair' = ShutBoth(pair)
    /\ UNCHANGED <<plan, copy, sock, main, abort, input, output, arrived, peer, died>>

\* The destructor, after something else went wrong in the owner's thread.
Interrupted ==
    /\ CopyRuns
    /\ plan.unclean
    /\ owner' = "waiting"
    /\ abort' = TRUE
    /\ UNCHANGED <<plan, copy, pair, sock, main, input, output, arrived, peer, died>>

Joins ==
    /\ Alive
    /\ owner = "waiting"
    /\ main = "finished"
    /\ owner' = "done"
    /\ UNCHANGED <<plan, copy, pair, sock, main, abort, input, output, arrived, peer, died>>

OwnerSteps == \/ CopyPolls \/ ReadsInput \/ WritesSocket \/ ReadsSocket \/ WritesOutput
              \/ CancelsRule \/ CopyReturns \/ Joins

-----------------------------------------------------------------------------
(* The TCP thread, which is the owner's own until it is connected. *)

SocketRuns == Alive /\ main # "finished"

SocketEvents == <<{"out"} \cup IF arrived # <<>> THEN {"in"} ELSE {},
                  ThreadEvents(pair), ThreadEvents(pair), {"out"}>>

\* The timeout has passed if poll has nothing to return for.
SocketPolls ==
    /\ SocketRuns
    /\ sock.loop.phase = "poll"
    /\ sock' = [sock EXCEPT !.loop =
                   IF PollReturns(@, SocketDirection, SocketEvents)
                   THEN Polled(@, SocketDirection, SocketEvents)
                   ELSE [@ EXCEPT !.phase = "returned"]]
    /\ UNCHANGED <<plan, owner, copy, pair, main, abort, input, output, arrived, peer, died>>

\* The callback of rule r, or its cancellation, with the state it leaves.
SocketTurn(r, s) ==
    /\ SocketRuns
    /\ sock.loop.phase = "dispatch"
    /\ Current(sock.loop) = r
    /\ sock' = [s EXCEPT !.loop = Handled(@, r)]

SocketCallback(r) == r \in sock.loop.ready

ReadsDatagram ==
    /\ SocketCallback(1)
    /\ SocketTurn(1, [sock EXCEPT !.tcp = segment_received(@, arrived[1])])
    /\ arrived' = <<>>
    /\ UNCHANGED <<plan, owner, copy, pair, main, abort, input, output, peer, died>>

ReadsOwner ==
    LET n == ReadLength(pair.up, remaining_capacity(sock.tcp.outbound))
        data == SubSeq(pair.up, 1, n)
        written == write(sock.tcp, data)
        s == IF data = <<>>
             THEN [sock EXCEPT !.tcp = end_input_stream(written),
                               !.outbound_shutdown = TRUE, !.eof = TRUE]
             ELSE [sock EXCEPT !.tcp = written]
    IN  /\ SocketCallback(2)
        /\ SocketTurn(2, s)
        /\ pair' = [pair EXCEPT !.up = SubSeq(@, n + 1, Len(@))]
        /\ UNCHANGED <<plan, owner, copy, main, abort, input, output, arrived, peer, died>>

WritesOwner ==
    LET data == Peeked(sock.tcp.inbound, buffer_size(sock.tcp.inbound))
        n == WroteLength(pair.down, data)
        inbound == Popped(sock.tcp.inbound, n)
        ends == eof(inbound) \/ inbound.error
    IN  /\ SocketCallback(3)
        /\ IF pair.down_shut /\ data # <<>>
           THEN died' = "broken pipe" /\ SocketRuns /\ UNCHANGED <<sock, pair>>
           ELSE /\ SocketTurn(3, [sock EXCEPT !.tcp.inbound = inbound,
                                            !.inbound_shutdown = @ \/ ends])
                /\ pair' = [pair EXCEPT !.down = @ \o SubSeq(data, 1, n), !.down_shut = @ \/ ends]
                /\ UNCHANGED died
        /\ UNCHANGED <<plan, owner, copy, main, abort, input, output, arrived, peer>>

\* The adapter may drop every segment, or have to wait for ARP, so that
\* nothing is written to its descriptor; TCP will see to that.
SendsSegments(served) ==
    LET s == [sock EXCEPT !.tcp.segments_out = <<>>]
    IN  /\ SocketCallback(4)
        /\ SocketTurn(4, s)
        /\ peer' = [peer EXCEPT !.got = @ \o
                       SelectSeq(sock.tcp.segments_out, LAMBDA seg : seg.kind # "empty")]
        /\ died' = IF IsBusyWait(served, SocketInterest(s, 4)) THEN "busy wait" ELSE "no"
        /\ UNCHANGED <<plan, owner, copy, pair, main, abort, input, output, arrived>>

CancelsSocketRule ==
    \E r \in sock.loop.defunct :
        /\ SocketTurn(r, SocketCancel(sock, r))
        /\ UNCHANGED <<plan, owner, copy, pair, main, abort, input, output, arrived, peer, died>>

\* Whether the connection's loop leaves: connect when it has an answer, the
\* thread when it is told to.
Ticks(hopeless, lingered) ==
    LET s == IF sock.tcp.active
             THEN [sock EXCEPT !.tcp = tick(@, hopeless, lingered)] ELSE sock
        connects == main = "connect" /\ (s.tcp.connected \/ ~s.tcp.active)
    IN  /\ SocketRuns
        /\ sock.loop.phase = "returned"
        /\ ~abort
        /\ hopeless => plan.resets
        /\ sock' = SocketSetUp(s)
        /\ IF connects
           THEN main' = "thread" /\ owner' = "copying" /\ copy' = CopySetUp(copy)
           ELSE UNCHANGED <<main, owner, copy>>
        /\ UNCHANGED <<plan, pair, abort, input, output, arrived, peer, died>>

\* _tcp_main after the loop; the socket it shuts down is the owner's.
Finishes ==
    /\ SocketRuns
    /\ main = "thread"
    /\ \/ sock.loop.phase = "exit"
       \/ sock.loop.phase = "returned" /\ abort
    /\ main' = "finished"
    /\ pair' = ShutBoth(pair)
    /\ UNCHANGED <<plan, owner, copy, sock, abort, input, output, arrived, peer, died>>

SocketSteps == \/ SocketPolls \/ ReadsDatagram \/ ReadsOwner \/ WritesOwner
               \/ \E served \in BOOLEAN : SendsSegments(served)
               \/ CancelsSocketRule
               \/ \E hopeless, lingered \in BOOLEAN : Ticks(hopeless, lingered)
               \/ Finishes

-----------------------------------------------------------------------------
(* The input and the peer. *)

Types ==
    /\ Alive
    /\ input.typed < plan.input
    /\ input' = [input EXCEPT !.bytes = Append(@, input.typed), !.typed = @ + 1]
    /\ UNCHANGED <<plan, owner, copy, pair, sock, main, abort, output, arrived, peer, died>>

CloseInput ==
    /\ Alive
    /\ input.typed = plan.input /\ ~input.closed
    /\ input' = [input EXCEPT !.closed = TRUE]
    /\ UNCHANGED <<plan, owner, copy, pair, sock, main, abort, output, arrived, peer, died>>

\* The peer respects the window, and acknowledges what it has been sent.
PeerMay(kind) ==
    CASE kind = "syn" -> ~sock.tcp.connected /\ Control("syn") \in ToSet(peer.got)
      [] kind = "byte" -> /\ sock.tcp.connected /\ peer.sent < plan.incoming
                          /\ remaining_capacity(sock.tcp.inbound) > 0
      [] kind = "fin" -> sock.tcp.connected /\ peer.sent = plan.incoming /\ ~peer.fin
      [] kind = "empty" -> /\ sock.tcp.connected
                           /\ sock.tcp.in_flight # {} /\ sock.tcp.segments_out = <<>>
      [] kind = "rst" -> plan.resets

PeerSends(kind) ==
    /\ SocketRuns
    /\ arrived = <<>>
    /\ PeerMay(kind)
    /\ arrived' = <<IF kind = "byte" THEN Data(peer.sent) ELSE Control(kind)>>
    /\ peer' = [peer EXCEPT !.sent = @ + (IF kind = "byte" THEN 1 ELSE 0),
                            !.fin = @ \/ kind = "fin"]
    /\ UNCHANGED <<plan, owner, copy, pair, sock, main, abort, input, output, died>>

Friendly == {"syn", "byte", "fin", "empty"}
WorldSteps == Types \/ CloseInput \/ \E kind \in Friendly : PeerSends(kind)

Next == \/ OwnerSteps \/ Interrupted \/ SocketSteps \/ WorldSteps \/ PeerSends("rst")

Spec == Init /\ [][Next]_vars

\* Both threads run, the input and the peer end what they send, and a
\* connection that lingers is given the time for it.
OwnerIsBlocked == \/ ~Alive
                  \/ owner \in {"connecting", "done"}
                  \/ owner = "waiting" /\ main # "finished"
                  \/ /\ owner = "copying" /\ copy.loop.phase = "poll"
                     /\ ~PollReturns(copy.loop, CopyDirection, CopyEvents)
WorldIsDone == /\ ~Alive \/ input.closed
               /\ \/ ~SocketRuns \/ arrived # <<>>
                  \/ \A kind \in Friendly : ~PeerMay(kind)
FairSpec ==
    /\ Spec
    /\ []<>OwnerIsBlocked \/ []<><<OwnerSteps>>_vars
    /\ []<>~SocketRuns \/ []<><<SocketSteps>>_vars
    /\ []<>WorldIsDone \/ []<><<WorldSteps>>_vars
    /\ []<>~(SocketRuns /\ Finished(sock.tcp)) \/ []<><<Ticks(FALSE, TRUE)>>_vars

-----------------------------------------------------------------------------
(* Properties. *)

Count(n) == [i \in 1 .. n |-> i - 1]
WasReset == sock.tcp.inbound.error
Bytes(segments) == LET data == SelectSeq(segments, LAMBDA seg : seg.kind = "byte")
                   IN  [i \in DOMAIN data |-> data[i].byte]

\* What comes out at either end is a prefix of what went in at the other, and
\* its end is announced, by a FIN to the peer or by closing the output, only
\* after the last byte, unless the connection was reset.
CopiesFaithfully ==
    /\ IsPrefix(Bytes(peer.got), Count(plan.input))
    /\ IsPrefix(output, Count(plan.incoming))
    /\ Control("fin") \in ToSet(peer.got) => Len(Bytes(peer.got)) = plan.input
    /\ copy.output_closed /\ ~WasReset => Len(output) = plan.incoming

\* No loop is ever found waiting busily, and the process is killed for
\* writing to a socket that was shut down only after a reset.
DiesOfResetOnly == died # "no" => died = "broken pipe" /\ WasReset

\* The process ends: the loops are left, and the TCP thread is joined.
ProcessEnds == <>(owner = "done" \/ ~Alive)
=============================================================================
