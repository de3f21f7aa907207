-------------------------------- MODULE Lab7 --------------------------------
(***************************************************************************)
(* apps/lab7.cc and apps/bouncer.cc.  A program is a host, whose TCP       *)
(* socket exchanges frames with its router over a pair of datagram         *)
(* sockets, and a thread that serves the router.  The routers of the       *)
(* client and of the server meet on a segment made of UDP datagrams, which *)
(* the bouncer passes on from each to the other.                           *)
(*                                                                         *)
(* A frame in the payload of a UDP datagram is a sequence of at most one   *)
(* frame.  The 50 ms that one turn of the thread counts are less than the  *)
(* unit of time, which the interfaces' timeouts are multiples of.          *)
(***************************************************************************)
EXTENDS Router

Programs == {"client", "server"}

Other(p) == IF p = "client" THEN "server" ELSE "client"

HostIp == [client |-> Ipv4(192, 0, 2), server |-> Ipv4(172, 0, 2)]

host_side == 1
internet_side == 2
RouterIp == [client |-> <<Ipv4(192, 0, 1), Ipv4(10, 0, 1)>>,
             server |-> <<Ipv4(172, 0, 1), Ipv4(10, 0, 2)>>]

\* The networks of the client, of the routers and of the server.
Prefix == [client |-> Ipv4(192, 0, 0), between |-> Ipv4(10, 0, 0), server |-> Ipv4(172, 0, 0)]
PrefixLength == [client |-> BitsOf(16), between |-> BitsOf(8), server |-> BitsOf(12)]

SetUpRouter(p, run) ==
    LET interface(i) == NewAsyncInterface(<<p, i, run>>, RouterIp[p][i])
        routed(r, n, hop, i) == add_route(r, Prefix[n], PrefixLength[n], hop, i)
        plugged == add_interface(add_interface(NewRouter, interface(host_side)),
                                 interface(internet_side))
    IN  routed(routed(routed(plugged, p, NoHop, host_side), "between", NoHop, internet_side),
               Other(p), RouterIp[Other(p)][internet_side], internet_side)

\* The program's run-th start; the Ethernet addresses and the UDP port, which
\* are drawn at random, differ from those of the other starts.
NewProgram(p, run) ==
    [udp |-> <<p, run>>,
     host |-> NewInterface(<<p, 0, run>>, HostIp[p]),
     next_hop |-> RouterIp[p][host_side],
     router |-> SetUpRouter(p, run),
     to_router |-> <<>>,       \* frames in the socket pair, either way
     to_host |-> <<>>,
     from_internet |-> <<>>,   \* payloads at the UDP socket
     eof |-> FALSE]            \* of the UDP socket, whose reading rule is then gone

\* How a program says where it is, three times.
Announcements(prog) == [i \in 1 .. 3 |-> [from |-> prog.udp, payload |-> <<>>]]

send_pending(prog) == [prog EXCEPT !.to_router = @ \o prog.host.frames_out,
                                   !.host.frames_out = <<>>]

adapter_write(prog, dgram) ==
    send_pending([prog EXCEPT !.host = send_datagram(@, dgram, prog.next_hop)])

adapter_read(prog) ==
    send_pending([prog EXCEPT !.host = recv_frame(@, Head(prog.to_host)),
                              !.to_host = Tail(@)])

\* What adapter_read hands on, if anything.
ReadByHost(prog) == IF PassesUp(prog.host, Head(prog.to_host))
                    THEN {Head(prog.to_host).payload} ELSE {}

\* At most the first element of a queue, and the others.
Next1(q) == SubSeq(q, 1, Min({1, Len(q)}))
Rest(q) == SubSeq(q, 2, Len(q))

FramesOut(prog, i) == prog.router.interfaces[i].nic.frames_out

\* The callback of a reading rule: the router gets the frame and routes.
Hear(router, i, frames) ==
    IF frames = <<>> THEN router
    ELSE route([router EXCEPT !.interfaces[i] = recv_frame_async(@, frames[1])])

\* The payload that the rule of the UDP socket reads.  An empty one looks
\* like the end of the file.
Incoming(prog) == IF prog.eof THEN <<>> ELSE Next1(prog.from_internet)

\* Mutant: the interest of the rule that sends to the Internet is missing.
HasWork_not_outwards(prog) == \/ prog.to_router # <<>>
                              \/ FramesOut(prog, host_side) # <<>>
                              \/ Incoming(prog) # <<>>

\* Whether a rule is ready.
HasWork(prog) == \/ prog.to_router # <<>>
                 \/ FramesOut(prog, host_side) # <<>>
                 \/ FramesOut(prog, internet_side) # <<>>
                 \/ Incoming(prog) # <<>>

\* One turn of the network thread: the rules that are ready when it polls are
\* served one frame each, in their order.
network_thread(prog) ==
    LET r1 == Hear(prog.router, host_side, Next1(prog.to_router))
        r2 == IF FramesOut(prog, host_side) = <<>> THEN r1
              ELSE [r1 EXCEPT !.interfaces[host_side].nic.frames_out = Tail(@)]
        r3 == IF FramesOut(prog, internet_side) = <<>> THEN r2
              ELSE [r2 EXCEPT !.interfaces[internet_side].nic.frames_out = Tail(@)]
        r4 == Hear(r3, internet_side, FlattenSeq(Incoming(prog)))
    IN  [prog EXCEPT !.router = r4,
                     !.to_router = Rest(@),
                     !.to_host = @ \o Next1(FramesOut(prog, host_side)),
                     !.from_internet = IF prog.eof THEN @ ELSE Rest(@),
                     !.eof = @ \/ Incoming(prog) = << <<>> >>]

\* The UDP datagrams the turn sends to the bouncer.
SentByThread(prog) ==
    LET frames == Next1(FramesOut(prog, internet_side))
    IN  [i \in DOMAIN frames |-> [from |-> prog.udp, payload |-> <<frames[i]>>]]

tick_program(prog, ms) ==
    [prog EXCEPT !.host = tick(@, ms),
                 !.router.interfaces = [i \in DOMAIN @ |-> [@[i] EXCEPT !.nic = tick(@, ms)]]]

-----------------------------------------------------------------------------
(* The bouncer: a pair of its ports, one for each program. *)

Unknown == <<"unknown", 0>>

NewBouncer == [peer |-> [p \in Programs |-> Unknown],   \* x_peer, y_peer
               port |-> [p \in Programs |-> <<>>]]      \* datagrams received

\* Mutant: empty datagrams are passed on as well.
Passed_empty(bouncer, p) ==
    IF bouncer.peer[Other(p)] # Unknown THEN Next1(bouncer.port[p]) ELSE <<>>

\* The datagram at port p, if it is to be passed on.
Passed(bouncer, p) ==
    IF bouncer.peer[Other(p)] # Unknown /\ Head(bouncer.port[p]).payload # <<>>
    THEN Next1(bouncer.port[p]) ELSE <<>>

\* The bouncer after the datagram at port p: it has learned who is there.
bounced(bouncer, p) == [peer |-> [bouncer.peer EXCEPT ![p] = Head(bouncer.port[p]).from],
                        port |-> [bouncer.port EXCEPT ![p] = Tail(@)]]
=============================================================================
