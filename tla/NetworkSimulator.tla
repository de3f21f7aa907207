-------------------------- MODULE NetworkSimulator --------------------------
(***************************************************************************)
(* apps/network_simulator.cc: one Router with seven interfaces, the hosts *)
(* on five of them, and the rounds in which it moves their frames.         *)
(***************************************************************************)
EXTENDS Router, Bags

default_id == 1
eth0_id == 2
eth1_id == 3
eth2_id == 4
uun3_id == 5
hs4_id == 6
mit5_id == 7

InterfaceIp == <<Ipv4(171, 76, 2), Ipv4(10, 0, 1), Ipv4(172, 0, 1), Ipv4(192, 0, 1),
                 Ipv4(198, 229, 1), Ipv4(143, 0, 2), Ipv4(128, 76, 3)>>

\* Of each host: its address and its next hop.
HostTable == [applesauce     |-> <<Ipv4(10, 0, 2), Ipv4(10, 0, 1)>>,
              default_router |-> <<Ipv4(171, 76, 1), NoHop>>,
              cherrypie      |-> <<Ipv4(192, 0, 2), Ipv4(192, 0, 1)>>,
              hs_router      |-> <<Ipv4(143, 0, 1), NoHop>>,
              dm42           |-> <<Ipv4(198, 229, 2), Ipv4(198, 229, 1)>>,
              dm43           |-> <<Ipv4(198, 229, 3), Ipv4(198, 229, 1)>>]

address(h) == HostTable[h][1]

RouteTable == <<<<Ipv4(0, 0, 0), 0, address("default_router"), default_id>>,
                <<Ipv4(10, 0, 0), 8, NoHop, eth0_id>>,
                <<Ipv4(172, 0, 0), 16, NoHop, eth1_id>>,
                <<Ipv4(192, 0, 0), 24, NoHop, eth2_id>>,
                <<Ipv4(198, 229, 0), 24, NoHop, uun3_id>>,
                <<Ipv4(143, 0, 0), 17, address("hs_router"), hs4_id>>,
                <<Ipv4(143, 128, 0), 18, address("hs_router"), hs4_id>>,
                <<Ipv4(143, 192, 0), 19, address("hs_router"), hs4_id>>,
                <<Ipv4(128, 76, 3), 16, Ipv4(128, 0, 1), mit5_id>>>>

NewNetwork ==
    LET plugged == FoldLeft(LAMBDA r, i : add_interface(r, NewAsyncInterface(<<"router", i, 0>>,
                                                                             InterfaceIp[i])),
                            NewRouter, <<default_id, eth0_id, eth1_id, eth2_id, uun3_id,
                                         hs4_id, mit5_id>>)
    IN  [router |-> FoldLeft(LAMBDA r, t : add_route(r, t[1], BitsOf(t[2]), t[3], t[4]),
                             plugged, RouteTable),
         hosts |-> [h \in DOMAIN HostTable |->
                       [interface |-> NewAsyncInterface(<<h, 0, 0>>, address(h)),
                        next_hop |-> HostTable[h][2],
                        expecting |-> <<>>]]]

send_to(net, h, dgram) ==
    [net EXCEPT !.hosts[h].interface.nic = send_datagram(@, dgram, net.hosts[h].next_hop)]

expect(net, h, dgram) == [net EXCEPT !.hosts[h].expecting = Append(@, dgram)]

\* Mutant: the queue is emptied, with what was queued during the exchange.
Cleared_wholly(queue, copied) == <<>>

\* clear(): as many frames leave the queue as were copied from it.
Cleared(queue, copied) == SubSeq(queue, Len(copied) + 1, Len(queue))

\* Every interface gets the frames that the others had queued; those it queues
\* meanwhile stay for the next round.
exchange_frames(interfaces) ==
    LET frames == [i \in DOMAIN interfaces |-> interfaces[i].nic.frames_out]
        from_others(i) == FlattenSeq([j \in DOMAIN frames |-> IF j = i THEN <<>> ELSE frames[j]])
        delivered(i) == FoldLeft(recv_frame_async, interfaces[i], from_others(i))
    IN  [i \in DOMAIN interfaces |->
            [delivered(i) EXCEPT !.nic.frames_out = Cleared(@, frames[i])]]

\* The wires: interface i of the router and the hosts hs.
Connected(net, i, hs) ==
    LET after == exchange_frames(<<net.router.interfaces[i]>>
                                     \o [k \in DOMAIN hs |-> net.hosts[hs[k]].interface])
    IN  [router |-> [net.router EXCEPT !.interfaces[i] = after[1]],
         hosts |-> FoldLeft(LAMBDA f, k : [f EXCEPT ![hs[k]].interface = after[k + 1]],
                            net.hosts, [k \in DOMAIN hs |-> k])]

simulate_physical_connections(net) ==
    LET n1 == Connected(net, default_id, <<"default_router">>)
        n2 == Connected(n1, eth0_id, <<"applesauce">>)
        n3 == Connected(n2, eth2_id, <<"cherrypie">>)
        n4 == Connected(n3, hs4_id, <<"hs_router">>)
    IN  Connected(n4, uun3_id, <<"dm42", "dm43">>)

\* One round of simulate().
Round(net) == simulate_physical_connections([net EXCEPT !.router = route(@)])

\* check() of a host: what came is what was expected, each as often, in any
\* order; anything else is an exception.
check(host) == ToBag(host.interface.datagrams_out) = ToBag(host.expecting)

Checked(net) ==
    [net EXCEPT !.hosts = [h \in DOMAIN @ |-> [@[h] EXCEPT !.expecting = <<>>,
                                                           !.interface.datagrams_out = <<>>]]]

\* The tests of network_simulator(): who sends, whereto, and who is to get it.
Elsewhere == Ipv4(1, 2, 0)

Test(by, dst, ttl, reaches) == [by |-> by, dst |-> dst, ttl |-> ttl, reaches |-> reaches]

Tests == {Test("applesauce", address("cherrypie"), 64, "cherrypie"),
          Test("cherrypie", address("applesauce"), 64, "applesauce"),
          Test("applesauce", Elsewhere, 64, "default_router"),
          Test("applesauce", Ipv4(143, 131, 1), 64, "hs_router"),
          Test("cherrypie", Ipv4(143, 193, 0), 64, "hs_router"),
          Test("cherrypie", Ipv4(143, 223, 3), 64, "hs_router"),
          Test("cherrypie", Ipv4(143, 224, 0), 64, "default_router"),
          Test("dm42", address("dm43"), 64, "dm43"),
          Test("applesauce", Elsewhere, 1, "nobody"),
          Test("applesauce", Elsewhere, 0, "nobody")}
=============================================================================
