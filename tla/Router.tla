------------------------------- MODULE Router -------------------------------
(***************************************************************************)
(* class Router: forwards the datagrams its interfaces have received,      *)
(* along the route with the longest matching prefix; and the class         *)
(* AsyncNetworkInterface its interfaces belong to.                         *)
(*                                                                         *)
(* Of an address's 32 bits the model keeps AddressBits: the first octet,   *)
(* the three high bits of the third and two that number a host.  No prefix *)
(* of the programs' networks ends in, or tells apart, any other bit.       *)
(***************************************************************************)
EXTENDS NetworkInterface, SequencesExt

AddressBits == 13

\* Address{"first.*.third.*"}.ipv4_numeric() of a host, and how many of a
\* prefix's bits are kept.
Ipv4(first, third, host) == first * 32 + (third \div 32) * 4 + host

BitsOf(prefix_length) == IF prefix_length =< 16 THEN Min({prefix_length, 8})
                         ELSE Min({prefix_length - 8, 11})

\* AsyncNetworkInterface: what recv_frame returns is queued for the owner.
NewAsyncInterface(ethernet_address, ip_address) ==
    [nic |-> NewInterface(ethernet_address, ip_address), datagrams_out |-> <<>>]

recv_frame_async(a, frame) ==
    [nic |-> recv_frame(a.nic, frame),
     datagrams_out |-> IF PassesUp(a.nic, frame) THEN Append(a.datagrams_out, frame.payload)
                       ELSE a.datagrams_out]

NewRouter == [interfaces |-> <<>>, route_table |-> <<>>]

add_interface(router, interface) ==
    [router EXCEPT !.interfaces = Append(@, interface)]

\* A route without a next hop is stored with the next hop 0.
NoHop == 0

add_route(router, route_prefix, prefix_length, next_hop, interface_num) ==
    [router EXCEPT !.route_table =
        Append(@, [route_prefix |-> route_prefix, prefix_length |-> prefix_length,
                   next_hop |-> next_hop, interface_num |-> interface_num])]

\* How many leading bits two addresses share: the loop tries shifts from 0.
\* The shift by all bits, undefined in C++, finds them equal or leaves
\* match_len as it was: the result is 0 either way.
match_len(dst_ip, route_prefix) ==
    AddressBits - Min({i \in 0 .. AddressBits : dst_ip \div 2^i = route_prefix \div 2^i})

\* Mutant: a route with a next hop of its own is preferred to a longer one.
Better_prefers_hop(best, route, dst_ip) ==
    /\ match_len(dst_ip, route.route_prefix) >= route.prefix_length
    /\ best.flag => route.next_hop # NoHop

\* One turn of the search: whether the route replaces the best one so far.
Better(best, route, dst_ip) ==
    /\ match_len(dst_ip, route.route_prefix) >= route.prefix_length
    /\ route.prefix_length >= best.max_match_len

best_match(route_table, dst_ip) ==
    FoldLeft(LAMBDA best, route :
                 IF Better(best, route, dst_ip)
                 THEN [flag |-> TRUE, max_match_len |-> route.prefix_length, route |-> route]
                 ELSE best,
             [flag |-> FALSE, max_match_len |-> 0], route_table)

\* Mutant: the time to live is checked and not counted down.
Aged_not(dgram) == dgram

Aged(dgram) == [dgram EXCEPT !.ttl = @ - 1]

Expired(dgram) == dgram.ttl \in {0, 1}

route_one_datagram(router, dgram) ==
    LET best == best_match(router.route_table, dgram.dst)
        next_hop == IF best.route.next_hop = NoHop THEN dgram.dst ELSE best.route.next_hop
    IN  IF Expired(dgram) \/ ~best.flag THEN router
        ELSE [router EXCEPT !.interfaces[best.route.interface_num].nic =
                  send_datagram(@, Aged(dgram), next_hop)]

\* The datagrams of interface i are routed, in their order.
route_interface(router, i) ==
    FoldLeft(route_one_datagram, [router EXCEPT !.interfaces[i].datagrams_out = <<>>],
             router.interfaces[i].datagrams_out)

route(router) ==
    FoldLeft(route_interface, router, [i \in DOMAIN router.interfaces |-> i])
=============================================================================
