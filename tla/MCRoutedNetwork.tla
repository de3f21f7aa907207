-------------------------- MODULE MCRoutedNetwork --------------------------
(* The networks: lab 7 with more routes than it sets up, lab 7 as it is, and *)
(* the simulator with the tests of network_simulator().                      *)
EXTENDS RoutedNetwork

RouteTo(prefix, length, hop, num) ==
    [prefix |-> prefix, length |-> length, hop |-> hop, num |-> num]

SendTo(dst, ttl) == [dst |-> dst, ttl |-> ttl]

\* A default route to the other router, and a detour to the server's host.
MoreRoutes ==
    [p \in Programs |->
        {RouteTo(0, 0, RouterIp[Other(p)][internet_side], internet_side),
         RouteTo(HostIp["server"], AddressBits, RouterIp[Other(p)][internet_side], internet_side)}]

Looping == [program |-> "lab7", in_touch |-> TRUE, may_stop |-> {}, one_at_a_time |-> FALSE,
            max_sent |-> 1, max_routes |-> 5,
            routes |-> MoreRoutes, tests |-> {},
            sends |-> [client |-> {SendTo(HostIp["server"], 1), SendTo(HostIp["server"], 4),
                                   SendTo(Elsewhere, 4)}, server |-> {}],
            addresses |-> {HostIp["server"], HostIp["client"], Elsewhere}]

NoRoutes == [p \in Programs |-> {}]

Restarted == [program |-> "lab7", in_touch |-> TRUE, may_stop |-> {"client"},
              one_at_a_time |-> TRUE, max_sent |-> 3, max_routes |-> 3,
              routes |-> NoRoutes, tests |-> {},
              sends |-> [p \in Programs |-> {SendTo(HostIp[Other(p)], 64)}],
              addresses |-> {HostIp["server"], HostIp["client"], Elsewhere}]

Starting == [Restarted EXCEPT !.in_touch = FALSE, !.may_stop = {}, !.one_at_a_time = FALSE,
                              !.max_sent = 2]

Simulator == [program |-> "simulator", in_touch |-> FALSE, may_stop |-> {},
              one_at_a_time |-> FALSE, max_sent |-> 2, max_routes |-> 0,
              routes |-> NoRoutes, tests |-> Tests, sends |-> NoRoutes,
              addresses |-> {t.dst : t \in Tests}]

AllNetworks == {Looping, Restarted, Starting, Simulator}
=============================================================================
