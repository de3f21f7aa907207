--------------------------- MODULE RoutedNetwork ---------------------------
(***************************************************************************)
(* The two programs that run networks of Routers.  The lab 7 network: the  *)
(* client and the server start in any order, may be restarted, and send    *)
(* datagrams to each other by way of the bouncer; routes are added while   *)
(* datagrams are under way, loops included.  The simulator: its tests are  *)
(* run in any order, and several at a time.                                *)
(*                                                                         *)
(* UDP datagrams are neither lost nor reordered.  Time passes only when no *)
(* frame is under way, for frames are quick compared with the timeouts.    *)
(***************************************************************************)
EXTENDS Lab7, NetworkSimulator

CONSTANTS Networks,   \* what may be run: records as in MCRoutedNetwork
          MaxTime,    \* bound: the units of time that pass
          Rounds      \* the rounds of simulate() (256)

VARIABLES network,    \* which of Networks this is
          prog,       \* of each program
          on,         \* whether it runs
          bouncer,
          now,
          clean,      \* history: no program was stopped with frames under way
          since,      \* history: since when both programs are in touch, or Never
          log,        \* history: the datagrams sent
          arrived,    \* history: the datagrams passed up to hosts, in order
          hops,       \* history: how often each datagram was sent on
          net,        \* the simulator's network
          round       \* of simulate(), or Idle

lab7_vars == <<prog, on, bouncer, now, clean, since, arrived, hops>>
vars == <<network, lab7_vars, log, net, round>>

Never == -1
Idle == -1

Init == /\ network \in Networks
        /\ prog = [p \in Programs |-> NewProgram(p, 0)]
        /\ on = [p \in Programs |-> network.in_touch]
        /\ bouncer = IF network.in_touch
                     THEN [NewBouncer EXCEPT !.peer = [p \in Programs |-> prog[p].udp]]
                     ELSE NewBouncer
        /\ now = 0
        /\ clean = TRUE
        /\ since = IF network.in_touch THEN 0 ELSE Never
        /\ log = <<>>
        /\ arrived = <<>>
        /\ hops = [id \in 1 .. network.max_sent |-> 0]
        /\ net = NewNetwork
        /\ round = Idle

-----------------------------------------------------------------------------
(* The lab 7 network. *)

\* Both programs run, and the bouncer knows where they are.
InTouch == \A p \in Programs : on[p] /\ bouncer.peer[p] = prog[p].udp

\* The frames in program p, and those it has sent to the bouncer.  Those at
\* a socket that is no longer read are nowhere.
FramesIn(p) == prog[p].to_router \o prog[p].to_host
                   \o FramesOut(prog[p], host_side) \o FramesOut(prog[p], internet_side)
                   \o (IF prog[p].eof THEN <<>> ELSE FlattenSeq(prog[p].from_internet))

FramesAt(p) == FlattenSeq([i \in DOMAIN bouncer.port[p] |-> bouncer.port[p][i].payload])

\* No frame is under way.
Quiet == \A p \in Programs : (on[p] => FramesIn(p) = <<>>) /\ bouncer.port[p] = <<>>

KeepSince == since' = IF ~InTouch' THEN Never ELSE IF since = Never THEN now ELSE since

Start(p) ==
    /\ network.program = "lab7" /\ ~on[p]
    /\ on' = [on EXCEPT ![p] = TRUE]
    /\ bouncer' = [bouncer EXCEPT !.port[p] = @ \o Announcements(prog[p])]
    /\ UNCHANGED <<network, prog, now, clean, log, arrived, hops, net, round>>
    /\ KeepSince

\* The program ends, or is killed, with the frames it held; it can be
\* started anew.
Stop(p) ==
    /\ p \in network.may_stop /\ on[p] /\ prog[p].udp[2] = 0
    /\ on' = [on EXCEPT ![p] = FALSE]
    /\ prog' = [prog EXCEPT ![p] = tick_program(NewProgram(p, 1), now)]
    /\ clean' = (clean /\ Quiet)
    /\ UNCHANGED <<network, bouncer, now, log, arrived, hops, net, round>>
    /\ KeepSince

AddRoute(p, t) ==
    /\ Len(prog[p].router.route_table) < network.max_routes
    /\ prog' = [prog EXCEPT ![p].router = add_route(@, t.prefix, t.length, t.hop, t.num)]
    /\ UNCHANGED <<network, on, bouncer, now, clean, since, log, arrived, hops, net, round>>

\* p's host has had a datagram of the other program's present run.
HasHeard(p) == \E i \in DOMAIN arrived : /\ arrived[i].at = prog[p].udp
                                         /\ arrived[i].dgram.by = prog[Other(p)].udp

\* What p sends now must arrive: the programs are in touch, no ARP request of
\* p's router has been lost in the last ARP_REQUEST_LIMIT, and it has no
\* address of an earlier run in its cache.  A run that sends a datagram makes
\* its address known by the ARP request it first has to make; but if an ARP
\* reply meant for the run before reaches it, it takes that and asks nobody.
MustArrive(p) ==
    /\ InTouch
    /\ \/ now - since >= ARP_REQUEST_LIMIT
       \/ \A i \in DOMAIN log : log[i].by = prog[p].udp => log[i].must_arrive
    /\ \/ prog[Other(p)].udp[2] = 0
       \/ HasHeard(p) /\ clean
       \/ now - since >= ARP_CACHE_TIMEOUT

\* The fields first, id and by are for the properties only.
HostSends(p, dst, ttl) ==
    LET dgram == [dst |-> dst, ttl |-> ttl, first |-> ttl, id |-> Len(log) + 1,
                  by |-> prog[p].udp]
    IN  /\ on[p] /\ Len(log) < network.max_sent
        /\ network.one_at_a_time => Quiet
        /\ prog' = [prog EXCEPT ![p] = adapter_write(@, dgram)]
        /\ log' = Append(log, [by |-> prog[p].udp, to |-> prog[Other(p)].udp,
                               must_arrive |-> MustArrive(p)])
        /\ UNCHANGED <<network, on, bouncer, now, clean, since, arrived, hops, net, round>>

HostReads(p) ==
    /\ on[p] /\ prog[p].to_host # <<>>
    /\ prog' = [prog EXCEPT ![p] = adapter_read(@)]
    /\ arrived' = arrived \o SetToSeq({[at |-> prog[p].udp, dgram |-> d] :
                                         d \in ReadByHost(prog[p])})
    /\ UNCHANGED <<network, on, bouncer, now, clean, since, log, hops, net, round>>

\* The datagrams that the router sends on when it hears the frames.
SentOn(router, i, frames) ==
    {frames[k].payload.id : k \in {j \in DOMAIN frames :
        /\ PassesUp(router.interfaces[i].nic, frames[j])
        /\ ~Expired(frames[j].payload)
        /\ best_match(router.route_table, frames[j].payload.dst).flag}}

NetworkThread(p) ==
    LET passing == SentOn(prog[p].router, host_side, Next1(prog[p].to_router))
                       \cup SentOn(prog[p].router, internet_side, FlattenSeq(Incoming(prog[p])))
    IN  /\ on[p] /\ HasWork(prog[p])
        /\ prog' = [prog EXCEPT ![p] = network_thread(@)]
        /\ bouncer' = [bouncer EXCEPT !.port[p] = @ \o SentByThread(prog[p])]
        /\ hops' = [id \in DOMAIN hops |-> IF id \in passing THEN hops[id] + 1 ELSE hops[id]]
        /\ UNCHANGED <<network, on, now, clean, since, log, arrived, net, round>>

\* The bouncer serves the port of p; a datagram for a run that has ended is lost.
Bounce(p) ==
    LET q == Other(p)
        passed == Passed(bouncer, p)
    IN  /\ bouncer.port[p] # <<>>
        /\ bouncer' = bounced(bouncer, p)
        /\ prog' = IF on[q] /\ bouncer.peer[q] = prog[q].udp
                   THEN [prog EXCEPT ![q].from_internet =
                            @ \o [i \in DOMAIN passed |-> passed[i].payload]]
                   ELSE prog
        /\ UNCHANGED <<network, on, now, clean, log, arrived, hops, net, round>>
        /\ KeepSince

TimePasses ==
    /\ network.program = "lab7" /\ Quiet /\ now < MaxTime
    /\ now' = now + 1
    /\ prog' = [p \in Programs |-> tick_program(prog[p], 1)]
    /\ UNCHANGED <<network, on, bouncer, clean, since, log, arrived, hops, net, round>>

-----------------------------------------------------------------------------
(* The simulator. *)

\* A host sends a datagram, and the host that is to get it expects it, with
\* one less of its time to live.
SetUpTest(t) ==
    LET dgram == [dst |-> t.dst, ttl |-> t.ttl, id |-> Len(log) + 1]
        sending == send_to(net, t.by, dgram)
    IN  /\ round = Idle /\ Len(log) < network.max_sent
        /\ net' = IF t.reaches = "nobody" THEN sending
                  ELSE expect(sending, t.reaches, Aged(dgram))
        /\ log' = Append(log, t)
        /\ UNCHANGED <<network, lab7_vars, round>>

Simulate ==
    /\ network.program = "simulator" /\ round < Rounds
    /\ round' = IF round = Idle THEN 1 ELSE round + 1
    /\ net' = Round(net)
    /\ UNCHANGED <<network, lab7_vars, log>>

\* A check that fails throws, and nothing follows.
Check ==
    /\ round = Rounds
    /\ \A h \in DOMAIN net.hosts : check(net.hosts[h])
    /\ round' = Idle
    /\ net' = Checked(net)
    /\ UNCHANGED <<network, lab7_vars, log>>

-----------------------------------------------------------------------------

Next == \/ \E p \in Programs : \/ Start(p) \/ Stop(p)
                               \/ HostReads(p) \/ NetworkThread(p) \/ Bounce(p)
        \/ \E p \in Programs : \E t \in network.routes[p] : AddRoute(p, t)
        \/ \E p \in Programs : \E s \in network.sends[p] : HostSends(p, s.dst, s.ttl)
        \/ TimePasses
        \/ \E t \in network.tests : SetUpTest(t)
        \/ Simulate
        \/ Check

Spec == Init /\ [][Next]_vars

\* The threads and the bouncer poll until they are killed, and the simulator
\* runs.  WF, with the conditions under which the actions are enabled.
FairSpec ==
    /\ Spec
    /\ \A p \in Programs :
          /\ []<>(~(on[p] /\ HasWork(prog[p]))) \/ []<><<NetworkThread(p)>>_vars
          /\ []<>(~(on[p] /\ prog[p].to_host # <<>>)) \/ []<><<HostReads(p)>>_vars
          /\ []<>(bouncer.port[p] = <<>>) \/ []<><<Bounce(p)>>_vars
    /\ []<>(round \in {Idle, Rounds}) \/ []<><<Simulate>>_vars

-----------------------------------------------------------------------------
(* Properties. *)

\* Whether a route's prefix stands for an address.
Covers(t, a) == a \div 2^(AddressBits - t.prefix_length)
                    = t.route_prefix \div 2^(AddressBits - t.prefix_length)

\* For every destination, the search of route_one_datagram finds the last
\* added of the routes with the longest prefix that covers it, and finds
\* none only if no route covers it.
FindsLongestPrefix ==
    \A r \in {prog[p].router : p \in Programs} \cup {net.router} : \A a \in network.addresses :
        LET table == r.route_table
            covering == {i \in DOMAIN table : Covers(table[i], a)}
            longest == {i \in covering : \A j \in covering :
                                            table[j].prefix_length =< table[i].prefix_length}
            best == best_match(table, a)
        IN  /\ best.flag = (covering # {})
            /\ best.flag => best.route = table[Max(longest)]

\* A datagram loses one of its time to live each time it is sent on, and is
\* never sent on with none left: a forwarding loop cannot keep it for ever.
EachHopAges ==
    /\ \A p \in Programs : \A f \in ToSet(FramesIn(p) \o FramesAt(p)) :
          f.type = "IPv4" => /\ f.payload.ttl > 0
                             /\ f.payload.ttl + hops[f.payload.id] = f.payload.first
    /\ \A e \in ToSet(arrived) : e.dgram.ttl + hops[e.dgram.id] = e.dgram.first

\* Whatever routes are added, and whatever loops they make, the network
\* comes to rest; and every simulation to its end.
ComesToRest == []<>(Quiet /\ round \in {Idle, Rounds})

\* What the host of one run got from one run of the other, by its place in the log.
Got(at, by) == LET from(e) == e.at = at /\ e.dgram.by = by
                   es == SelectSeq(arrived, from)
               IN  [i \in DOMAIN es |-> es[i].dgram.id]

\* In whichever order the lab 7 programs started and restarted, each host
\* gets what the other sends in order and at most once; and it gets all that
\* is sent when both are in touch through the bouncer, except what is sent
\* too soon (MustArrive): within ARP_REQUEST_LIMIT of an ARP request that was
\* lost, or, after an unclean stop, while an address of the earlier run may
\* still be cached.
InTouchMeansDelivered ==
    \A p, q \in Programs :
        LET got == Got(prog[q].udp, prog[p].udp)
        IN  p # q =>
            /\ \A i, j \in DOMAIN got : i < j => got[i] < got[j]
            /\ Quiet /\ network.routes[p] = {} /\ network.program = "lab7" =>
                  \A i \in DOMAIN log :
                      log[i].by = prog[p].udp /\ log[i].to = prog[q].udp /\ log[i].must_arrive
                      => i \in ToSet(got)

\* At the end of a simulation every host has got exactly what it was to get,
\* whichever tests ran before and together with it, and more rounds than the
\* model's would change nothing: simulate() never throws.
SimulationSucceeds ==
    round = Rounds => /\ \A h \in DOMAIN net.hosts : check(net.hosts[h])
                      /\ Round(net) = net
=============================================================================
