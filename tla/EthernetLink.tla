---------------------------- MODULE EthernetLink ----------------------------
(***************************************************************************)
(* Hosts with one NetworkInterface each on a shared Ethernet segment.  A   *)
(* frame reaches the other hosts on the segment one after the other, or is *)
(* lost before it has reached them all.  A host's interface may be         *)
(* replaced by another one with the same IP address.                       *)
(***************************************************************************)
EXTENDS NetworkInterface, Functions

CONSTANTS Hosts,
          Settings,          \* records: how many datagrams each host sends
                             \* (bound), and, if the segment is faulty, loses
                             \* frames, those whose interface is replaced once
                             \* (replaceable)
          MaxTime            \* bound: the time that passes

ASSUME SettingAssumption ==
    \A s \in Settings : /\ s.bound \in [Hosts -> Nat]
                        /\ s.replaceable \subseteq Hosts
                        /\ ~s.faulty => s.replaceable = {}

VARIABLES setting,           \* one of Settings
          nic,               \* the interface of each host, by its IP address
          wire,              \* the frames on the segment, in order, each with
                             \* the hosts that it has not reached yet (hearers)
          submitted,         \* history: what each host has sent
          delivered,         \* history: what each host was passed up
          now,
          replaced_at,       \* history: times at which interfaces were replaced
          requested_at       \* history: [by, for] -> time of the last request

vars == <<setting, nic, wire, submitted, delivered, now, replaced_at, requested_at>>

\* The address of the k-th interface of host h.
EthernetAddress(h, k) == <<2, 0, 0, 0, h, k>>

Init == /\ setting \in Settings
        /\ nic = [h \in Hosts |-> NewInterface(EthernetAddress(h, 0), h)]
        /\ wire = <<>>
        /\ submitted = [h \in Hosts |-> <<>>]
        /\ delivered = [h \in Hosts |-> <<>>]
        /\ now = 0
        /\ replaced_at = [h \in Hosts |-> <<>>]
        /\ requested_at = [p \in Hosts \X Hosts |-> <<>>]

Requests(n) == {i \in DOMAIN n.frames_out : /\ n.frames_out[i].type = "ARP"
                                               /\ n.frames_out[i].payload.opcode = "REQUEST"}

\* The owner of an interface has put its frames on the wire.
Drained(n) == [n EXCEPT !.frames_out = <<>>]
OnTheWay(h, frames) ==
    [i \in DOMAIN frames |-> [frame |-> frames[i], hearers |-> Hosts \ {h}]]

Send(h, to) ==
    LET dgram == [src |-> h, dst |-> to, id |-> Len(submitted[h])]
        n == send_datagram(nic[h], dgram, to)
    IN  /\ h # to
        /\ dgram.id < setting.bound[h]
        /\ nic' = [nic EXCEPT ![h] = Drained(n)]
        /\ wire' = wire \o OnTheWay(h, n.frames_out)
        /\ submitted' = [submitted EXCEPT ![h] = Append(@, dgram)]
        /\ requested_at' = IF Requests(n) = {} THEN requested_at
                           ELSE [requested_at EXCEPT ![<<h, to>>] = Append(@, now)]
        /\ UNCHANGED <<setting, delivered, now, replaced_at>>

\* The wire after its first frame has reached h.
HeardBy(h) == IF wire[1].hearers = {h} THEN Tail(wire)
              ELSE [wire EXCEPT ![1].hearers = @ \ {h}]

\* The first frame on the wire reaches host h.
Deliver(h) ==
    LET frame == wire[1].frame
        n == recv_frame(nic[h], frame)
    IN  /\ wire # <<>>
        /\ h \in wire[1].hearers
        /\ nic' = [nic EXCEPT ![h] = Drained(n)]
        /\ wire' = HeardBy(h) \o OnTheWay(h, n.frames_out)
        /\ delivered' = IF PassesUp(nic[h], frame)
                        THEN [delivered EXCEPT ![h] = Append(@, frame.payload)]
                        ELSE delivered
        /\ UNCHANGED <<setting, submitted, now, replaced_at, requested_at>>

Lose == /\ setting.faulty
        /\ wire # <<>>
        /\ wire' = Tail(wire)
        /\ UNCHANGED <<setting, nic, submitted, delivered, now, replaced_at, requested_at>>

\* Frames take no time compared with the timeouts of ARP.
Tick(ms) == /\ wire = <<>>
            /\ now + ms =< MaxTime
            /\ now' = now + ms
            /\ nic' = [h \in Hosts |-> tick(nic[h], ms)]
            /\ UNCHANGED <<setting, wire, submitted, delivered, replaced_at, requested_at>>

\* Host h gets a new interface, constructed with another Ethernet address.
Replace(h) ==
    /\ replaced_at[h] = <<>>
    /\ replaced_at' = [replaced_at EXCEPT ![h] = Append(@, now)]
    /\ nic' = [nic EXCEPT ![h] = [NewInterface(EthernetAddress(h, Len(replaced_at'[h])), h)
                                     EXCEPT !.now = now]]
    /\ UNCHANGED <<setting, wire, submitted, delivered, now, requested_at>>

Next == \/ \E h, to \in Hosts : Send(h, to)
        \/ \E h \in Hosts : Deliver(h)
        \/ Lose
        \/ \E ms \in 1 .. ARP_CACHE_TIMEOUT : Tick(ms)
        \/ \E h \in setting.replaceable : Replace(h)

Spec == Init /\ [][Next]_vars

\* Frames on the wire arrive.
FairSpec == Spec /\ WF_vars(\E h \in Hosts : Deliver(h))

-----------------------------------------------------------------------------
(* Properties. *)

\* The datagrams from h to a host: all of them, and where they are.
Sent(h, to) == {d \in Range(submitted[h]) : d.dst = to}
Arrived(h, to) == {d \in Range(delivered[to]) : d.src = h}
OnWire(h, to) ==
    {wire[i].frame.payload :
        i \in {j \in DOMAIN wire : /\ wire[j].frame.type = "IPv4"
                                   /\ wire[j].frame.payload.src = h
                                   /\ wire[j].frame.payload.dst = to
                                   /\ to \in wire[j].hearers}}
Queued(h, to) == Range(Waiting(nic[h], to))

AllBefore(dgrams, others) == \A d \in dgrams, e \in others : d.id < e.id

\* While no frame is lost, every datagram that was sent has arrived, or is on
\* the wire, or waits for an ARP reply, and none overtakes another: of two
\* between the same hosts the earlier one is never at the later place.
NothingLostOrOvertaken == ~setting.faulty => \A h, to \in Hosts :
    /\ Sent(h, to) = Arrived(h, to) \cup OnWire(h, to) \cup Queued(h, to)
    /\ AllBefore(Arrived(h, to), OnWire(h, to) \cup Queued(h, to))
    /\ AllBefore(OnWire(h, to), Queued(h, to))

\* A datagram is passed up only at the host it was sent to, at most once,
\* and datagrams between two hosts keep their order, even if frames are lost
\* and interfaces replaced.
ArrivesOnceAtItsHop == \A to \in Hosts : \A i \in DOMAIN delivered[to] :
    /\ delivered[to][i].dst = to
    /\ \A j \in 1 .. i - 1 : delivered[to][j].src = delivered[to][i].src
                                => delivered[to][j].id < delivered[to][i].id

\* An interface does not ask for the same address again before the request
\* limit has passed, however many datagrams wait for it, unless the interface
\* was replaced in between.
RequestsAreSpaced == \A p \in Hosts \X Hosts :
    \A i \in 2 .. Len(requested_at[p]) :
        \/ requested_at[p][i] - requested_at[p][i - 1] >= ARP_REQUEST_LIMIT
        \/ \E r \in Range(replaced_at[p[1]]) : /\ requested_at[p][i - 1] =< r
                                                /\ r =< requested_at[p][i]

\* A frame is addressed to an interface that has been replaced only if that
\* happened less than the cache's timeout ago.
StaleAddressExpires == \A i \in DOMAIN wire :
    LET frame == wire[i].frame
    IN  frame.type = "IPv4" =>
            \/ frame.dst = nic[frame.payload.dst].ethernet_address
            \/ \E r \in Range(replaced_at[frame.payload.dst]) : now - r < ARP_CACHE_TIMEOUT

\* If no frame is lost, every datagram that is sent arrives.
EveryDatagramArrives ==
    \A h, to \in Hosts : []<>(setting.faulty \/ Arrived(h, to) = Sent(h, to))
=============================================================================
