--------------------------- MODULE AdapterNetwork ---------------------------
(***************************************************************************)
(* Hosts whose TCP connections reach each other through adapters of one    *)
(* kind: a server that listens and clients that connect to it.  Packets    *)
(* are bytes; they may be reordered, lost, come to the wrong host, and     *)
(* have a byte damaged on their way.                                       *)
(***************************************************************************)
EXTENDS TCPAdapter

CONSTANTS Settings,    \* records: kind is "udp", "tun" or "tap", clients the
                       \*   hosts that connect, strays those of them that
                       \*   write any segment any time, lossy whether the
                       \*   adapters are LossyFdAdapters, damage what may be
                       \*   added to a byte of a packet on its way
          Server,      \* the host that listens
          Ip, Port,    \* host -> its IP address and port
          Segments,    \* the segments a connection may write
          MaxWrites,   \* bound: segments written by all hosts
          MaxTime      \* bound: the clock of an interface

VARIABLES setting,     \* one of Settings
          adapter,     \* the adapter of each host
          wire,        \* the packets on their way: [by, to, bytes, intact]
          written,     \* history: what was written: [by, to, seg]
          got          \* history: the segments each host's adapter handed up

vars == <<setting, adapter, wire, written, got>>

Hosts == {Server} \cup setting.clients

AddressAt(h) == AddressOf(Ip[h], Port[h])
EthernetAt(h) == <<2, 0, 0, 0, 0, Port[h] % 256>>
AnyAddress == AddressOf(<<0, 0>>, 0)

\* FdAdapterConfigs.  Over UDP a client leaves its own address to its socket.
udp_config(h) ==
    IF h = Server THEN [source |-> AddressOf(<<0, 0>>, Port[h]), destination |-> AnyAddress]
    ELSE [source |-> AnyAddress, destination |-> AddressAt(Server)]

\* The clients over IP, CS144TCPSocket and FullStackSocket, draw a port.
connect_config(h) == [source |-> AddressAt(h), destination |-> AddressAt(Server)]

tun_config(h) ==
    IF h = Server THEN [source |-> AddressOf(<<0, 0>>, Port[h]), destination |-> AnyAddress]
    ELSE connect_config(h)

\* The adapter that h's socket is given: connect() and listen_and_accept()
\* overwrite its configuration, and the latter makes it listen.
Configured(h, config, next_hop) ==
    NewAdapter(config.source, config.destination, h = Server,
               NewInterface(EthernetAt(h), Ip[h]), next_hop)

\* The socket that listens over Ethernet, TCPSocketLab7, knows its address.
lab7_config(h) ==
    IF h = Server THEN [source |-> AddressAt(h), destination |-> AnyAddress]
    ELSE connect_config(h)

\* On the Ethernet segment the next hop is the other host.
tap_adapter(h) ==
    Configured(h, lab7_config(h),
               Ip[IF h = Server THEN CHOOSE c \in setting.clients : TRUE ELSE Server])

AdapterFor(h) == CASE setting.kind = "udp" -> Configured(h, udp_config(h), <<0, 0>>)
                   [] setting.kind = "tun" -> Configured(h, tun_config(h), <<0, 0>>)
                   [] setting.kind = "tap" -> tap_adapter(h)

\* The host a packet is sent to: over UDP and IP its addressee, on an
\* Ethernet segment of two hosts the other one.
Towards(h) == IF setting.kind = "tap" THEN CHOOSE g \in Hosts : g # h
              ELSE CHOOSE g \in Hosts : AddressAt(g) = adapter[h].destination

Packets(h, out) == {[by |-> h, to |-> Towards(h), bytes |-> b, intact |-> TRUE] : b \in ToSet(out)}

\* The constructor of a tap's adapter sends a frame without contents.
Init == /\ setting \in Settings
        /\ adapter = [h \in Hosts |-> AdapterFor(h)]
        /\ wire = IF setting.kind = "tap"
                  THEN UNION {Packets(h, <<Zeros(ETHERNET_LENGTH)>>) : h \in Hosts}
                  ELSE {}
        /\ written = <<>>
        /\ got = [h \in Hosts |-> <<>>]

WriteTo(h, seg) == CASE setting.kind = "udp" -> udp_write(adapter[h], seg)
                     [] setting.kind = "tun" -> tun_write(adapter[h], seg)
                     [] setting.kind = "tap" -> tap_write(adapter[h], seg)

\* UDPSocket::recv
recv(p) == [source_address |-> AddressAt(p.by), payload |-> p.bytes]

ReadFrom(h, p) ==
    CASE setting.kind = "udp" -> udp_read(adapter[h], recv(p))
      [] setting.kind = "tun" -> tun_read(adapter[h], p.bytes)
      [] setting.kind = "tap" -> tap_read(adapter[h], p.bytes)

\* What a connection may write: the first segment of a client is a SYN, and
\* only that may be repeated until the server has answered.
MayWrite(h, seg) ==
    /\ ~adapter[h].listening
    /\ h \in setting.strays \/ got[h] # <<>> \/ Opens(seg)
    /\ Len(written) < MaxWrites

Write(h, seg) ==
    LET w == WriteTo(h, seg)
    IN  /\ MayWrite(h, seg)
        /\ adapter' = [adapter EXCEPT ![h] = w.adapter]
        /\ wire' = wire \cup Packets(h, w.out)
        /\ written' = Append(written, [by |-> h, to |-> Towards(h),
                                       seg |-> Addressed(adapter[h], seg)])
        /\ UNCHANGED <<setting, got>>

\* LossyFdAdapter::write: the segment is not written.
DropWrite(h, seg) ==
    /\ setting.lossy
    /\ MayWrite(h, seg)
    /\ written' = Append(written, [by |-> h, to |-> Towards(h),
                                   seg |-> Addressed(adapter[h], seg)])
    /\ UNCHANGED <<setting, adapter, wire, got>>

\* Over UDP the kernel has looked at the addressee, otherwise a copy of the
\* packet may reach any host.  LossyFdAdapter::read drops what its adapter
\* has read.
Receive(h, p, dropped) ==
    LET r == ReadFrom(h, p)
    IN  /\ h # p.by
        /\ setting.kind = "udp" => h = p.to
        /\ dropped => setting.lossy
        /\ adapter' = [adapter EXCEPT ![h] = r.adapter]
        /\ wire' = {q \in wire : q # p \/ h # p.to} \cup Packets(h, r.out)
        /\ got' = IF dropped THEN got ELSE [got EXCEPT ![h] = @ \o r.seg]
        /\ UNCHANGED <<setting, written>>

Damage(p, i, d) ==
    /\ \A q \in wire : q.intact
    /\ i \in DOMAIN p.bytes
    /\ wire' = (wire \ {p}) \cup {[p EXCEPT !.bytes[i] = (@ + d) % 256, !.intact = FALSE]}
    /\ UNCHANGED <<setting, adapter, written, got>>

\* The time after which an interface has forgotten every mapping.
Tick(h) ==
    LET t == tap_tick(adapter[h], ARP_CACHE_TIMEOUT)
    IN  /\ setting.kind = "tap"
        /\ adapter[h].interface.now + ARP_CACHE_TIMEOUT <= MaxTime
        /\ adapter' = [adapter EXCEPT ![h] = t.adapter]
        /\ wire' = wire \cup Packets(h, t.out)
        /\ UNCHANGED <<setting, written, got>>

Next == \/ \E h \in Hosts, seg \in Segments : Write(h, seg) \/ DropWrite(h, seg)
        \/ \E h \in Hosts, p \in wire, dropped \in BOOLEAN : Receive(h, p, dropped)
        \/ \E h \in Hosts : Tick(h)
        \/ \E p \in wire, i \in 1 .. 64, d \in setting.damage : Damage(p, i, d)

Spec == Init /\ [][Next]_vars

\* Packets on their way arrive where they were sent: weak fairness of an
\* action that is enabled whenever there is a packet.
Arrival == \E p \in wire : Receive(p.to, p, FALSE)
FairSpec == Spec /\ ([]<>(wire = {}) \/ []<><<Arrival>>_vars)

-----------------------------------------------------------------------------
(* Properties. *)

Unsummed(seg) == [seg EXCEPT !.header.cksum = 0]

\* A segment that an adapter hands up is, field for field, one that the peer
\* it is connected to has written to it, although packets come to the wrong
\* host and a byte of them may be damaged.  What the listening adapter hands
\* up first is a SYN without RST, unless it lost that one.
ReadWasWritten ==
    \A h \in Hosts : \A i \in DOMAIN got[h] :
        /\ \E j \in DOMAIN written : /\ written[j].seg = Unsummed(got[h][i])
                                    /\ written[j].to = h
                                    /\ AddressAt(written[j].by) = adapter[h].destination
        /\ h = Server /\ i = 1 /\ ~setting.lossy => Opens(got[h][1])

\* Without damage and loss, an adapter that listens is bound once a client
\* has written to it, and every segment that a client or the server it is
\* connected to writes is read, by way of ARP if need be, and again when the
\* mappings have expired: adapters that listen and accept take the address
\* their peer knows them by, and send what a reply lets go.
WrittenIsRead ==
    []<>\/ setting.lossy \/ setting.damage # {} \/ setting.strays # {}
        \/ \A j \in DOMAIN written :
               LET h == written[j].to
               IN  /\ ~adapter[h].listening
                   /\ AddressAt(written[j].by) = adapter[h].destination
                        => \E i \in DOMAIN got[h] : Unsummed(got[h][i]) = written[j].seg
=============================================================================
