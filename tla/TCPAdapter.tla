----------------------------- MODULE TCPAdapter -----------------------------
(***************************************************************************)
(* The adapters that carry TCP segments in UDP payloads, in IPv4 datagrams *)
(* and in Ethernet frames: FdAdapterBase, TCPOverUDPSocketAdapter,         *)
(* TCPOverIPv4Adapter, TCPOverIPv4OverTunFdAdapter and                     *)
(* TCPOverIPv4OverEthernetAdapter.                                         *)
(*                                                                         *)
(* A read returns the adapter it leaves, the segment it hands up, if any,  *)
(* as a sequence, and the packets it has sent meanwhile; a write returns   *)
(* the adapter and the packets.                                            *)
(***************************************************************************)
EXTENDS SegmentFormat, DatagramFormat, FrameFormat, NetworkInterface

\* An Address: the 32-bit IP address and the port.
AddressOf(ip, port) == [ip |-> ip, port |-> port]

NewAdapter(source, destination, listening, interface, next_hop) ==
    [source |-> source, destination |-> destination, listening |-> listening,
     interface |-> interface, next_hop |-> next_hop]

Ignored(a) == [adapter |-> a, seg |-> <<>>, out |-> <<>>]
HandedUp(a, seg) == [adapter |-> a, seg |-> <<seg>>, out |-> <<>>]

\* The segment that begins a connection with a listening adapter.
Opens(seg) == "syn" \in seg.header.flags /\ "rst" \notin seg.header.flags

Refused(a, seg) == a.listening /\ ~Opens(seg)

\* The segment with the port numbers of the adapter's configuration.
Addressed(a, seg) == [seg EXCEPT !.header.sport = a.source.port,
                                 !.header.dport = a.destination.port]

-----------------------------------------------------------------------------
(* TCPOverUDPSocketAdapter *)

udp_read(a, datagram) ==
    LET parsed == TCPSegment_parse(datagram.payload, 0)
    IN  IF \/ ~a.listening /\ datagram.source_address # a.destination
           \/ parsed.result # "NoError"
           \/ Refused(a, parsed.seg)
        THEN Ignored(a)
        ELSE HandedUp([a EXCEPT !.destination = IF a.listening THEN datagram.source_address ELSE @,
                                !.listening = FALSE], parsed.seg)

udp_write(a, seg) ==
    [adapter |-> a, out |-> <<as_iovecs(TCPSegment_serialize(Addressed(a, seg), 0))>>]

-----------------------------------------------------------------------------
(* TCPOverIPv4Adapter and TCPOverIPv4OverTunFdAdapter *)

\* The listening adapter is bound to the sender of a segment, and replies
\* from the address that was contacted.
Bound(a, dgram, seg) ==
    [a EXCEPT !.source = AddressOf(dgram.header.dst, a.source.port),
              !.destination = AddressOf(dgram.header.src, seg.header.sport),
              !.listening = FALSE]

\* The datagram is for this adapter, from its peer, and claims to be TCP.
Concerns(a, dgram) ==
    /\ ~a.listening => dgram.header.dst = a.source.ip /\ dgram.header.src = a.destination.ip
    /\ dgram.header.proto = PROTO_TCP

unwrap_tcp_in_ip(a, dgram) ==
    LET parsed == TCPSegment_parse(ToBuffer(dgram.payload), pseudo_cksum(dgram.header))
        seg == parsed.seg
        b == IF a.listening THEN Bound(a, dgram, seg) ELSE a
    IN  IF \/ ~Concerns(a, dgram)
           \/ parsed.result # "NoError"
           \/ seg.header.dport # a.source.port
           \/ Refused(a, seg)
        THEN Ignored(a)
        ELSE IF seg.header.sport # b.destination.port THEN Ignored(b)
        ELSE HandedUp(b, seg)

wrap_tcp_in_ip(a, seg) ==
    LET h == [NewIPv4Header EXCEPT !.src = a.source.ip,
                                   !.dst = a.destination.ip,
                                   !.len = 4 * NewIPv4Header.hlen + 4 * seg.header.doff
                                             + Len(seg.payload)]
    IN  [header |-> h, payload |-> TCPSegment_serialize(Addressed(a, seg), pseudo_cksum(h))]

tun_read(a, bytes) ==
    LET parsed == IPv4Datagram_parse(bytes)
    IN  IF parsed.result # "NoError" THEN Ignored(a)
        ELSE unwrap_tcp_in_ip(a, parsed.dgram)

tun_write(a, seg) ==
    [adapter |-> a, out |-> <<as_iovecs(IPv4Datagram_serialize(wrap_tcp_in_ip(a, seg)))>>]

-----------------------------------------------------------------------------
(* TCPOverIPv4OverEthernetAdapter *)

\* The bytes of a frame of NetworkInterface, and the frame of some bytes.  A
\* frame whose payload cannot be parsed has no effect on the interface.
FrameBytes(frame) ==
    LET m == frame.payload
        payload == IF frame.type = "IPv4" THEN IPv4Datagram_serialize(m)
                   ELSE <<ARPMessage_serialize(NewARPMessage(
                            IF m.opcode = "REQUEST" THEN OPCODE_REQUEST ELSE OPCODE_REPLY,
                            m.sender_ethernet, m.sender_ip, m.target_ethernet, m.target_ip))>>
    IN  as_iovecs(EthernetFrame_serialize(
            [header |-> [dst |-> frame.dst, src |-> frame.src,
                         type |-> IF frame.type = "IPv4" THEN TYPE_IPv4 ELSE TYPE_ARP],
             payload |-> payload]))

FrameFrom(parsed) ==
    LET h == parsed.header
        dgram == IPv4Datagram_parse(ToBuffer(parsed.payload))
        arp == ARPMessage_parse(ToBuffer(parsed.payload))
        m == arp.msg
    IN  IF h.type = TYPE_IPv4 /\ dgram.result = "NoError"
        THEN FrameOf("IPv4", h.src, h.dst, dgram.dgram)
        ELSE IF h.type = TYPE_ARP /\ arp.result = "NoError"
        THEN FrameOf("ARP", h.src, h.dst,
                     [opcode |-> IF m.opcode = OPCODE_REQUEST THEN "REQUEST" ELSE "REPLY",
                      sender_ip |-> m.sender_ip_address,
                      sender_ethernet |-> m.sender_ethernet_address,
                      target_ip |-> m.target_ip_address,
                      target_ethernet |-> m.target_ethernet_address])
        ELSE FrameOf("none", h.src, h.dst, <<>>)

\* The adapter with a drained interface, and the frames it had for the tap.
send_pending(a) ==
    [adapter |-> [a EXCEPT !.interface.frames_out = <<>>],
     out |-> [i \in DOMAIN a.interface.frames_out |-> FrameBytes(a.interface.frames_out[i])]]

\* Mutant: what a reply lets go stays in the interface's queue.
tap_read_sends_nothing(a, bytes) ==
    LET parsed == EthernetFrame_parse(bytes)
        frame == FrameFrom(parsed.frame)
        read == [a EXCEPT !.interface = recv_frame(@, frame)]
    IN  IF parsed.result # "NoError" THEN Ignored(a)
        ELSE IF PassesUp(a.interface, frame) THEN unwrap_tcp_in_ip(read, frame.payload)
        ELSE Ignored(read)

tap_read(a, bytes) ==
    LET parsed == EthernetFrame_parse(bytes)
        frame == FrameFrom(parsed.frame)
        sent == send_pending([a EXCEPT !.interface = recv_frame(@, frame)])
    IN  IF parsed.result # "NoError" THEN Ignored(a)
        ELSE IF PassesUp(a.interface, frame)
        THEN [unwrap_tcp_in_ip(sent.adapter, frame.payload) EXCEPT !.out = sent.out]
        ELSE [Ignored(sent.adapter) EXCEPT !.out = sent.out]

tap_write(a, seg) ==
    send_pending([a EXCEPT !.interface = send_datagram(@, wrap_tcp_in_ip(a, seg), a.next_hop)])

tap_tick(a, ms_since_last_tick) ==
    send_pending([a EXCEPT !.interface = tick(@, ms_since_last_tick)])
=============================================================================
