-------------------------- MODULE NetworkInterface --------------------------
(***************************************************************************)
(* class NetworkInterface: sends IPv4 datagrams in Ethernet frames, and    *)
(* finds the Ethernet address of the next hop by ARP.                      *)
(*                                                                         *)
(* A frame carries the datagram or the ARP message itself; module          *)
(* TCPAdapter turns frames into bytes and back.                            *)
(***************************************************************************)
EXTENDS Integers, Sequences

CONSTANTS ARP_CACHE_TIMEOUT,   \* _arp_cache_timeout
          ARP_REQUEST_LIMIT    \* _arp_request_limit

ASSUME TimeoutAssumption == ARP_CACHE_TIMEOUT \in Nat \ {0} /\ ARP_REQUEST_LIMIT \in Nat

\* An Ethernet address is a sequence of six bytes.
ETHERNET_BROADCAST == <<255, 255, 255, 255, 255, 255>>

NewInterface(ethernet_address, ip_address) ==
    [ethernet_address |-> ethernet_address,
     ip_address |-> ip_address,
     frames_out |-> <<>>,
     now |-> 0,
     cache |-> <<>>,         \* ip address -> [ethernet, at]
     request_his |-> <<>>,   \* ip address -> the time of the last request
     unsent |-> <<>>]        \* ip address -> datagrams that wait for a reply

\* f with k mapped to v.
With(f, k, v) == [x \in DOMAIN f \cup {k} |-> IF x = k THEN v ELSE f[x]]

FrameOf(type, src, dst, payload) == [type |-> type, src |-> src, dst |-> dst,
                                     payload |-> payload]

\* The datagrams that wait for the address of ip.
Waiting(n, ip) == IF ip \in DOMAIN n.unsent THEN n.unsent[ip] ELSE <<>>

\* Mutant: a mapping never grows old.
IsCached_forever(n, ip) == ip \in DOMAIN n.cache

IsCached(n, ip) == ip \in DOMAIN n.cache /\ n.now - n.cache[ip].at < ARP_CACHE_TIMEOUT

\* Mutant: every datagram makes a request.
MayRequest_always(n, ip) == TRUE

MayRequest(n, ip) ==
    ip \in DOMAIN n.request_his => n.now - n.request_his[ip] >= ARP_REQUEST_LIMIT

ArpRequest(n, ip) ==
    FrameOf("ARP", n.ethernet_address, ETHERNET_BROADCAST,
            [opcode |-> "REQUEST", sender_ip |-> n.ip_address,
             sender_ethernet |-> n.ethernet_address, target_ip |-> ip,
             target_ethernet |-> <<0, 0, 0, 0, 0, 0>>])

ArpReply(n, request) ==
    FrameOf("ARP", n.ethernet_address, request.sender_ethernet,
            [opcode |-> "REPLY", sender_ip |-> n.ip_address,
             sender_ethernet |-> n.ethernet_address, target_ip |-> request.sender_ip,
             target_ethernet |-> request.sender_ethernet])

send_datagram(n, dgram, next_hop) ==
    IF IsCached(n, next_hop)
    THEN [n EXCEPT !.frames_out =
              Append(@, FrameOf("IPv4", n.ethernet_address, n.cache[next_hop].ethernet, dgram))]
    ELSE LET asked == IF MayRequest(n, next_hop)
                      THEN [n EXCEPT !.frames_out = Append(@, ArpRequest(n, next_hop)),
                                     !.request_his = With(@, next_hop, n.now)]
                      ELSE n
         IN  [asked EXCEPT !.unsent = With(@, next_hop, Append(Waiting(n, next_hop), dgram))]

\* The mapping an ARP message announces is learned, whoever it is for.
Learn(n, msg) ==
    [n EXCEPT !.cache = With(@, msg.sender_ip, [ethernet |-> msg.sender_ethernet, at |-> n.now])]

\* Mutant: the datagrams that are sent are also kept.
Flush_keeps(n, ip, ethernet) ==
    [n EXCEPT !.frames_out = @ \o [i \in DOMAIN Waiting(n, ip) |->
                  FrameOf("IPv4", n.ethernet_address, ethernet, Waiting(n, ip)[i])]]

\* What waited for ip is sent, in its order.
Flush(n, ip, ethernet) ==
    [n EXCEPT !.frames_out = @ \o [i \in DOMAIN Waiting(n, ip) |->
                  FrameOf("IPv4", n.ethernet_address, ethernet, Waiting(n, ip)[i])],
              !.unsent = [x \in DOMAIN @ \ {ip} |-> @[x]]]

\* Mutant: a neighbour whose address is known is not answered.
Answer_unknown_only(n, msg) ==
    IF msg.opcode = "REQUEST" /\ msg.target_ip = n.ip_address /\ ~IsCached(n, msg.sender_ip)
    THEN [n EXCEPT !.frames_out = Append(@, ArpReply(n, msg))]
    ELSE n

Answer(n, msg) ==
    IF msg.opcode = "REQUEST" /\ msg.target_ip = n.ip_address
    THEN [n EXCEPT !.frames_out = Append(@, ArpReply(n, msg))]
    ELSE n

\* Mutant: frames for other interfaces are passed up as well.
PassesUp_any(n, frame) == frame.type = "IPv4"

PassesUp(n, frame) == frame.type = "IPv4" /\ frame.dst = n.ethernet_address

\* The interface after a frame; the frame's datagram is returned to the
\* caller if PassesUp holds.
recv_frame(n, frame) ==
    IF frame.type = "ARP"
    THEN LET msg == frame.payload
         IN  Answer(Flush(Learn(n, msg), msg.sender_ip, msg.sender_ethernet), msg)
    ELSE n

tick(n, ms) == [n EXCEPT !.now = @ + ms]
=============================================================================
