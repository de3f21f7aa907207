------------------------ MODULE EthernetLink_proofs ------------------------
(***************************************************************************)
(* The invariants of a segment, for any number of hosts, datagrams and     *)
(* replacements and all timeouts; and that requests for the same address   *)
(* are spaced.                                                             *)
(*                                                                         *)
(* TypeInv is what every argument starts from: what an interface holds,    *)
(* and that every frame announces or addresses an interface of the host it *)
(* speaks of.  SpacedInv relates the history of the requests to            *)
(* _request_his, which is what send_datagram looks at and a replacement    *)
(* empties.                                                                *)
(***************************************************************************)
EXTENDS EthernetLink, TLAPS

-----------------------------------------------------------------------------
(* Sequences. *)

\* The elements of a concatenation: what C++ code gets by pushing the elements
\* of one queue onto another, as the owner of an interface does with frames.
LEMMA Concat ==
    ASSUME NEW S, NEW s \in Seq(S), NEW t \in Seq(S)
    PROVE  /\ s \o t \in Seq(S)
           /\ Len(s \o t) = Len(s) + Len(t)
           /\ \A i \in 1 .. Len(s) : (s \o t)[i] = s[i]
           /\ \A i \in 1 .. Len(t) : (s \o t)[Len(s) + i] = t[i]
<1>1. s \o t \in Seq(S)
  OBVIOUS
<1>2. Len(s \o t) = Len(s) + Len(t)
  OBVIOUS
<1>3. \A i \in 1 .. Len(s) : (s \o t)[i] = s[i]
  OBVIOUS
<1>4. \A i \in 1 .. Len(t) : (s \o t)[Len(s) + i] = t[i]
  OBVIOUS
<1>5. QED
  BY <1>1, <1>2, <1>3, <1>4

\* What Concat says, to be cited as one fact.
Joined(S, s, t, u) ==
    /\ u \in Seq(S)
    /\ Len(u) = Len(s) + Len(t)
    /\ \A i \in 1 .. Len(s) : u[i] = s[i]
    /\ \A i \in 1 .. Len(t) : u[Len(s) + i] = t[i]

\* A sequence of frames followed by another one is both joined.
LEMMA Joining ==
    ASSUME NEW S, NEW s \in Seq(S), NEW t \in Seq(S)
    PROVE  Joined(S, s, t, s \o t)
BY Concat DEF Joined

\* Every element of a concatenation is an element of one of its parts.
LEMMA ConcatElements ==
    ASSUME NEW S, NEW s \in Seq(S), NEW t \in Seq(S)
    PROVE  \A i \in DOMAIN (s \o t) : \/ \E j \in DOMAIN s : (s \o t)[i] = s[j]
                                     \/ \E j \in DOMAIN t : (s \o t)[i] = t[j]
<1> TAKE i \in DOMAIN (s \o t)
<1>1. /\ i \in 1 .. Len(s) + Len(t) /\ Len(s) \in Nat /\ Len(t) \in Nat
      /\ DOMAIN s = 1 .. Len(s) /\ DOMAIN t = 1 .. Len(t)
  OBVIOUS
<1>2. CASE i =< Len(s)
  BY <1>1, <1>2, Concat
<1>3. CASE i > Len(s)
  <2>1. i - Len(s) \in 1 .. Len(t) /\ i = Len(s) + (i - Len(s))
    BY <1>1, <1>3
  <2>2. (s \o t)[i] = t[i - Len(s)]
    BY <2>1, Concat
  <2>3. QED
    BY <1>1, <2>1, <2>2
<1>4. QED
  BY <1>1, <1>2, <1>3

-----------------------------------------------------------------------------
(* What the operations of an interface leave of it. *)

\* The members of a NetworkInterface, and no others.
IsInterface(n) ==
    n = [ethernet_address |-> n.ethernet_address, ip_address |-> n.ip_address,
         frames_out |-> n.frames_out, now |-> n.now, cache |-> n.cache,
         request_his |-> n.request_his, unsent |-> n.unsent]

\* Two interfaces that differ at most in what is said below.
SameIdentity(n, m) == /\ n.ethernet_address = m.ethernet_address
                      /\ n.ip_address = m.ip_address
                      /\ n.now = m.now

\* What send_datagram leaves of an interface that has been drained.
SentFrom(n, s, dgram, to) ==
    /\ IsInterface(s)
    /\ SameIdentity(s, n)
    /\ s.cache = n.cache
    /\ IsCached(n, to) =>
         /\ s.frames_out = <<FrameOf("IPv4", n.ethernet_address, n.cache[to].ethernet, dgram)>>
         /\ s.request_his = n.request_his
         /\ s.unsent = n.unsent
    /\ ~IsCached(n, to) => s.unsent = With(n.unsent, to, Append(Waiting(n, to), dgram))
    /\ ~IsCached(n, to) /\ MayRequest(n, to) =>
         /\ s.frames_out = <<ArpRequest(n, to)>>
         /\ s.request_his = With(n.request_his, to, n.now)
    /\ ~IsCached(n, to) /\ ~MayRequest(n, to) =>
         /\ s.frames_out = <<>>
         /\ s.request_his = n.request_his

\* send_datagram sends the datagram, or keeps it and asks for the address unless
\* that was done a short time ago.
LEMMA Sending ==
    ASSUME NEW n, IsInterface(n), n.frames_out = <<>>, NEW dgram, NEW to
    PROVE  SentFrom(n, send_datagram(n, dgram, to), dgram, to)
<1> DEFINE s == send_datagram(n, dgram, to)
           queue == With(n.unsent, to, Append(Waiting(n, to), dgram))
           asked == [n EXCEPT !.frames_out = Append(@, ArpRequest(n, to)),
                              !.request_his = With(@, to, n.now)]
           waits(a) == [a EXCEPT !.unsent = With(@, to, Append(Waiting(n, to), dgram))]
<1>1. CASE IsCached(n, to)
  <2> DEFINE f == FrameOf("IPv4", n.ethernet_address, n.cache[to].ethernet, dgram)
  <2>1. s = [n EXCEPT !.frames_out = Append(@, f)]
    BY <1>1 DEF send_datagram
  <2> HIDE DEF f, s
  <2>2. s.frames_out = <<f>>
    BY <2>1 DEF IsInterface
  <2>3. /\ IsInterface(s) /\ SameIdentity(s, n) /\ s.cache = n.cache
        /\ s.request_his = n.request_his /\ s.unsent = n.unsent
    BY <2>1 DEF IsInterface, SameIdentity
  <2>4. QED
    BY <1>1, <2>2, <2>3, Zenon DEF f, s, SentFrom
<1>2. CASE ~IsCached(n, to) /\ MayRequest(n, to)
  <2> DEFINE f == ArpRequest(n, to)
  <2>1. s = waits(asked)
    BY <1>2 DEF send_datagram
  <2>2. /\ IsInterface(asked) /\ SameIdentity(asked, n) /\ asked.cache = n.cache
        /\ asked.frames_out = <<f>> /\ asked.unsent = n.unsent
        /\ asked.request_his = With(n.request_his, to, n.now)
    <3> DEFINE queued == [n EXCEPT !.frames_out = Append(n.frames_out, f)]
    <3>1. /\ IsInterface(queued) /\ SameIdentity(queued, n) /\ queued.cache = n.cache
          /\ queued.frames_out = <<f>> /\ queued.unsent = n.unsent
          /\ queued.request_his = n.request_his
      BY DEF IsInterface, SameIdentity
    <3>2. asked = [queued EXCEPT !.request_his = With(n.request_his, to, n.now)]
      BY Zenon
    <3> HIDE DEF queued, asked
    <3>3. QED
      BY <3>1, <3>2 DEF IsInterface, SameIdentity
  <2> HIDE DEF f, asked, s
  <2>3. /\ IsInterface(s) /\ SameIdentity(s, n) /\ s.cache = n.cache
        /\ s.frames_out = <<f>> /\ s.unsent = queue
        /\ s.request_his = With(n.request_his, to, n.now)
    BY <2>1, <2>2 DEF IsInterface, SameIdentity
  <2>4. QED
    BY <1>2, <2>3, Zenon DEF f, s, SentFrom
<1>3. CASE ~IsCached(n, to) /\ ~MayRequest(n, to)
  <2>1. s = waits(n)
    BY <1>3 DEF send_datagram
  <2> HIDE DEF s
  <2>2. /\ IsInterface(s) /\ SameIdentity(s, n) /\ s.cache = n.cache
        /\ s.frames_out = <<>> /\ s.unsent = queue /\ s.request_his = n.request_his
    BY <2>1 DEF IsInterface, SameIdentity
  <2>3. QED
    BY <1>3, <2>2, Zenon DEF s, SentFrom
<1>4. QED
  BY <1>1, <1>2, <1>3

\* The frames in which what waits for ip is sent to an Ethernet address, and
\* what an interface answers to an ARP message.
Flushed(n, ip, ethernet) ==
    [i \in DOMAIN Waiting(n, ip) |->
        FrameOf("IPv4", n.ethernet_address, ethernet, Waiting(n, ip)[i])]
Answers(n, msg) ==
    IF msg.opcode = "REQUEST" /\ msg.target_ip = n.ip_address
    THEN <<ArpReply(n, msg)>> ELSE <<>>

\* What recv_frame leaves of an interface that has been drained.
LEMMA Receiving ==
    ASSUME NEW n, IsInterface(n), n.frames_out = <<>>, NEW frame,
           NEW D, frame.type = "ARP" => Waiting(n, frame.payload.sender_ip) \in Seq(D)
    PROVE  LET r == recv_frame(n, frame)
               msg == frame.payload
           IN  /\ IsInterface(r)
               /\ SameIdentity(r, n)
               /\ r.request_his = n.request_his
               /\ frame.type # "ARP" => r = n
               /\ frame.type = "ARP" =>
                    /\ r.cache = With(n.cache, msg.sender_ip,
                                      [ethernet |-> msg.sender_ethernet, at |-> n.now])
                    /\ r.unsent = [x \in DOMAIN n.unsent \ {msg.sender_ip} |-> n.unsent[x]]
                    /\ r.frames_out = Flushed(n, msg.sender_ip, msg.sender_ethernet)
                                        \o Answers(n, msg)
<1> DEFINE msg == frame.payload
           ip == msg.sender_ip
           learned == Learn(n, msg)
           flushed == Flush(learned, ip, msg.sender_ethernet)
           rest == [x \in DOMAIN n.unsent \ {ip} |-> n.unsent[x]]
           frames == Flushed(n, ip, msg.sender_ethernet)
           known == With(n.cache, ip, [ethernet |-> msg.sender_ethernet, at |-> n.now])
<1>1. CASE frame.type # "ARP"
  BY <1>1 DEF recv_frame, SameIdentity
<1>2. CASE frame.type = "ARP"
  <2>1. /\ IsInterface(learned) /\ SameIdentity(learned, n)
        /\ learned.frames_out = <<>> /\ learned.unsent = n.unsent
        /\ learned.request_his = n.request_his /\ learned.cache = known
    BY DEF IsInterface, Learn, SameIdentity
  <2> HIDE DEF learned
  <2>2. Waiting(learned, ip) = Waiting(n, ip)
    BY <2>1 DEF Waiting
  <2>3. /\ frames \in Seq({FrameOf("IPv4", n.ethernet_address, msg.sender_ethernet, x) : x \in D})
        /\ <<>> \o frames = frames
    BY <1>2 DEF Flushed
  <2>4. flushed = [learned EXCEPT !.frames_out = frames, !.unsent = rest]
    <3>1. flushed = [learned EXCEPT
             !.frames_out = <<>> \o [i \in DOMAIN Waiting(n, ip) |->
                FrameOf("IPv4", n.ethernet_address, msg.sender_ethernet, Waiting(n, ip)[i])],
             !.unsent = [x \in DOMAIN n.unsent \ {ip} |-> n.unsent[x]]]
      BY <2>1, <2>2 DEF Flush, SameIdentity
    <3>2. QED
      BY <2>3, <3>1 DEF Flushed
  <2> DEFINE sent == [learned EXCEPT !.frames_out = frames]
  <2> HIDE DEF frames, rest, known, flushed
  <2>5. /\ IsInterface(sent) /\ SameIdentity(sent, n)
        /\ sent.frames_out = frames /\ sent.unsent = n.unsent
        /\ sent.request_his = n.request_his /\ sent.cache = known
    BY <2>1 DEF IsInterface, SameIdentity
  <2>6. flushed = [sent EXCEPT !.unsent = rest]
    BY <2>4, Zenon
  <2> HIDE DEF sent
  <2>7. /\ IsInterface(flushed) /\ SameIdentity(flushed, n)
        /\ flushed.frames_out = frames /\ flushed.unsent = rest
        /\ flushed.request_his = n.request_his /\ flushed.cache = known
    BY <2>5, <2>6 DEF IsInterface, SameIdentity
  <2> DEFINE a == Answer(flushed, msg)
             reply == ArpReply(n, msg)
  <2>8. recv_frame(n, frame) = a
    BY <1>2 DEF recv_frame, flushed, learned
  <2>9. ArpReply(flushed, msg) = reply
    BY <2>7 DEF ArpReply, SameIdentity
  <2>10. a = IF msg.opcode = "REQUEST" /\ msg.target_ip = n.ip_address
             THEN [flushed EXCEPT !.frames_out = Append(@, reply)] ELSE flushed
    BY <2>7, <2>9 DEF Answer, SameIdentity
  <2> HIDE DEF a, reply
  <2>11. /\ IsInterface(a) /\ SameIdentity(a, n)
         /\ a.unsent = rest /\ a.request_his = n.request_his /\ a.cache = known
    BY <2>7, <2>10, Zenon DEF IsInterface, SameIdentity
  <2>12. a.frames_out = frames \o Answers(n, msg)
    <3>1. CASE msg.opcode = "REQUEST" /\ msg.target_ip = n.ip_address
      <4>1. a.frames_out = Append(frames, reply) /\ Answers(n, msg) = <<reply>>
        BY <2>7, <2>10, <3>1 DEF IsInterface, Answers, reply
      <4>2. Append(frames, reply) = frames \o <<reply>>
        BY <2>3 DEF frames
      <4>3. QED
        BY <4>1, <4>2
    <3>2. CASE ~(msg.opcode = "REQUEST" /\ msg.target_ip = n.ip_address)
      <4>1. a.frames_out = frames /\ Answers(n, msg) = <<>>
        BY <2>7, <2>10, <3>2 DEF Answers
      <4>2. frames \o <<>> = frames
        BY <2>3 DEF frames
      <4>3. QED
        BY <4>1, <4>2
    <3>3. QED
      BY <3>1, <3>2
  <2>13. QED
    BY <1>2, <2>8, <2>11, <2>12 DEF rest, known, frames
<1>3. QED
  BY <1>1, <1>2

\* Taking the queued frames from an interface changes nothing else of it.
LEMMA Draining ==
    ASSUME NEW n, IsInterface(n)
    PROVE  /\ IsInterface(Drained(n)) /\ SameIdentity(Drained(n), n)
           /\ Drained(n).frames_out = <<>>
           /\ Drained(n).cache = n.cache
           /\ Drained(n).request_his = n.request_his
           /\ Drained(n).unsent = n.unsent
           /\ n.frames_out = <<>> => Drained(n) = n
BY DEF IsInterface, SameIdentity, Drained

-----------------------------------------------------------------------------
(* The types of the state, and how the wire grows. *)

Dgrams == [src : Hosts, dst : Hosts, id : Nat]
Addresses == Seq(Nat \cup Hosts)
Messages == [opcode : {"REQUEST", "REPLY"}, sender_ip : Hosts, sender_ethernet : Addresses,
             target_ip : Hosts, target_ethernet : Addresses]
Frames == [type : {"IPv4"}, src : Addresses, dst : Addresses, payload : Dgrams]
            \cup [type : {"ARP"}, src : Addresses, dst : Addresses, payload : Messages]
Entries == [frame : Frames, hearers : SUBSET Hosts]

\* a is the Ethernet address of an interface of host h.
IsAddressOf(a, h) == a = EthernetAddress(h, a[6])

\* A datagram is sent to an interface of the host it is for, and an ARP
\* message announces an interface of the host it is from.
Genuine(f) ==
    /\ f.type = "IPv4" => IsAddressOf(f.dst, f.payload.dst)
    /\ f.type = "ARP" => IsAddressOf(f.payload.sender_ethernet, f.payload.sender_ip)

\* The k-th interface of host h at time t.
InterfaceOK(n, h, k, t) ==
    /\ IsInterface(n)
    /\ n.frames_out = <<>>
    /\ n.ip_address = h
    /\ n.ethernet_address = EthernetAddress(h, k)
    /\ n.now = t
    /\ \A ip \in DOMAIN n.request_his : n.request_his[ip] \in Nat
    /\ \A ip \in DOMAIN n.cache : /\ ip \in Hosts
                                  /\ n.cache[ip].at \in 0 .. t
                                  /\ n.cache[ip].ethernet \in Addresses
                                  /\ IsAddressOf(n.cache[ip].ethernet, ip)
    /\ \A ip \in DOMAIN n.unsent :
         /\ n.unsent[ip] \in Seq(Dgrams)
         /\ \A i \in DOMAIN n.unsent[ip] : n.unsent[ip][i].src = h /\ n.unsent[ip][i].dst = ip

TypeInv == /\ setting \in Settings
           /\ now \in Nat
           /\ nic = [h \in Hosts |-> nic[h]]
           /\ wire \in Seq(Entries)
           /\ \A i \in DOMAIN wire : Genuine(wire[i].frame)
           /\ submitted \in [Hosts -> Seq(Dgrams)]
           /\ delivered \in [Hosts -> Seq(Dgrams)]
           /\ replaced_at \in [Hosts -> Seq(Nat)]
           /\ requested_at \in [Hosts \X Hosts -> Seq(Nat)]
           /\ \A h \in Hosts : InterfaceOK(nic[h], h, Len(replaced_at[h]), now)

\* The address of an interface names the host it belongs to.
LEMMA AddressTyped ==
    ASSUME NEW h \in Hosts, NEW k \in Nat
    PROVE  EthernetAddress(h, k) \in Addresses /\ IsAddressOf(EthernetAddress(h, k), h)
BY DEF EthernetAddress, Addresses, IsAddressOf

\* What waits for an address.
LEMMA WaitingTyped ==
    ASSUME NEW n, NEW h, NEW k, NEW t, InterfaceOK(n, h, k, t), NEW ip
    PROVE  /\ Waiting(n, ip) \in Seq(Dgrams)
           /\ \A i \in DOMAIN Waiting(n, ip) : Waiting(n, ip)[i].src = h /\ Waiting(n, ip)[i].dst = ip
BY DEF InterfaceOK, Waiting

\* frames are on the wire behind what is left of it after its first off
\* entries have gone.
GrewTo(off, frames, h) ==
    /\ off \in {0, 1} /\ off =< Len(wire)
    /\ Len(wire') = (Len(wire) - off) + Len(frames)
    /\ \A i \in 1 .. Len(wire) - off :
          wire'[i].frame = wire[i + off].frame /\ wire'[i].hearers \subseteq wire[i + off].hearers
    /\ \A i \in 1 .. Len(frames) :
          wire'[(Len(wire) - off) + i] = [frame |-> frames[i], hearers |-> Hosts \ {h}]

\* The wire after frames of host h have been put on it.
LEMMA Transmitting ==
    ASSUME NEW h, NEW frames \in Seq(Frames), NEW rest \in Seq(Entries),
           NEW off \in {0, 1}, wire \in Seq(Entries), off =< Len(wire),
           Len(rest) = Len(wire) - off,
           \A i \in 1 .. Len(wire) - off : /\ rest[i].frame = wire[i + off].frame
                                           /\ rest[i].hearers \subseteq wire[i + off].hearers,
           wire' = rest \o OnTheWay(h, frames)
    PROVE  /\ GrewTo(off, frames, h)
           /\ wire' \in Seq(Entries)
           /\ \A i \in 1 .. Len(wire) - off : wire'[i] = rest[i]
<1> DEFINE more == OnTheWay(h, frames)
<1>1. DOMAIN frames = 1 .. Len(frames) /\ Len(frames) \in Nat /\ \A i \in 1 .. Len(frames) : frames[i] \in Frames
  OBVIOUS
<1>2. more = [i \in 1 .. Len(frames) |-> [frame |-> frames[i], hearers |-> Hosts \ {h}]]
  BY <1>1 DEF OnTheWay
<1>3. \A i \in 1 .. Len(frames) : /\ more[i] = [frame |-> frames[i], hearers |-> Hosts \ {h}]
                                   /\ more[i] \in Entries
  BY <1>1, <1>2 DEF Entries
<1> HIDE DEF more
<1>4. more \in Seq(Entries) /\ Len(more) = Len(frames)
  <2> DEFINE len == Len(frames)
  <2>1. len \in Nat /\ more = [i \in 1 .. len |-> more[i]] /\ \A i \in 1 .. len : more[i] \in Entries
    <3>1. more = [i \in 1 .. len |-> more[i]]
      BY <1>2
    <3>2. QED
      BY <1>1, <1>3, <3>1, Zenon
  <2> HIDE DEF len
  <2>2. [i \in 1 .. len |-> more[i]] \in Seq(Entries) /\ Len([i \in 1 .. len |-> more[i]]) = len
    <3>1. len \in Nat /\ \A i \in 1 .. len : more[i] \in Entries
      BY <2>1, Zenon
    <3>2. QED
      BY <3>1
  <2>3. QED
    BY <2>1, <2>2, Zenon DEF len
<1>5. /\ wire' \in Seq(Entries) /\ Len(wire') = Len(rest) + Len(more)
      /\ \A i \in 1 .. Len(rest) : wire'[i] = rest[i]
      /\ \A i \in 1 .. Len(more) : wire'[Len(rest) + i] = more[i]
  <2>1. wire' = rest \o more
    BY DEF more
  <2>2. Joined(Entries, rest, more, rest \o more)
    BY <1>4, Joining, Zenon
  <2>3. Joined(Entries, rest, more, wire')
    BY <2>1, <2>2, Zenon
  <2>4. QED
    BY <2>3, Zenon DEF Joined
<1>6. QED
  <2>1. /\ Len(wire') = (Len(wire) - off) + Len(frames)
        /\ \A i \in 1 .. Len(wire) - off : wire'[i] = rest[i]
        /\ \A i \in 1 .. Len(frames) : wire'[(Len(wire) - off) + i] = more[i]
    BY <1>4, <1>5, Zenon
  <2>2. QED
    BY <1>3, <1>5, <2>1, ZenonT(40) DEF GrewTo

\* The first frame on the wire has reached host h.
LEMMA Hearing ==
    ASSUME wire \in Seq(Entries), wire # <<>>, NEW h \in wire[1].hearers
    PROVE  LET rest == HeardBy(h)
               off == IF wire[1].hearers = {h} THEN 1 ELSE 0
           IN  /\ rest \in Seq(Entries)
               /\ off =< Len(wire) /\ Len(rest) = Len(wire) - off
               /\ \A i \in 1 .. Len(wire) - off :
                    /\ rest[i].frame = wire[i + off].frame
                    /\ rest[i].hearers = IF i + off = 1 THEN wire[1].hearers \ {h}
                                         ELSE wire[i + off].hearers
<1> DEFINE head == [wire[1] EXCEPT !.hearers = wire[1].hearers \ {h}]
<1>1. Len(wire) \in Nat \ {0} /\ 1 \in DOMAIN wire /\ wire[1] \in Entries
  OBVIOUS
<1>2. /\ head \in Entries /\ head.frame = wire[1].frame
      /\ head.hearers = wire[1].hearers \ {h}
  BY <1>1, ZenonT(40) DEF Entries
<1>3. CASE wire[1].hearers = {h}
  BY <1>1, <1>3 DEF HeardBy
<1>4. CASE wire[1].hearers # {h}
  <2> DEFINE rest == [wire EXCEPT ![1] = head]
  <2>1. HeardBy(h) = rest
    BY <1>4 DEF HeardBy
  <2> HIDE DEF head
  <2>2. rest \in Seq(Entries) /\ Len(rest) = Len(wire)
    BY <1>1, <1>2
  <2>3. \A i \in 1 .. Len(wire) : rest[i] = IF i = 1 THEN head ELSE wire[i]
    BY <1>1, <1>2
  <2>4. QED
    <3> HIDE DEF rest
    <3>1. \A i \in 1 .. Len(wire) : /\ rest[i].frame = wire[i].frame
                                      /\ rest[i].hearers = IF i = 1 THEN wire[1].hearers \ {h}
                                                           ELSE wire[i].hearers
      BY <1>2, <2>3, Zenon
    <3>2. QED
      <4> DEFINE off == IF wire[1].hearers = {h} THEN 1 ELSE 0
      <4>1. off = 0
        BY <1>4
      <4> HIDE DEF off
      <4>2. /\ off =< Len(wire) /\ Len(rest) = Len(wire) - off
            /\ \A i \in 1 .. Len(wire) - off :
                    /\ rest[i].frame = wire[i + off].frame
                    /\ rest[i].hearers = IF i + off = 1 THEN wire[1].hearers \ {h}
                                         ELSE wire[i + off].hearers
        <5>1. off =< Len(wire) /\ Len(rest) = Len(wire) - off /\ Len(wire) - off = Len(wire)
          BY <1>1, <2>2, <4>1
        <5>2. \A i \in 1 .. Len(wire) : i + off = i
          BY <4>1
        <5>3. QED
          BY <3>1, <5>1, <5>2, Zenon
      <4>3. QED
        BY <2>1, <2>2, <4>2, Zenon DEF off
<1>5. QED
  BY <1>3, <1>4, Zenon

\* Every frame of the sequence is as it should be.
FramesOK(frames) == /\ frames \in Seq(Frames)
                    /\ \A i \in DOMAIN frames : Genuine(frames[i])

\* A single frame that is well formed and genuine.
LEMMA OneFrame ==
    /\ FramesOK(<<>>)
    /\ \A f \in Frames : Genuine(f) => FramesOK(<<f>>)
<1>1. FramesOK(<<>>)
  BY DEF FramesOK
<1>2. ASSUME NEW f \in Frames, Genuine(f) PROVE FramesOK(<<f>>)
  <2>1. <<f>> \in Seq(Frames) /\ DOMAIN <<f>> = {1} /\ <<f>>[1] = f
    OBVIOUS
  <2>2. QED
    BY <1>2, <2>1, Zenon DEF FramesOK
<1>3. QED
  BY <1>1, <1>2

\* An interface that has sent a datagram: its members are as they should be,
\* and so are the frames that it queues.
LEMMA SendTypedHost ==
    ASSUME NEW n, NEW h \in Hosts, NEW k \in Nat, NEW t \in Nat, InterfaceOK(n, h, k, t),
           NEW to \in Hosts, NEW id \in Nat
    PROVE  LET s == send_datagram(n, [src |-> h, dst |-> to, id |-> id], to)
           IN  /\ InterfaceOK(Drained(s), h, k, t)
               /\ FramesOK(s.frames_out)
<1> DEFINE dgram == [src |-> h, dst |-> to, id |-> id]
           s == send_datagram(n, dgram, to)
           d == Drained(s)
           queue == With(n.unsent, to, Append(Waiting(n, to), dgram))
<1>1. dgram \in Dgrams /\ dgram.src = h /\ dgram.dst = to
  BY DEF Dgrams
<1>2. /\ IsInterface(n) /\ n.frames_out = <<>> /\ n.ip_address = h /\ n.now = t
      /\ n.ethernet_address = EthernetAddress(h, k)
      /\ n.ethernet_address \in Addresses /\ IsAddressOf(n.ethernet_address, h)
  BY AddressTyped DEF InterfaceOK
<1> HIDE DEF dgram
<1>3. /\ IsInterface(s) /\ SameIdentity(s, n) /\ s.cache = n.cache
      /\ IsCached(n, to) =>
           /\ s.frames_out = <<FrameOf("IPv4", n.ethernet_address, n.cache[to].ethernet, dgram)>>
           /\ s.request_his = n.request_his
           /\ s.unsent = n.unsent
      /\ ~IsCached(n, to) => s.unsent = queue
      /\ ~IsCached(n, to) /\ MayRequest(n, to) =>
           /\ s.frames_out = <<ArpRequest(n, to)>>
           /\ s.request_his = With(n.request_his, to, n.now)
      /\ ~IsCached(n, to) /\ ~MayRequest(n, to) =>
           /\ s.frames_out = <<>>
           /\ s.request_his = n.request_his
  <2>1. SentFrom(n, s, dgram, to)
    BY <1>2, Sending, Zenon
  <2>2. QED
    BY <2>1, Zenon DEF SentFrom
<1> HIDE DEF s
<1>4. /\ IsInterface(d) /\ SameIdentity(d, s) /\ d.frames_out = <<>>
      /\ d.cache = s.cache /\ d.request_his = s.request_his /\ d.unsent = s.unsent
  BY <1>3, Draining
<1> HIDE DEF d
<1>5. InterfaceOK(d, h, k, t)
  <2>1. /\ d.frames_out = <<>> /\ d.ip_address = h /\ d.now = t
        /\ d.ethernet_address = EthernetAddress(h, k)
    BY <1>2, <1>3, <1>4, SMTT(30) DEF SameIdentity
  <2>2. \A ip \in DOMAIN d.request_his : d.request_his[ip] \in Nat
    BY <1>2, <1>3, <1>4 DEF InterfaceOK, With
  <2>3. \A ip \in DOMAIN d.cache : /\ ip \in Hosts
                                   /\ d.cache[ip].at \in 0 .. t
                                   /\ d.cache[ip].ethernet \in Addresses
                                   /\ IsAddressOf(d.cache[ip].ethernet, ip)
    BY <1>3, <1>4 DEF InterfaceOK
  <2>4. \A ip \in DOMAIN d.unsent :
           /\ d.unsent[ip] \in Seq(Dgrams)
           /\ \A i \in DOMAIN d.unsent[ip] : d.unsent[ip][i].src = h /\ d.unsent[ip][i].dst = ip
    <3>1. CASE IsCached(n, to)
      BY <1>3, <1>4, <3>1 DEF InterfaceOK
    <3>2. CASE ~IsCached(n, to)
      <4> DEFINE q == Append(Waiting(n, to), dgram)
      <4>1. /\ q \in Seq(Dgrams)
            /\ \A i \in DOMAIN q : q[i].src = h /\ q[i].dst = to
        BY <1>1, WaitingTyped
      <4> HIDE DEF q
      <4>2. d.unsent = With(n.unsent, to, q)
        BY <1>3, <1>4, <3>2 DEF q
      <4>3. QED
        BY <4>1, <4>2 DEF With, InterfaceOK
    <3>3. QED
      BY <3>1, <3>2
  <2>5. QED
    BY <1>4, <2>1, <2>2, <2>3, <2>4 DEF InterfaceOK
<1>6. FramesOK(s.frames_out)
  <2>1. CASE IsCached(n, to)
    <3> DEFINE f == FrameOf("IPv4", n.ethernet_address, n.cache[to].ethernet, dgram)
    <3>1. n.cache[to].ethernet \in Addresses /\ IsAddressOf(n.cache[to].ethernet, to)
      BY <2>1 DEF IsCached, InterfaceOK
    <3>2. f \in Frames /\ Genuine(f)
      BY <1>1, <1>2, <3>1 DEF FrameOf, Frames, Genuine
    <3> HIDE DEF f
    <3>3. QED
      BY <1>3, <2>1, <3>2, OneFrame, Zenon DEF f
  <2>2. CASE ~IsCached(n, to) /\ MayRequest(n, to)
    <3> DEFINE f == ArpRequest(n, to)
    <3>1. ETHERNET_BROADCAST \in Addresses /\ <<0, 0, 0, 0, 0, 0>> \in Addresses
      BY DEF ETHERNET_BROADCAST, Addresses
    <3>2. f \in Frames /\ Genuine(f)
      BY <1>2, <3>1 DEF ArpRequest, FrameOf, Frames, Messages, Genuine
    <3> HIDE DEF f
    <3>3. QED
      BY <1>3, <2>2, <3>2, OneFrame, Zenon DEF f
  <2>3. CASE ~IsCached(n, to) /\ ~MayRequest(n, to)
    BY <1>3, <2>3, OneFrame
  <2>4. QED
    BY <2>1, <2>2, <2>3
<1>7. QED
  BY <1>5, <1>6 DEF d, s, dgram

\* What an interface sends when an ARP message has come.
LEMMA AnswerTyped ==
    ASSUME NEW n, NEW h \in Hosts, NEW k \in Nat, NEW t, InterfaceOK(n, h, k, t),
           NEW frame \in Frames, Genuine(frame), frame.type = "ARP"
    PROVE  LET msg == frame.payload
           IN  /\ FramesOK(Flushed(n, msg.sender_ip, msg.sender_ethernet))
               /\ FramesOK(Answers(n, msg))
<1> DEFINE msg == frame.payload
           ip == msg.sender_ip
           flushed == Flushed(n, ip, msg.sender_ethernet)
<1>1. /\ n.ip_address = h
      /\ n.ethernet_address \in Addresses /\ IsAddressOf(n.ethernet_address, h)
  BY AddressTyped DEF InterfaceOK
<1>2. msg \in Messages /\ IsAddressOf(msg.sender_ethernet, ip)
  BY DEF Frames, Genuine
<1>3. /\ ip \in Hosts /\ msg.sender_ethernet \in Addresses
  BY <1>2 DEF Messages
<1>4. FramesOK(flushed)
  <2> DEFINE w == Waiting(n, ip)
  <2>1. w \in Seq(Dgrams) /\ \A i \in DOMAIN w : w[i].dst = ip
    BY WaitingTyped
  <2>2. flushed = [i \in DOMAIN w |-> FrameOf("IPv4", n.ethernet_address, msg.sender_ethernet, w[i])]
    BY DEF Flushed
  <2> HIDE DEF w, flushed
  <2>3. DOMAIN w = 1 .. Len(w) /\ Len(w) \in Nat /\ \A i \in DOMAIN w : w[i] \in Dgrams
    BY <2>1
  <2>4. \A i \in 1 .. Len(w) : flushed[i] \in Frames /\ Genuine(flushed[i])
    BY <1>1, <1>2, <1>3, <2>1, <2>2, <2>3 DEF FrameOf, Frames, Genuine
  <2>5. QED
    BY <2>2, <2>3, <2>4 DEF FramesOK
<1>5. FramesOK(Answers(n, msg))
  <2> DEFINE f == ArpReply(n, msg)
  <2>1. f \in Frames /\ Genuine(f)
    BY <1>1, <1>2, <1>3 DEF ArpReply, FrameOf, Frames, Messages, Genuine
  <2> HIDE DEF f
  <2>2. Answers(n, msg) \in {<<f>>, <<>>}
    BY DEF Answers, f
  <2>3. QED
    BY <2>1, <2>2, OneFrame
<1>6. QED
  BY <1>4, <1>5

\* An interface that has received a frame.
LEMMA ReceiveTypedHost ==
    ASSUME NEW n, NEW h \in Hosts, NEW k \in Nat, NEW t \in Nat, InterfaceOK(n, h, k, t),
           NEW frame \in Frames, Genuine(frame)
    PROVE  LET r == recv_frame(n, frame)
           IN  /\ InterfaceOK(Drained(r), h, k, t)
               /\ FramesOK(r.frames_out)
<1> DEFINE r == recv_frame(n, frame)
           d == Drained(r)
           msg == frame.payload
           ip == msg.sender_ip
           new == [ethernet |-> msg.sender_ethernet, at |-> n.now]
           rest == [x \in DOMAIN n.unsent \ {ip} |-> n.unsent[x]]
           flushed == Flushed(n, ip, msg.sender_ethernet)
<1>2. /\ IsInterface(n) /\ n.frames_out = <<>> /\ n.ip_address = h /\ n.now = t
      /\ n.ethernet_address = EthernetAddress(h, k)
      /\ n.ethernet_address \in Addresses /\ IsAddressOf(n.ethernet_address, h)
  BY AddressTyped DEF InterfaceOK
<1>3. Waiting(n, ip) \in Seq(Dgrams)
  BY WaitingTyped
<1>4. /\ IsInterface(r) /\ SameIdentity(r, n) /\ r.request_his = n.request_his
      /\ frame.type # "ARP" => r = n
      /\ frame.type = "ARP" =>
           /\ r.cache = With(n.cache, ip, new)
           /\ r.unsent = rest
           /\ r.frames_out = flushed \o Answers(n, msg)
  BY <1>2, <1>3, Receiving, ZenonT(40)
<1> HIDE DEF r
<1>5. /\ IsInterface(d) /\ SameIdentity(d, r) /\ d.frames_out = <<>>
      /\ d.cache = r.cache /\ d.request_his = r.request_his /\ d.unsent = r.unsent
      /\ r.frames_out = <<>> => d = r
  BY <1>4, Draining
<1> HIDE DEF d
<1>6. CASE frame.type # "ARP"
  <2>1. r = n /\ d = n /\ r.frames_out = <<>>
    BY <1>2, <1>4, <1>5, <1>6
  <2>2. QED
    BY <2>1, OneFrame DEF d, r
<1>7. CASE frame.type = "ARP"
  <2>1. msg \in Messages /\ IsAddressOf(msg.sender_ethernet, ip)
    BY <1>7 DEF Frames, Genuine
  <2>2. /\ ip \in Hosts /\ msg.sender_ethernet \in Addresses
    BY <2>1, ZenonT(40) DEF Messages
  <2>3. InterfaceOK(d, h, k, t)
    <3>1. /\ d.frames_out = <<>> /\ d.ip_address = h /\ d.now = t
          /\ d.ethernet_address = EthernetAddress(h, k)
      BY <1>2, <1>4, <1>5, ZenonT(40) DEF SameIdentity
    <3>2. \A x \in DOMAIN d.request_his : d.request_his[x] \in Nat
      BY <1>4, <1>5 DEF InterfaceOK
    <3>3. new.ethernet = msg.sender_ethernet /\ new.at = t /\ t \in 0 .. t
      BY <1>2
    <3> HIDE DEF new
    <3>4. d.cache = With(n.cache, ip, new)
      BY <1>4, <1>5, <1>7, ZenonT(40)
    <3>5. \A x \in DOMAIN d.cache : /\ x \in Hosts
                                    /\ d.cache[x].at \in 0 .. t
                                    /\ d.cache[x].ethernet \in Addresses
                                    /\ IsAddressOf(d.cache[x].ethernet, x)
      BY <2>1, <2>2, <3>3, <3>4, SMTT(30) DEF InterfaceOK, With
    <3>6. \A x \in DOMAIN d.unsent :
             /\ d.unsent[x] \in Seq(Dgrams)
             /\ \A i \in DOMAIN d.unsent[x] : d.unsent[x][i].src = h /\ d.unsent[x][i].dst = x
      BY <1>4, <1>5, <1>7 DEF InterfaceOK
    <3>7. QED
      BY <1>5, <3>1, <3>2, <3>5, <3>6 DEF InterfaceOK
  <2>4. FramesOK(flushed) /\ FramesOK(Answers(n, msg))
    BY <1>7, AnswerTyped
  <2>5. FramesOK(r.frames_out)
    <3> DEFINE a == Answers(n, msg)
    <3> HIDE DEF flushed, a
    <3>1. r.frames_out = flushed \o a
      BY <1>4, <1>7 DEF a
    <3>2. flushed \in Seq(Frames) /\ a \in Seq(Frames)
      BY <2>4 DEF a, FramesOK
    <3>3. flushed \o a \in Seq(Frames)
      BY <3>2
    <3>4. \A i \in DOMAIN (flushed \o a) : \/ \E j \in DOMAIN flushed : (flushed \o a)[i] = flushed[j]
                                           \/ \E j \in DOMAIN a : (flushed \o a)[i] = a[j]
      BY <3>2, ConcatElements, SMTT(30)
    <3>5. QED
      BY <2>4, <3>1, <3>3, <3>4, SMTT(30) DEF FramesOK, a
  <2>6. QED
    BY <2>3, <2>5 DEF d, r
<1>8. QED
  BY <1>6, <1>7

\* The frames on the wire after a step are the ones that were there, and the
\* new ones.
LEMMA WireStaysIn ==
    ASSUME NEW G, wire \in Seq(Entries), wire' \in Seq(Entries),
           NEW off, NEW h, NEW frames \in Seq(Frames), GrewTo(off, frames, h),
           \A i \in DOMAIN wire : wire[i].frame \in G,
           \A i \in DOMAIN frames : frames[i] \in G
    PROVE  \A i \in DOMAIN wire' : wire'[i].frame \in G
<1> TAKE i \in DOMAIN wire'
<1>1. /\ Len(wire) \in Nat /\ Len(frames) \in Nat /\ off \in {0, 1} /\ off =< Len(wire)
      /\ i \in 1 .. (Len(wire) - off) + Len(frames)
      /\ DOMAIN wire = 1 .. Len(wire) /\ DOMAIN frames = 1 .. Len(frames)
  BY DEF GrewTo
<1>2. CASE i =< Len(wire) - off
  <2>1. i \in 1 .. Len(wire) - off /\ i + off \in 1 .. Len(wire)
    BY <1>1, <1>2
  <2>2. wire'[i].frame = wire[i + off].frame
    BY <2>1, ZenonT(40) DEF GrewTo
  <2>3. QED
    BY <1>1, <2>1, <2>2
<1>3. CASE i > Len(wire) - off
  <2> DEFINE j == i - (Len(wire) - off)
  <2>1. j \in 1 .. Len(frames) /\ i = (Len(wire) - off) + j
    BY <1>1, <1>3
  <2> HIDE DEF j
  <2>2. wire'[i] = [frame |-> frames[j], hearers |-> Hosts \ {h}]
    BY <2>1 DEF GrewTo
  <2>3. wire'[i].frame = frames[j]
    BY <2>2
  <2>4. QED
    BY <1>1, <2>1, <2>3, ZenonT(40)
<1>4. QED
  BY <1>1, <1>2, <1>3

\* What is on the wire.
LEMMA WireTyped ==
    ASSUME TypeInv
    PROVE  /\ wire \in Seq(Entries)
           /\ \A i \in DOMAIN wire : /\ wire[i].frame \in Frames
                                     /\ wire[i].hearers \subseteq Hosts
                                     /\ Genuine(wire[i].frame)
<1>1. wire \in Seq(Entries) /\ \A i \in DOMAIN wire : Genuine(wire[i].frame)
  BY DEF TypeInv
<1>2. \A i \in DOMAIN wire : wire[i] \in Entries
  BY <1>1
<1>3. \A e \in Entries : e.frame \in Frames /\ e.hearers \subseteq Hosts
  BY DEF Entries
<1>4. QED
  BY <1>1, <1>2, <1>3

\* A wire to which genuine frames are added holds genuine frames.
LEMMA WireStaysGenuine ==
    ASSUME TypeInv, NEW off, NEW h, NEW frames, FramesOK(frames), GrewTo(off, frames, h),
           wire' \in Seq(Entries)
    PROVE  \A i \in DOMAIN wire' : Genuine(wire'[i].frame)
<1> DEFINE G == {f \in Frames : Genuine(f)}
<1>1. wire \in Seq(Entries) /\ \A i \in DOMAIN wire : wire[i].frame \in G
  BY WireTyped
<1>2. frames \in Seq(Frames) /\ \A i \in DOMAIN frames : frames[i] \in G
  BY DEF FramesOK
<1> HIDE DEF G
<1>3. \A i \in DOMAIN wire' : wire'[i].frame \in G
  BY <1>1, <1>2, WireStaysIn, ZenonT(40)
<1>4. QED
  BY <1>3 DEF G

\* What Send does to the interfaces and the wire.
LEMMA SendStep ==
    ASSUME TypeInv, NEW h \in Hosts, NEW to \in Hosts, Send(h, to)
    PROVE  LET dgram == [src |-> h, dst |-> to, id |-> Len(submitted[h])]
               s == send_datagram(nic[h], dgram, to)
           IN  /\ dgram \in Dgrams
               /\ InterfaceOK(Drained(s), h, Len(replaced_at[h]), now)
               /\ FramesOK(s.frames_out)
               /\ GrewTo(0, s.frames_out, h)
               /\ wire' \in Seq(Entries)
               /\ \A i \in 1 .. Len(wire) : wire'[i] = wire[i]
               /\ nic' = [g \in Hosts |-> IF g = h THEN Drained(s) ELSE nic[g]]
<1> DEFINE dgram == [src |-> h, dst |-> to, id |-> Len(submitted[h])]
           s == send_datagram(nic[h], dgram, to)
<1>1. /\ Len(submitted[h]) \in Nat /\ Len(replaced_at[h]) \in Nat /\ now \in Nat
      /\ InterfaceOK(nic[h], h, Len(replaced_at[h]), now)
      /\ wire \in Seq(Entries)
  BY SMTT(30) DEF TypeInv
<1>2. dgram \in Dgrams
  BY <1>1 DEF Dgrams
<1>3. InterfaceOK(Drained(s), h, Len(replaced_at[h]), now) /\ FramesOK(s.frames_out)
  BY <1>1, SendTypedHost, ZenonT(40)
<1>4. /\ wire' = wire \o OnTheWay(h, s.frames_out)
      /\ nic' = [nic EXCEPT ![h] = Drained(s)]
  BY DEF Send
<1> HIDE DEF s
<1>5. nic' = [g \in Hosts |-> IF g = h THEN Drained(s) ELSE nic[g]]
  BY <1>4, Zenon DEF TypeInv
<1>6. /\ GrewTo(0, s.frames_out, h) /\ wire' \in Seq(Entries)
      /\ \A i \in 1 .. Len(wire) - 0 : wire'[i] = wire[i]
  <2>1. /\ 0 \in {0, 1} /\ 0 =< Len(wire) /\ Len(wire) = Len(wire) - 0
        /\ \A i \in 1 .. Len(wire) - 0 : wire[i].frame = wire[i + 0].frame /\ wire[i].hearers \subseteq wire[i + 0].hearers
    BY <1>1
  <2>2. s.frames_out \in Seq(Frames)
    BY <1>3 DEF FramesOK
  <2>3. QED
    BY <1>1, <1>4, <2>1, <2>2, Transmitting, Zenon
<1>7. \A i \in 1 .. Len(wire) : wire'[i] = wire[i]
  BY <1>1, <1>6
<1>8. QED
  BY <1>2, <1>3, <1>5, <1>6, <1>7 DEF s

\* What Deliver does to the interfaces and the wire.
LEMMA DeliverStep ==
    ASSUME TypeInv, NEW h \in Hosts, Deliver(h)
    PROVE  LET r == recv_frame(nic[h], wire[1].frame)
               off == IF wire[1].hearers = {h} THEN 1 ELSE 0
           IN  /\ 1 \in DOMAIN wire /\ h \in wire[1].hearers
               /\ wire[1] \in Entries /\ wire[1].frame \in Frames /\ Genuine(wire[1].frame)
               /\ InterfaceOK(Drained(r), h, Len(replaced_at[h]), now)
               /\ FramesOK(r.frames_out)
               /\ GrewTo(off, r.frames_out, h)
               /\ wire' \in Seq(Entries)
               /\ \A i \in 1 .. Len(wire) - off :
                    wire'[i].hearers = IF i + off = 1 THEN wire[1].hearers \ {h}
                                       ELSE wire[i + off].hearers
               /\ nic' = [g \in Hosts |-> IF g = h THEN Drained(r) ELSE nic[g]]
<1> DEFINE r == recv_frame(nic[h], wire[1].frame)
           off == IF wire[1].hearers = {h} THEN 1 ELSE 0
           rest == HeardBy(h)
<1>1. /\ wire # <<>> /\ h \in wire[1].hearers
      /\ nic' = [nic EXCEPT ![h] = Drained(r)]
      /\ wire' = HeardBy(h) \o OnTheWay(h, r.frames_out)
  BY DEF Deliver
<1>2. /\ Len(replaced_at[h]) \in Nat /\ now \in Nat
      /\ InterfaceOK(nic[h], h, Len(replaced_at[h]), now)
      /\ wire \in Seq(Entries)
  BY DEF TypeInv
<1>3. 1 \in DOMAIN wire /\ wire[1] \in Entries /\ Len(wire) \in Nat
  BY <1>1, <1>2
<1>4. wire[1].frame \in Frames /\ Genuine(wire[1].frame)
  BY <1>3 DEF Entries, TypeInv
<1>5. InterfaceOK(Drained(r), h, Len(replaced_at[h]), now) /\ FramesOK(r.frames_out)
  BY <1>2, <1>4, ReceiveTypedHost
<1> HIDE DEF r
<1>6. nic' = [g \in Hosts |-> IF g = h THEN Drained(r) ELSE nic[g]]
  BY <1>1, Zenon DEF TypeInv
<1>7. /\ rest \in Seq(Entries)
      /\ off \in {0, 1} /\ off =< Len(wire) /\ Len(rest) = Len(wire) - off
      /\ \A i \in 1 .. Len(wire) - off :
           /\ rest[i].frame = wire[i + off].frame
           /\ rest[i].hearers = IF i + off = 1 THEN wire[1].hearers \ {h}
                                ELSE wire[i + off].hearers
  BY <1>1, <1>2, Hearing, Zenon
<1> HIDE DEF off, rest
<1>8. \A i \in 1 .. Len(wire) - off : rest[i].hearers \subseteq wire[i + off].hearers
  <2> TAKE i \in 1 .. Len(wire) - off
  <2>1. rest[i].hearers = IF i + off = 1 THEN wire[1].hearers \ {h} ELSE wire[i + off].hearers
    BY <1>7, Zenon
  <2>2. QED
    BY <2>1
<1>9. r.frames_out \in Seq(Frames)
  BY <1>5 DEF FramesOK
<1>10. /\ GrewTo(off, r.frames_out, h) /\ wire' \in Seq(Entries)
       /\ \A i \in 1 .. Len(wire) - off : wire'[i] = rest[i]
  BY <1>1, <1>2, <1>7, <1>8, <1>9, Transmitting, Zenon DEF rest
<1>11. QED
  BY <1>1, <1>3, <1>4, <1>5, <1>6, <1>7, <1>10, ZenonT(40) DEF r, off

-----------------------------------------------------------------------------
(* The types are kept. *)

\* What Lose does to the wire.
LEMMA LoseStep ==
    ASSUME TypeInv, Lose, NEW h
    PROVE  /\ GrewTo(1, <<>>, h)
           /\ wire' \in Seq(Entries)
           /\ \A i \in 1 .. Len(wire) - 1 : wire'[i] = wire[i + 1]
<1>1. /\ wire \in Seq(Entries) /\ wire # <<>> /\ wire' = Tail(wire) /\ Len(wire) \in Nat
  BY DEF TypeInv, Lose
<1>2. /\ wire' \in Seq(Entries) /\ Len(wire') = Len(wire) - 1 /\ 1 =< Len(wire)
      /\ \A i \in 1 .. Len(wire) - 1 : wire'[i] = wire[i + 1]
  BY <1>1, SMTT(30)
<1>3. QED
  BY <1>1, <1>2 DEF GrewTo

\* The clock of an interface moves on.
LEMMA TickTypedHost ==
    ASSUME NEW n, NEW h, NEW k, NEW t \in Nat, InterfaceOK(n, h, k, t), NEW ms \in Nat
    PROVE  /\ InterfaceOK(tick(n, ms), h, k, t + ms)
           /\ tick(n, ms).now = t + ms
           /\ tick(n, ms).ethernet_address = n.ethernet_address
           /\ tick(n, ms).cache = n.cache
           /\ tick(n, ms).request_his = n.request_his
           /\ tick(n, ms).unsent = n.unsent
<1> DEFINE m == tick(n, ms)
<1>1. /\ IsInterface(m) /\ m.now = t + ms
      /\ m.frames_out = <<>> /\ m.ip_address = h
      /\ m.ethernet_address = n.ethernet_address /\ m.ethernet_address = EthernetAddress(h, k)
      /\ m.cache = n.cache /\ m.request_his = n.request_his /\ m.unsent = n.unsent
  BY DEF tick, InterfaceOK, IsInterface
<1> HIDE DEF m
<1>2. \A ip \in DOMAIN n.cache : n.cache[ip].at \in 0 .. t + ms
  BY DEF InterfaceOK
<1>3. QED
  BY <1>1, <1>2 DEF InterfaceOK, m

\* A new interface.
LEMMA NewTypedHost ==
    ASSUME NEW h \in Hosts, NEW k \in Nat, NEW t \in Nat
    PROVE  LET n == [NewInterface(EthernetAddress(h, k), h) EXCEPT !.now = t]
           IN  /\ InterfaceOK(n, h, k, t)
               /\ n.cache = <<>> /\ n.request_his = <<>> /\ n.unsent = <<>>
<1> DEFINE n == [NewInterface(EthernetAddress(h, k), h) EXCEPT !.now = t]
<1>1. /\ IsInterface(n) /\ n.frames_out = <<>> /\ n.ip_address = h
      /\ n.ethernet_address = EthernetAddress(h, k) /\ n.now = t
      /\ n.cache = <<>> /\ n.request_his = <<>> /\ n.unsent = <<>>
  BY DEF NewInterface, IsInterface
<1> HIDE DEF n
<1>2. QED
  BY <1>1 DEF InterfaceOK, n

\* The types hold when all interfaces have just been constructed.
LEMMA InitTyped == Init => TypeInv
<1> SUFFICES ASSUME Init PROVE TypeInv
  OBVIOUS
<1>1. \A h \in Hosts : InterfaceOK(nic[h], h, Len(replaced_at[h]), now)
  <2> TAKE h \in Hosts
  <2>1. /\ nic[h] = NewInterface(EthernetAddress(h, 0), h)
        /\ now = 0 /\ replaced_at[h] = <<>> /\ Len(<<>>) = 0
    BY DEF Init
  <2>2. nic[h] = [NewInterface(EthernetAddress(h, 0), h) EXCEPT !.now = 0]
    BY <2>1 DEF NewInterface
  <2>3. QED
    BY <2>1, <2>2, NewTypedHost
<1>2. QED
  BY <1>1 DEF Init, TypeInv

\* send_datagram keeps the types.
LEMMA SendTyped ==
    ASSUME TypeInv, NEW h \in Hosts, NEW to \in Hosts, Send(h, to)
    PROVE  TypeInv'
<1> DEFINE dgram == [src |-> h, dst |-> to, id |-> Len(submitted[h])]
           s == send_datagram(nic[h], dgram, to)
<1>1. /\ dgram \in Dgrams
      /\ InterfaceOK(Drained(s), h, Len(replaced_at[h]), now)
      /\ FramesOK(s.frames_out) /\ GrewTo(0, s.frames_out, h)
      /\ wire' \in Seq(Entries)
      /\ nic' = [g \in Hosts |-> IF g = h THEN Drained(s) ELSE nic[g]]
  BY SendStep, ZenonT(40)
<1>2. /\ submitted' = [submitted EXCEPT ![h] = Append(submitted[h], dgram)]
      /\ requested_at' = IF Requests(s) = {} THEN requested_at
                         ELSE [requested_at EXCEPT ![<<h, to>>] = Append(requested_at[<<h, to>>], now)]
      /\ setting' = setting /\ delivered' = delivered /\ now' = now /\ replaced_at' = replaced_at
  BY DEF Send
<1> HIDE DEF dgram, s
<1>3. \A i \in DOMAIN wire' : Genuine(wire'[i].frame)
  BY <1>1, WireStaysGenuine
<1>4. submitted' \in [Hosts -> Seq(Dgrams)]
  BY <1>1, <1>2 DEF TypeInv
<1>5. requested_at' \in [Hosts \X Hosts -> Seq(Nat)]
  BY <1>2, SMTT(30) DEF TypeInv
<1>6. \A g \in Hosts : InterfaceOK(nic'[g], g, Len(replaced_at'[g]), now')
  BY <1>1, <1>2, Zenon DEF TypeInv
<1>7. nic' = [g \in Hosts |-> nic'[g]]
  BY <1>1
<1>8. QED
  BY <1>1, <1>2, <1>3, <1>4, <1>5, <1>6, <1>7, ZenonT(40) DEF TypeInv

\* recv_frame keeps the types.
LEMMA DeliverTyped ==
    ASSUME TypeInv, NEW h \in Hosts, Deliver(h)
    PROVE  TypeInv'
<1> DEFINE r == recv_frame(nic[h], wire[1].frame)
           off == IF wire[1].hearers = {h} THEN 1 ELSE 0
<1>1. /\ wire[1].frame \in Frames
      /\ InterfaceOK(Drained(r), h, Len(replaced_at[h]), now)
      /\ FramesOK(r.frames_out) /\ GrewTo(off, r.frames_out, h)
      /\ wire' \in Seq(Entries)
      /\ nic' = [g \in Hosts |-> IF g = h THEN Drained(r) ELSE nic[g]]
  BY DeliverStep, Zenon
<1>2. /\ delivered' = IF PassesUp(nic[h], wire[1].frame)
                      THEN [delivered EXCEPT ![h] = Append(delivered[h], wire[1].frame.payload)]
                      ELSE delivered
      /\ setting' = setting /\ submitted' = submitted /\ now' = now
      /\ replaced_at' = replaced_at /\ requested_at' = requested_at
  BY DEF Deliver
<1> HIDE DEF r, off
<1>3. \A i \in DOMAIN wire' : Genuine(wire'[i].frame)
  BY <1>1, WireStaysGenuine
<1>4. delivered' \in [Hosts -> Seq(Dgrams)]
  <2>1. PassesUp(nic[h], wire[1].frame) => wire[1].frame.payload \in Dgrams
    BY <1>1 DEF PassesUp, Frames
  <2> DEFINE d == wire[1].frame.payload
  <2> HIDE DEF d
  <2>2. QED
    BY <1>2, <2>1 DEF TypeInv, d
<1>5. \A g \in Hosts : InterfaceOK(nic'[g], g, Len(replaced_at'[g]), now')
  BY <1>1, <1>2, ZenonT(40) DEF TypeInv
<1>6. nic' = [g \in Hosts |-> nic'[g]]
  BY <1>1
<1>7. QED
  BY <1>1, <1>2, <1>3, <1>4, <1>5, <1>6 DEF TypeInv

\* A lost frame leaves the rest of the wire as it is.
LEMMA LoseTyped ==
    ASSUME TypeInv, Lose
    PROVE  TypeInv'
<1>1. GrewTo(1, <<>>, 0) /\ wire' \in Seq(Entries)
  BY LoseStep
<1>2. \A i \in DOMAIN wire' : Genuine(wire'[i].frame)
  BY <1>1, WireStaysGenuine, OneFrame
<1>3. QED
  BY <1>1, <1>2 DEF Lose, TypeInv

\* tick moves the clocks of all interfaces by the same time.
LEMMA TickTyped ==
    ASSUME TypeInv, NEW ms \in 1 .. ARP_CACHE_TIMEOUT, Tick(ms)
    PROVE  TypeInv'
<1>1. ms \in Nat /\ now \in Nat
  BY TimeoutAssumption DEF TypeInv
<1>2. /\ now' = now + ms /\ nic' = [h \in Hosts |-> tick(nic[h], ms)]
      /\ UNCHANGED <<setting, wire, submitted, delivered, replaced_at, requested_at>>
  BY DEF Tick
<1>3. \A g \in Hosts : InterfaceOK(nic'[g], g, Len(replaced_at'[g]), now')
  BY <1>1, <1>2, TickTypedHost DEF TypeInv
<1>4. now' \in Nat /\ nic' = [g \in Hosts |-> nic'[g]]
  BY <1>1, <1>2
<1>5. QED
  BY <1>2, <1>3, <1>4 DEF TypeInv

\* What Replace does to the interfaces.
LEMMA ReplaceStep ==
    ASSUME TypeInv, NEW h \in setting.replaceable, Replace(h)
    PROVE  /\ h \in Hosts
           /\ replaced_at' = [replaced_at EXCEPT ![h] = <<now>>]
           /\ InterfaceOK(nic'[h], h, 1, now)
           /\ nic'[h].cache = <<>> /\ nic'[h].request_his = <<>> /\ nic'[h].unsent = <<>>
           /\ nic' = [g \in Hosts |-> IF g = h THEN nic'[h] ELSE nic[g]]
<1>1. h \in Hosts /\ now \in Nat
  BY SettingAssumption DEF TypeInv
<1>2. replaced_at' = [replaced_at EXCEPT ![h] = <<now>>] /\ replaced_at'[h] = <<now>>
  <2>1. Append(<<>>, now) = <<now>>
    OBVIOUS
  <2>2. replaced_at' = [replaced_at EXCEPT ![h] = <<now>>]
    BY <2>1 DEF Replace
  <2>3. QED
    BY <1>1, <2>2 DEF TypeInv
<1>3. Len(replaced_at'[h]) = 1
  BY <1>2
<1> DEFINE n == [NewInterface(EthernetAddress(h, 1), h) EXCEPT !.now = now]
<1>4. nic' = [nic EXCEPT ![h] = n]
  BY <1>3, Zenon DEF Replace
<1>5. /\ InterfaceOK(n, h, 1, now)
      /\ n.cache = <<>> /\ n.request_his = <<>> /\ n.unsent = <<>>
  BY <1>1, NewTypedHost, Zenon
<1> HIDE DEF n
<1>6. QED
  BY <1>1, <1>2, <1>4, <1>5, Zenon DEF TypeInv

\* A new interface has the types and its own Ethernet address.
LEMMA ReplaceTyped ==
    ASSUME TypeInv, NEW h \in setting.replaceable, Replace(h)
    PROVE  TypeInv'
<1>1. /\ h \in Hosts
      /\ replaced_at' = [replaced_at EXCEPT ![h] = <<now>>]
      /\ InterfaceOK(nic'[h], h, 1, now)
      /\ nic' = [g \in Hosts |-> IF g = h THEN nic'[h] ELSE nic[g]]
  BY ReplaceStep
<1>2. UNCHANGED <<setting, wire, submitted, delivered, now, requested_at>>
  BY DEF Replace
<1>3. /\ <<now>> \in Seq(Nat) /\ Len(<<now>>) = 1
  BY DEF TypeInv
<1>4. replaced_at' \in [Hosts -> Seq(Nat)] /\ Len(replaced_at'[h]) = 1
  BY <1>1, <1>3 DEF TypeInv
<1>5. \A g \in Hosts : InterfaceOK(nic'[g], g, Len(replaced_at'[g]), now')
  <2> TAKE g \in Hosts
  <2>1. CASE g = h
    BY <1>1, <1>2, <1>4, <2>1
  <2>2. CASE g # h
    <3>1. nic'[g] = nic[g] /\ replaced_at'[g] = replaced_at[g]
      BY <1>1, <2>2, Zenon DEF TypeInv
    <3>2. QED
      BY <1>2, <3>1 DEF TypeInv
  <2>3. QED
    BY <2>1, <2>2
<1>6. nic' = [g \in Hosts |-> nic'[g]]
  BY <1>1
<1>7. QED
  BY <1>2, <1>4, <1>5, <1>6 DEF TypeInv

\* Every step keeps the types.
LEMMA NextTyped == TypeInv /\ [Next]_vars => TypeInv'
<1> SUFFICES ASSUME TypeInv, [Next]_vars PROVE TypeInv'
  OBVIOUS
<1>1. CASE \E h, to \in Hosts : Send(h, to)
  BY <1>1, SendTyped
<1>2. CASE \E h \in Hosts : Deliver(h)
  BY <1>2, DeliverTyped
<1>3. CASE Lose
  BY <1>3, LoseTyped
<1>4. CASE \E ms \in 1 .. ARP_CACHE_TIMEOUT : Tick(ms)
  BY <1>4, TickTyped
<1>5. CASE \E h \in setting.replaceable : Replace(h)
  BY <1>5, ReplaceTyped
<1>6. CASE UNCHANGED vars
  BY <1>6 DEF vars, TypeInv
<1>7. QED
  BY <1>1, <1>2, <1>3, <1>4, <1>5, <1>6 DEF Next

\* The types hold in all reachable states.
LEMMA AlwaysTyped == Spec => []TypeInv
BY InitTyped, NextTyped, PTL DEF Spec

\* The hosts that a frame speaks of.
LEMMA FrameHosts ==
    ASSUME NEW f \in Frames
    PROVE  /\ f.type = "ARP" => f.payload.sender_ip \in Hosts
           /\ f.type = "IPv4" => f.payload.dst \in Hosts
BY DEF Frames, Messages, Dgrams

-----------------------------------------------------------------------------
(* Requests are spaced. *)

\* The last request of h for an address is the one h's interface remembers,
\* or the interface that made it has been replaced since.
LastIsKnown(h, to) ==
    LET q == requested_at[<<h, to>>]
        last == q[Len(q)]
    IN  q # <<>> =>
          /\ last =< now
          /\ \/ to \in DOMAIN nic[h].request_his /\ nic[h].request_his[to] = last
             \/ \E i \in DOMAIN replaced_at[h] : last =< replaced_at[h][i]

SpacedInv ==
    /\ \A h \in Hosts : \A i \in DOMAIN replaced_at[h] : replaced_at[h][i] =< now
    /\ \A h, to \in Hosts : LastIsKnown(h, to)
    /\ RequestsAreSpaced

\* Nothing has been asked for in the beginning.
LEMMA InitSpaced == Init => SpacedInv
<1> SUFFICES ASSUME Init PROVE SpacedInv
  OBVIOUS
<1>1. \A h \in Hosts : \A i \in DOMAIN replaced_at[h] : replaced_at[h][i] =< now
  BY DEF Init
<1>2. \A h, to \in Hosts : LastIsKnown(h, to)
  BY DEF Init, LastIsKnown
<1>3. RequestsAreSpaced
  BY DEF Init, RequestsAreSpaced
<1>4. QED
  BY <1>1, <1>2, <1>3 DEF SpacedInv

\* A step that leaves the histories and what the interfaces remember of their
\* requests alone, while time may pass.
LEMMA RequestsUntouched ==
    ASSUME TypeInv, SpacedInv,
           replaced_at' = replaced_at, requested_at' = requested_at,
           now' \in Nat, now =< now',
           \A h \in Hosts : nic'[h].request_his = nic[h].request_his
    PROVE  SpacedInv'
<1>1. \A h \in Hosts : \A i \in DOMAIN replaced_at'[h] : replaced_at'[h][i] =< now'
  <2> TAKE h \in Hosts
  <2> TAKE i \in DOMAIN replaced_at'[h]
  <2>1. replaced_at[h][i] \in Nat /\ replaced_at[h][i] =< now /\ now \in Nat
    BY DEF TypeInv, SpacedInv
  <2>2. QED
    BY <2>1
<1>2. \A h, to \in Hosts : LastIsKnown(h, to)'
  <2> TAKE h, to \in Hosts
  <2> DEFINE q == requested_at[<<h, to>>]
  <2>1. LastIsKnown(h, to) /\ q \in Seq(Nat) /\ now \in Nat
    BY DEF TypeInv, SpacedInv
  <2>2. q # <<>> => q[Len(q)] \in Nat
    BY <2>1
  <2>3. /\ requested_at'[<<h, to>>] = q
        /\ nic'[h].request_his = nic[h].request_his
        /\ replaced_at'[h] = replaced_at[h]
    OBVIOUS
  <2>4. q # <<>> => q[Len(q)] =< now'
    BY <2>1, <2>2 DEF LastIsKnown
  <2>5. QED
    BY <2>1, <2>3, <2>4, Zenon DEF LastIsKnown
<1>3. RequestsAreSpaced'
  BY ZenonT(40) DEF SpacedInv, RequestsAreSpaced
<1>4. QED
  BY <1>1, <1>2, <1>3 DEF SpacedInv

\* A call of send_datagram makes a request only if the last one it knows of is
\* old enough, and then remembers it.
LEMMA SendRequests ==
    ASSUME TypeInv, NEW h \in Hosts, NEW to \in Hosts, Send(h, to)
    PROVE  /\ \A g \in Hosts : g # h => nic'[g].request_his = nic[g].request_his
           /\ \/ /\ requested_at' = requested_at
                 /\ nic'[h].request_his = nic[h].request_his
              \/ /\ requested_at' = [requested_at EXCEPT ![<<h, to>>] = Append(@, now)]
                 /\ MayRequest(nic[h], to)
                 /\ nic'[h].request_his = With(nic[h].request_his, to, now)
<1> DEFINE n == nic[h]
           dgram == [src |-> h, dst |-> to, id |-> Len(submitted[h])]
           s == send_datagram(n, dgram, to)
<1>1. nic' = [g \in Hosts |-> IF g = h THEN Drained(s) ELSE nic[g]]
  BY SendStep, ZenonT(40)
<1>2. requested_at' = IF Requests(s) = {} THEN requested_at
                      ELSE [requested_at EXCEPT ![<<h, to>>] = Append(@, now)]
  BY Zenon DEF Send
<1>3. IsInterface(n) /\ n.frames_out = <<>> /\ n.now = now
  BY DEF TypeInv, InterfaceOK
<1> HIDE DEF n, dgram
<1>4. /\ IsInterface(s)
      /\ IsCached(n, to) =>
           /\ s.frames_out = <<FrameOf("IPv4", n.ethernet_address, n.cache[to].ethernet, dgram)>>
           /\ s.request_his = n.request_his
      /\ ~IsCached(n, to) /\ MayRequest(n, to) => s.request_his = With(n.request_his, to, n.now)
      /\ ~IsCached(n, to) /\ MayRequest(n, to) => s.frames_out = <<ArpRequest(n, to)>>
      /\ ~IsCached(n, to) /\ ~MayRequest(n, to) =>
           s.frames_out = <<>> /\ s.request_his = n.request_his
  <2>1. SentFrom(n, s, dgram, to)
    BY <1>3, Sending, ZenonT(40)
  <2>2. QED
    BY <2>1, Zenon DEF SentFrom
<1> HIDE DEF s
<1>5. Drained(s).request_his = s.request_his
  BY <1>4, Draining, ZenonT(40)
<1>6. CASE IsCached(n, to)
  <2> DEFINE f == FrameOf("IPv4", n.ethernet_address, n.cache[to].ethernet, dgram)
  <2>1. f.type = "IPv4" /\ s.frames_out = <<f>>
    BY <1>4, <1>6, Zenon DEF FrameOf
  <2> HIDE DEF f
  <2>2. Requests(s) = {}
    BY <2>1, SMTT(30) DEF Requests
  <2>3. QED
    BY <1>1, <1>2, <1>4, <1>5, <1>6, <2>2, ZenonT(40) DEF n
<1>7. CASE ~IsCached(n, to) /\ MayRequest(n, to)
  <2> DEFINE f == ArpRequest(n, to)
  <2>1. f.type = "ARP" /\ f.payload.opcode = "REQUEST" /\ s.frames_out = <<f>>
    BY <1>4, <1>7 DEF ArpRequest, FrameOf
  <2> HIDE DEF f
  <2>2. 1 \in Requests(s)
    BY <2>1, SMTT(30) DEF Requests
  <2>3. QED
    BY <1>1, <1>2, <1>3, <1>4, <1>5, <1>7, <2>2, ZenonT(40) DEF n
<1>8. CASE ~IsCached(n, to) /\ ~MayRequest(n, to)
  <2>1. Requests(s) = {}
    BY <1>4, <1>8 DEF Requests
  <2>2. QED
    BY <1>1, <1>2, <1>4, <1>5, <1>8, <2>1, ZenonT(40) DEF n
<1>9. QED
  BY <1>6, <1>7, <1>8, ZenonT(40)

\* Sending: a request is old enough, or its predecessor was an earlier
\* interface's.
LEMMA SendSpaced ==
    ASSUME TypeInv, SpacedInv, NEW h \in Hosts, NEW to \in Hosts, Send(h, to)
    PROVE  SpacedInv'
<1> DEFINE p == <<h, to>>
           q == requested_at[p]
<1>1. p \in Hosts \X Hosts /\ q \in Seq(Nat) /\ now \in Nat /\ nic[h].now = now
  BY ZenonT(40) DEF TypeInv, InterfaceOK
<1>2. now' = now /\ replaced_at' = replaced_at
  BY DEF Send
<1>3. \A g \in Hosts : g # h => nic'[g].request_his = nic[g].request_his
  BY SendRequests, Zenon
<1>4. CASE requested_at' = requested_at /\ nic'[h].request_his = nic[h].request_his
  BY <1>1, <1>2, <1>3, <1>4, RequestsUntouched, SMTT(30)
<1>5. CASE /\ requested_at' = [requested_at EXCEPT ![p] = Append(@, now)]
           /\ MayRequest(nic[h], to)
           /\ nic'[h].request_his = With(nic[h].request_his, to, now)
  <2>1. /\ requested_at' = [requested_at EXCEPT ![p] = Append(q, now)]
        /\ requested_at'[p] = Append(q, now)
        /\ Append(q, now) \in Seq(Nat)
    BY <1>1, <1>5 DEF TypeInv
  <2> HIDE DEF q
  <2>2. \A g \in Hosts : \A i \in DOMAIN replaced_at'[g] : replaced_at'[g][i] =< now'
    BY <1>2 DEF SpacedInv
  <2>3. \A g, t \in Hosts : LastIsKnown(g, t)'
    <3> TAKE g, t \in Hosts
    <3>1. LastIsKnown(g, t)
      BY DEF SpacedInv
    <3>2. CASE g = h /\ t = to
      <4>1. /\ Append(q, now)[Len(Append(q, now))] = now
            /\ to \in DOMAIN nic'[h].request_his /\ nic'[h].request_his[to] = now
        BY <1>1, <1>5, SMTT(30) DEF With
      <4>2. QED
        BY <1>1, <1>2, <2>1, <3>2, <4>1, SMTT(30) DEF LastIsKnown
    <3>3. CASE ~(g = h /\ t = to)
      <4>1. requested_at'[<<g, t>>] = requested_at[<<g, t>>]
        BY <2>1, <3>3, ZenonT(40) DEF TypeInv
      <4>2. t \in DOMAIN nic[g].request_his =>
               /\ t \in DOMAIN nic'[g].request_his
               /\ nic'[g].request_his[t] = nic[g].request_his[t]
        BY <1>3, <1>5, <3>3, ZenonT(40) DEF With
      <4>3. QED
        BY <1>2, <3>1, <4>1, <4>2 DEF LastIsKnown
    <3>4. QED
      BY <3>2, <3>3
  <2>4. q # <<>> => \/ now - q[Len(q)] >= ARP_REQUEST_LIMIT
                    \/ \E r \in Range(replaced_at[h]) : q[Len(q)] =< r /\ r =< now
    <3> SUFFICES ASSUME q # <<>>
                 PROVE  \/ now - q[Len(q)] >= ARP_REQUEST_LIMIT
                        \/ \E r \in Range(replaced_at[h]) : q[Len(q)] =< r /\ r =< now
      OBVIOUS
    <3>1. LastIsKnown(h, to)
      BY <1>1, SMTT(30) DEF SpacedInv
    <3>2. CASE to \in DOMAIN nic[h].request_his /\ nic[h].request_his[to] = q[Len(q)]
      BY <1>1, <1>5, <3>2 DEF MayRequest
    <3>3. CASE \E i \in DOMAIN replaced_at[h] : q[Len(q)] =< replaced_at[h][i]
      <4>1. PICK i \in DOMAIN replaced_at[h] : q[Len(q)] =< replaced_at[h][i]
        BY <3>3
      <4>2. replaced_at[h][i] \in Range(replaced_at[h])
        BY <4>1 DEF Range
      <4>3. replaced_at[h][i] =< now
        BY <1>1, <4>1, ZenonT(40) DEF SpacedInv
      <4>4. QED
        BY <4>1, <4>2, <4>3
    <3>4. QED
      BY <3>1, <3>2, <3>3 DEF LastIsKnown, q
  <2>5. RequestsAreSpaced'
    <3> SUFFICES ASSUME NEW r \in Hosts \X Hosts, NEW i \in 2 .. Len(requested_at'[r])
                 PROVE  \/ requested_at'[r][i] - requested_at'[r][i - 1] >= ARP_REQUEST_LIMIT
                        \/ \E x \in Range(replaced_at[r[1]]) :
                              /\ requested_at'[r][i - 1] =< x
                              /\ x =< requested_at'[r][i]
      BY <1>2 DEF RequestsAreSpaced
    <3>1. /\ Len(Append(q, now)) = Len(q) + 1 /\ Len(q) \in Nat
          /\ \A k \in 1 .. Len(q) : Append(q, now)[k] = q[k]
          /\ Append(q, now)[Len(q) + 1] = now
      BY <1>1
    <3>2. RequestsAreSpaced
      BY DEF SpacedInv
    <3>3. CASE r # p
      <4>1. requested_at'[r] = requested_at[r]
        BY <2>1, <3>3, ZenonT(40) DEF TypeInv
      <4>2. QED
        BY <3>2, <4>1 DEF RequestsAreSpaced
    <3>4. CASE r = p /\ i =< Len(q)
      <4>1. requested_at'[r] = Append(q, now)
        BY <2>1, <3>4, Zenon
      <4>2. i \in 2 .. Len(q) /\ i - 1 \in 1 .. Len(q)
        BY <3>1, <3>4
      <4>3. requested_at'[r][i] = q[i] /\ requested_at'[r][i - 1] = q[i - 1]
        BY <3>1, <4>1, <4>2, SMTT(30)
      <4>4. QED
        BY <3>2, <3>4, <4>2, <4>3, ZenonT(40) DEF RequestsAreSpaced, q
    <3>5. CASE r = p /\ i > Len(q)
      <4>1. requested_at'[r] = Append(q, now) /\ r[1] = h
        BY <2>1, <3>5, ZenonT(40)
      <4>2. i \in 2 .. Len(q) + 1
        BY <3>1, <4>1, ZenonT(40)
      <4>3. i = Len(q) + 1 /\ Len(q) >= 1
        BY <3>1, <3>5, <4>2
      <4>4. requested_at'[r][i] = now /\ requested_at'[r][i - 1] = q[Len(q)] /\ q # <<>>
        BY <3>1, <4>1, <4>3
      <4>5. QED
        BY <2>4, <4>1, <4>4
    <3>6. QED
      <4>1. Len(q) \in Nat /\ i \in Int
        BY <1>1
      <4>2. QED
        BY <3>3, <3>4, <3>5, <4>1
  <2>6. QED
    BY <2>2, <2>3, <2>5 DEF SpacedInv
<1>6. QED
  BY <1>4, <1>5, SendRequests, ZenonT(40)

\* The new interface of a host remembers nothing, but the replacement itself
\* separates its requests from earlier ones.
LEMMA ReplaceSpaced ==
    ASSUME TypeInv, SpacedInv, NEW h \in setting.replaceable, Replace(h)
    PROVE  SpacedInv'
<1>1. /\ h \in Hosts /\ now \in Nat
      /\ replaced_at' = [replaced_at EXCEPT ![h] = <<now>>]
      /\ nic' = [g \in Hosts |-> IF g = h THEN nic'[h] ELSE nic[g]]
  BY ReplaceStep DEF TypeInv
<1>2. now' = now /\ requested_at' = requested_at /\ replaced_at[h] = <<>>
  BY DEF Replace
<1>3. /\ replaced_at'[h] = <<now>>
      /\ \A g \in Hosts : g # h => replaced_at'[g] = replaced_at[g] /\ nic'[g] = nic[g]
  BY <1>1, Zenon DEF TypeInv
<1>4. \A g \in Hosts : \A i \in DOMAIN replaced_at'[g] : replaced_at'[g][i] =< now'
  BY <1>1, <1>2, <1>3 DEF SpacedInv
<1>5. \A g, to \in Hosts : LastIsKnown(g, to)'
  <2> TAKE g, to \in Hosts
  <2>1. LastIsKnown(g, to)
    BY ZenonT(40) DEF SpacedInv
  <2>2. CASE g = h
    <3>1. 1 \in DOMAIN replaced_at'[h] /\ replaced_at'[h][1] = now
      BY <1>3
    <3>2. QED
      BY <1>2, <2>1, <2>2, <3>1 DEF LastIsKnown
  <2>3. CASE g # h
    BY <1>2, <1>3, <2>1, <2>3, ZenonT(40) DEF LastIsKnown
  <2>4. QED
    BY <2>2, <2>3
<1>6. RequestsAreSpaced'
  <2>1. \A g \in Hosts : Range(replaced_at[g]) \subseteq Range(replaced_at'[g])
    BY <1>2, <1>3 DEF Range
  <2>2. QED
    BY <1>2, <2>1, Zenon DEF SpacedInv, RequestsAreSpaced
<1>7. QED
  BY <1>4, <1>5, <1>6, SMTT(30) DEF SpacedInv

\* Every step keeps the invariant: only send_datagram makes requests.
LEMMA NextSpaced == TypeInv /\ SpacedInv /\ [Next]_vars => SpacedInv'
<1> SUFFICES ASSUME TypeInv, SpacedInv, [Next]_vars PROVE SpacedInv'
  OBVIOUS
<1>1. now \in Nat /\ now =< now
  BY DEF TypeInv
<1>2. CASE \E h, to \in Hosts : Send(h, to)
  BY <1>2, SendSpaced, ZenonT(40)
<1>3. ASSUME NEW h \in Hosts, Deliver(h) PROVE SpacedInv'
  <2> DEFINE n == nic[h]
             frame == wire[1].frame
             r == recv_frame(n, frame)
  <2>1. nic' = [g \in Hosts |-> IF g = h THEN Drained(r) ELSE nic[g]]
    BY <1>3, DeliverStep, ZenonT(40)
  <2>2. /\ IsInterface(n) /\ n.frames_out = <<>>
        /\ InterfaceOK(n, h, Len(replaced_at[h]), now)
    BY DEF TypeInv, InterfaceOK
  <2>3. Waiting(n, frame.payload.sender_ip) \in Seq(Dgrams)
    BY <2>2, WaitingTyped
  <2> HIDE DEF n, frame
  <2>4. IsInterface(r) /\ r.request_his = n.request_his
    BY <2>2, <2>3, Receiving, ZenonT(40)
  <2> HIDE DEF r
  <2>5. Drained(r).request_his = n.request_his
    BY <2>4, Draining
  <2>6. \A g \in Hosts : nic'[g].request_his = nic[g].request_his
    BY <2>1, <2>5 DEF n
  <2>7. QED
    BY <1>1, <1>3, <2>6, RequestsUntouched DEF Deliver
<1>4. CASE Lose
  BY <1>1, <1>4, RequestsUntouched DEF Lose
<1>5. ASSUME NEW ms \in 1 .. ARP_CACHE_TIMEOUT, Tick(ms) PROVE SpacedInv'
  <2>1. /\ replaced_at' = replaced_at /\ requested_at' = requested_at
        /\ now' = now + ms /\ nic' = [h \in Hosts |-> tick(nic[h], ms)]
    BY <1>5 DEF Tick
  <2>2. now' \in Nat /\ now =< now' /\ ms \in Nat
    BY <1>1, <2>1, TimeoutAssumption
  <2>3. \A h \in Hosts : nic'[h].request_his = nic[h].request_his
    BY <1>1, <2>1, <2>2, TickTypedHost, SMTT(30) DEF TypeInv
  <2>4. QED
    BY <2>1, <2>2, <2>3, RequestsUntouched
<1>6. CASE \E h \in setting.replaceable : Replace(h)
  BY <1>6, ReplaceSpaced
<1>7. CASE UNCHANGED vars
  BY <1>1, <1>7, RequestsUntouched DEF vars
<1>8. QED
  BY <1>2, <1>3, <1>4, <1>5, <1>6, <1>7 DEF Next

\* An interface never repeats an ARP request before _arp_request_limit has
\* passed: for any hosts, any timeouts, any number of datagrams, and frames
\* lost and interfaces replaced at any time.
THEOREM Spaced == Spec => []RequestsAreSpaced
<1>1. SpacedInv => RequestsAreSpaced
  BY DEF SpacedInv
<1>2. QED
  BY InitSpaced, NextSpaced, AlwaysTyped, <1>1, PTL DEF Spec
=============================================================================
