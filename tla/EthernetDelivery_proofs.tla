---------------------- MODULE EthernetDelivery_proofs ----------------------
(***************************************************************************)
(* Without faults no datagram is lost on a segment, and the address of an  *)
(* interface that has been replaced is not used for longer than the        *)
(* timeout.                                                                *)
(*                                                                         *)
(* ClaimInv is about how old what a cache or a frame says of a host can    *)
(* be.  SentInv and KeptInv say that the three places of OrderInv hold     *)
(* what was sent and, without faults, all of it.                           *)
(***************************************************************************)
EXTENDS EthernetOrder_proofs

-----------------------------------------------------------------------------
(* Addresses of interfaces that have been replaced expire. *)

\* Host ip had the Ethernet address at time t or later: nics and reps stand for
\* nic and replaced_at.
HadSince(ip, ethernet, t, nics, reps) ==
    \/ ethernet = nics[ip].ethernet_address
    \/ \E r \in Range(reps[ip]) : t =< r

\* What a frame on the wire says of the addresses of hosts at time t.
FrameClaim(f, t, nics, reps) ==
    /\ f.type = "ARP" => HadSince(f.payload.sender_ip, f.payload.sender_ethernet, t, nics, reps)
    /\ f.type = "IPv4" =>
         \/ f.dst = nics[f.payload.dst].ethernet_address
         \/ \E r \in Range(reps[f.payload.dst]) : t - r < ARP_CACHE_TIMEOUT

\* What an interface remembers of the addresses of hosts.
CacheClaim(n, nics, reps) ==
    \A ip \in DOMAIN n.cache : HadSince(ip, n.cache[ip].ethernet, n.cache[ip].at, nics, reps)

ClaimInv == /\ \A h \in Hosts : CacheClaim(nic[h], nic, replaced_at)
            /\ \A i \in DOMAIN wire : FrameClaim(wire[i].frame, now, nic, replaced_at)

\* What the invariant says of frames with datagrams is the property.
LEMMA ClaimsExpire == TypeInv /\ ClaimInv => StaleAddressExpires
BY DEF ClaimInv, FrameClaim, StaleAddressExpires

\* The times at which an interface was replaced.
LEMMA ReplacementTimes ==
    ASSUME TypeInv, NEW h \in Hosts
    PROVE  \A r \in Range(replaced_at[h]) : r \in Nat
BY DEF TypeInv, Range

\* The claims depend on the addresses and the replacements only.
LEMMA ClaimsKept ==
    ASSUME NEW nics, NEW more, NEW reps, NEW t, NEW f,
           f.type = "ARP" => f.payload.sender_ip \in Hosts,
           f.type = "IPv4" => f.payload.dst \in Hosts,
           \A g \in Hosts : nics[g].ethernet_address = more[g].ethernet_address,
           FrameClaim(f, t, nics, reps)
    PROVE  FrameClaim(f, t, more, reps)
BY DEF FrameClaim, HadSince

\* A step that puts frames on the wire and keeps the addresses.
LEMMA ClaimsStep ==
    ASSUME TypeInv, ClaimInv, NEW off, NEW h, NEW frames, FramesOK(frames),
           GrewTo(off, frames, h), wire' \in Seq(Entries), now' = now, replaced_at' = replaced_at,
           \A g \in Hosts : nic'[g].ethernet_address = nic[g].ethernet_address,
           \A i \in DOMAIN frames : FrameClaim(frames[i], now, nic, replaced_at),
           \A g \in Hosts : \A ip \in DOMAIN nic'[g].cache :
               HadSince(ip, nic'[g].cache[ip].ethernet, nic'[g].cache[ip].at, nic, replaced_at),
           TypeInv'
    PROVE  ClaimInv'
<1> DEFINE G == {f \in Frames : FrameClaim(f, now, nic', replaced_at)}
<1>1. wire \in Seq(Entries) /\ \A i \in DOMAIN wire : wire[i].frame \in Frames
  BY WireTyped
<1>2. \A i \in DOMAIN wire : wire[i].frame \in G
  <2> TAKE i \in DOMAIN wire
  <2>1. wire[i].frame \in Frames /\ FrameClaim(wire[i].frame, now, nic, replaced_at)
    BY <1>1 DEF ClaimInv
  <2>2. QED
    BY <2>1, FrameHosts, ClaimsKept
<1>3. frames \in Seq(Frames) /\ \A i \in DOMAIN frames : frames[i] \in G
  <2>1. frames \in Seq(Frames) /\ \A i \in DOMAIN frames : frames[i] \in Frames
    BY DEF FramesOK
  <2> SUFFICES ASSUME NEW i \in DOMAIN frames PROVE frames[i] \in G
    BY <2>1
  <2>2. frames[i] \in Frames /\ FrameClaim(frames[i], now, nic, replaced_at)
    BY <2>1
  <2>3. QED
    BY <2>2, FrameHosts, ClaimsKept
<1> HIDE DEF G
<1>4. \A i \in DOMAIN wire' : wire'[i].frame \in G
  BY <1>1, <1>2, <1>3, WireStaysIn, ZenonT(40)
<1>5. \A g \in Hosts : CacheClaim(nic'[g], nic', replaced_at')
  <2> SUFFICES ASSUME NEW g \in Hosts, NEW ip \in DOMAIN nic'[g].cache
               PROVE  HadSince(ip, nic'[g].cache[ip].ethernet, nic'[g].cache[ip].at, nic', replaced_at)
    BY ZenonT(40) DEF CacheClaim
  <2>1. ip \in Hosts
    BY DEF TypeInv, InterfaceOK
  <2>2. QED
    BY <2>1 DEF HadSince
<1>6. QED
  BY <1>4, <1>5 DEF ClaimInv, G

\* Nothing is claimed in the beginning.
LEMMA InitClaims == Init => ClaimInv
<1> SUFFICES ASSUME Init PROVE ClaimInv
  OBVIOUS
<1>1. \A h \in Hosts : nic[h].cache = <<>>
  BY DEF Init, NewInterface
<1>2. QED
  BY <1>1 DEF Init, ClaimInv, CacheClaim

\* send_datagram uses an entry of the cache only while it is younger than the
\* timeout, so the frame claims no more than the entry does.
LEMMA SendClaims ==
    ASSUME TypeInv, ClaimInv, NEW h \in Hosts, NEW to \in Hosts, Send(h, to)
    PROVE  ClaimInv'
<1> DEFINE dgram == [src |-> h, dst |-> to, id |-> Len(submitted[h])]
           n == nic[h]
           s == send_datagram(n, dgram, to)
<1>1. /\ InterfaceOK(Drained(s), h, Len(replaced_at[h]), now)
      /\ FramesOK(s.frames_out) /\ GrewTo(0, s.frames_out, h)
      /\ wire' \in Seq(Entries)
      /\ nic' = [g \in Hosts |-> IF g = h THEN Drained(s) ELSE nic[g]]
      /\ now' = now /\ replaced_at' = replaced_at /\ TypeInv'
  BY SendStep, SendTyped, ZenonT(40) DEF Send
<1>2. /\ IsInterface(n) /\ n.frames_out = <<>> /\ n.ip_address = h /\ n.now = now /\ now \in Nat
      /\ n.ethernet_address = EthernetAddress(h, Len(replaced_at[h]))
      /\ \A ip \in DOMAIN n.cache : n.cache[ip].at \in 0 .. now
  BY DEF TypeInv, InterfaceOK
<1>3. dgram.dst = to
  OBVIOUS
<1> HIDE DEF dgram
<1>4. /\ IsInterface(s) /\ SameIdentity(s, n) /\ s.cache = n.cache
      /\ IsCached(n, to) =>
           s.frames_out = <<FrameOf("IPv4", n.ethernet_address, n.cache[to].ethernet, dgram)>>
      /\ ~IsCached(n, to) /\ MayRequest(n, to) => s.frames_out = <<ArpRequest(n, to)>>
      /\ ~IsCached(n, to) /\ ~MayRequest(n, to) => s.frames_out = <<>>
  <2>1. SentFrom(n, s, dgram, to)
    BY <1>2, Sending, Zenon
  <2>2. QED
    BY <2>1, Zenon DEF SentFrom
<1> HIDE DEF s
<1>5. SameIdentity(Drained(s), s) /\ Drained(s).cache = s.cache
  BY <1>4, Draining
<1>6. /\ \A g \in Hosts : nic'[g].ethernet_address = nic[g].ethernet_address
      /\ \A g \in Hosts : nic'[g].cache = nic[g].cache
  BY <1>1, <1>4, <1>5 DEF SameIdentity
<1>7. \A i \in DOMAIN s.frames_out : FrameClaim(s.frames_out[i], now, nic, replaced_at)
  <2>1. CASE IsCached(n, to)
    <3> DEFINE f == FrameOf("IPv4", n.ethernet_address, n.cache[to].ethernet, dgram)
               at == n.cache[to].at
    <3>1. /\ HadSince(to, n.cache[to].ethernet, at, nic, replaced_at)
          /\ now - at < ARP_CACHE_TIMEOUT /\ at \in Nat
      BY <1>2, <2>1 DEF IsCached, ClaimInv, CacheClaim
    <3>2. f.type = "IPv4" /\ f.dst = n.cache[to].ethernet /\ f.payload.dst = to
      BY <1>3 DEF FrameOf
    <3> HIDE DEF f, at
    <3>3. \/ f.dst = nic[to].ethernet_address
          \/ \E r \in Range(replaced_at[to]) : now - r < ARP_CACHE_TIMEOUT
      <4>1. CASE f.dst = nic[to].ethernet_address
        BY <4>1
      <4>2. CASE f.dst # nic[to].ethernet_address
        <5>1. PICK r \in Range(replaced_at[to]) : at =< r
          BY <3>1, <3>2, <4>2, SMTT(30) DEF HadSince
        <5>2. r \in Nat
          BY <5>1, ReplacementTimes, SMTT(30)
        <5>3. now - r < ARP_CACHE_TIMEOUT
          BY <1>2, <3>1, <5>1, <5>2, TimeoutAssumption
        <5>4. QED
          BY <5>1, <5>3
      <4>3. QED
        BY <4>1, <4>2
    <3>4. FrameClaim(f, now, nic, replaced_at)
      BY <3>2, <3>3 DEF FrameClaim
    <3>5. DOMAIN <<f>> = {1} /\ <<f>>[1] = f /\ s.frames_out = <<f>>
      BY <1>4, <2>1, SMTT(30) DEF f
    <3>6. QED
      BY <3>4, <3>5, SMTT(30)
  <2>2. CASE ~IsCached(n, to) /\ MayRequest(n, to)
    <3> DEFINE f == ArpRequest(n, to)
    <3>1. /\ f.type = "ARP" /\ f.payload.sender_ip = h
          /\ f.payload.sender_ethernet = nic[h].ethernet_address
      BY <1>2 DEF ArpRequest, FrameOf
    <3> HIDE DEF f
    <3>2. FrameClaim(f, now, nic, replaced_at)
      BY <3>1, SMTT(30) DEF FrameClaim, HadSince
    <3>3. DOMAIN <<f>> = {1} /\ <<f>>[1] = f /\ s.frames_out = <<f>>
      BY <1>4, <2>2 DEF f
    <3>4. QED
      BY <3>2, <3>3
  <2>3. CASE ~IsCached(n, to) /\ ~MayRequest(n, to)
    <3>1. DOMAIN s.frames_out = {}
      BY <1>4, <2>3
    <3>2. QED
      BY <3>1
  <2>4. QED
    BY <2>1, <2>2, <2>3
<1>8. \A g \in Hosts : \A ip \in DOMAIN nic'[g].cache :
         HadSince(ip, nic'[g].cache[ip].ethernet, nic'[g].cache[ip].at, nic, replaced_at)
  BY <1>6 DEF ClaimInv, CacheClaim
<1>9. QED
  BY <1>1, <1>6, <1>7, <1>8, ClaimsStep

\* recv_frame learns what an ARP message claims, and answers with the address
\* of the interface.
LEMMA DeliverClaims ==
    ASSUME TypeInv, ClaimInv, NEW h \in Hosts, Deliver(h)
    PROVE  ClaimInv'
<1> DEFINE n == nic[h]
           frame == wire[1].frame
           r == recv_frame(n, frame)
           off == IF wire[1].hearers = {h} THEN 1 ELSE 0
           msg == frame.payload
           ip == msg.sender_ip
           new == [ethernet |-> msg.sender_ethernet, at |-> n.now]
           w == Waiting(n, ip)
           flushed == Flushed(n, ip, msg.sender_ethernet)
<1>1. /\ 1 \in DOMAIN wire /\ frame \in Frames /\ Genuine(frame)
      /\ InterfaceOK(Drained(r), h, Len(replaced_at[h]), now)
      /\ FramesOK(r.frames_out) /\ GrewTo(off, r.frames_out, h)
      /\ wire' \in Seq(Entries)
      /\ nic' = [g \in Hosts |-> IF g = h THEN Drained(r) ELSE nic[g]]
      /\ now' = now /\ replaced_at' = replaced_at /\ TypeInv'
  BY DeliverStep, DeliverTyped, ZenonT(40) DEF Deliver
<1>2. /\ IsInterface(n) /\ n.frames_out = <<>> /\ n.ip_address = h /\ n.now = now /\ now \in Nat
      /\ InterfaceOK(n, h, Len(replaced_at[h]), now) /\ Len(replaced_at[h]) \in Nat
  BY DEF TypeInv, InterfaceOK
<1>3. w \in Seq(Dgrams) /\ \A i \in DOMAIN w : w[i].dst = ip
  BY <1>2, WaitingTyped, SMTT(30)
<1> HIDE DEF n, frame
<1>4. /\ IsInterface(r) /\ SameIdentity(r, n)
      /\ frame.type # "ARP" => r = n
      /\ frame.type = "ARP" =>
           /\ r.cache = With(n.cache, ip, new)
           /\ r.frames_out = flushed \o Answers(n, msg)
  BY <1>2, <1>3, Receiving, ZenonT(40)
<1> HIDE DEF r, off
<1>5. SameIdentity(Drained(r), r) /\ Drained(r).cache = r.cache
  BY <1>4, Draining
<1>6. /\ \A g \in Hosts : nic'[g].ethernet_address = nic[g].ethernet_address
      /\ \A g \in Hosts : nic'[g].cache = IF g = h THEN r.cache ELSE nic[g].cache
  BY <1>1, <1>4, <1>5 DEF SameIdentity, n
<1>7. FrameClaim(frame, now, nic, replaced_at)
  BY <1>1 DEF ClaimInv, frame
<1>8. CASE frame.type # "ARP"
  <2>1. r.frames_out = <<>> /\ r.cache = n.cache
    BY <1>2, <1>4, <1>8
  <2>2. \A i \in DOMAIN r.frames_out : FrameClaim(r.frames_out[i], now, nic, replaced_at)
    BY <2>1, SMTT(30)
  <2>3. \A g \in Hosts : \A x \in DOMAIN nic'[g].cache :
           HadSince(x, nic'[g].cache[x].ethernet, nic'[g].cache[x].at, nic, replaced_at)
    BY <1>6, <2>1, ZenonT(40) DEF ClaimInv, CacheClaim, n
  <2>4. QED
    BY <1>1, <1>6, <2>2, <2>3, ClaimsStep
<1>9. CASE frame.type = "ARP"
  <2>1. HadSince(ip, msg.sender_ethernet, now, nic, replaced_at) /\ ip \in Hosts
    BY <1>1, <1>7, <1>9, FrameHosts, SMTT(30) DEF FrameClaim
  <2>2. \A g \in Hosts : \A x \in DOMAIN nic'[g].cache :
           HadSince(x, nic'[g].cache[x].ethernet, nic'[g].cache[x].at, nic, replaced_at)
    <3>1. new.ethernet = msg.sender_ethernet /\ new.at = now
      BY <1>2
    <3> HIDE DEF new
    <3>2. nic'[h].cache = With(n.cache, ip, new)
      BY <1>4, <1>6, <1>9
    <3> TAKE g \in Hosts
    <3> TAKE x \in DOMAIN nic'[g].cache
    <3>3. CASE g = h /\ x = ip
      <4>1. nic'[g].cache[x] = new
        BY <3>2, <3>3, ZenonT(40) DEF With
      <4>2. QED
        BY <2>1, <3>1, <3>3, <4>1
    <3>4. CASE ~(g = h /\ x = ip)
      <4>1. x \in DOMAIN nic[g].cache /\ nic'[g].cache[x] = nic[g].cache[x]
        BY <1>6, <3>2, <3>4 DEF With, n
      <4>2. QED
        BY <4>1 DEF ClaimInv, CacheClaim
    <3>5. QED
      BY <3>3, <3>4
  <2>3. \A i \in DOMAIN flushed : FrameClaim(flushed[i], now, nic, replaced_at)
    <3> TAKE i \in DOMAIN flushed
    <3> DEFINE f == flushed[i]
    <3>1. f.type = "IPv4" /\ f.dst = msg.sender_ethernet /\ f.payload.dst = ip
      BY <1>3 DEF Flushed, FrameOf
    <3> HIDE DEF f
    <3>2. \/ f.dst = nic[ip].ethernet_address
          \/ \E x \in Range(replaced_at[ip]) : now - x < ARP_CACHE_TIMEOUT
      <4>1. CASE f.dst = nic[ip].ethernet_address
        BY <4>1
      <4>2. CASE f.dst # nic[ip].ethernet_address
        <5>1. PICK x \in Range(replaced_at[ip]) : now =< x
          BY <2>1, <3>1, <4>2, SMTT(30) DEF HadSince
        <5>2. x \in Nat
          BY <2>1, <5>1, ReplacementTimes
        <5>3. now - x < ARP_CACHE_TIMEOUT
          BY <1>2, <5>1, <5>2, TimeoutAssumption, SMTT(30)
        <5>4. QED
          BY <5>1, <5>3
      <4>3. QED
        BY <4>1, <4>2
    <3>3. FrameClaim(f, now, nic, replaced_at)
      BY <3>1, <3>2 DEF FrameClaim
    <3>4. QED
      BY <3>3 DEF f
  <2>4. \A i \in DOMAIN Answers(n, msg) : FrameClaim(Answers(n, msg)[i], now, nic, replaced_at)
    <3> DEFINE f == ArpReply(n, msg)
    <3>1. /\ f.type = "ARP" /\ f.payload.sender_ip = h
          /\ f.payload.sender_ethernet = nic[h].ethernet_address
      BY <1>2 DEF ArpReply, FrameOf, n
    <3> HIDE DEF f
    <3>2. FrameClaim(f, now, nic, replaced_at)
      BY <3>1 DEF FrameClaim, HadSince
    <3>3. Answers(n, msg) = <<f>> \/ Answers(n, msg) = <<>>
      BY DEF Answers, f
    <3>4. DOMAIN <<f>> = {1} /\ <<f>>[1] = f
      OBVIOUS
    <3>5. QED
      BY <3>2, <3>3, <3>4, SMTT(30)
  <2>5. \A i \in DOMAIN r.frames_out : FrameClaim(r.frames_out[i], now, nic, replaced_at)
    <3> DEFINE a == Answers(n, msg)
    <3>1. r.frames_out = flushed \o a
      BY <1>4, <1>9
    <3>2. /\ flushed \in Seq(Frames) /\ a \in Seq(Frames)
      BY <1>1, <1>2, <1>9, AnswerTyped, ZenonT(40) DEF FramesOK
    <3> HIDE DEF flushed, a
    <3>3. \A i \in DOMAIN (flushed \o a) : \/ \E j \in DOMAIN flushed : (flushed \o a)[i] = flushed[j]
                                           \/ \E j \in DOMAIN a : (flushed \o a)[i] = a[j]
      BY <3>2, ConcatElements, SMTT(30)
    <3>4. QED
      BY <2>3, <2>4, <3>1, <3>3, ZenonT(40) DEF a
  <2>6. QED
    BY <1>1, <1>6, <2>2, <2>5, ClaimsStep, ZenonT(40)
<1>10. QED
  BY <1>8, <1>9, SMTT(30)

\* A lost frame takes its claim with it.
LEMMA LoseClaims ==
    ASSUME TypeInv, ClaimInv, Lose
    PROVE  ClaimInv'
<1>1. GrewTo(1, <<>>, 0) /\ wire' \in Seq(Entries) /\ TypeInv'
  BY LoseStep, LoseTyped
<1>2. now' = now /\ replaced_at' = replaced_at /\ nic' = nic
  BY DEF Lose
<1>3. FramesOK(<<>>) /\ DOMAIN <<>> = {}
  BY OneFrame
<1>4. \A g \in Hosts : \A ip \in DOMAIN nic'[g].cache :
         HadSince(ip, nic'[g].cache[ip].ethernet, nic'[g].cache[ip].at, nic, replaced_at)
  BY <1>2 DEF ClaimInv, CacheClaim
<1>5. \A i \in DOMAIN <<>> : FrameClaim((<<>>)[i], now, nic, replaced_at)
  BY <1>3
<1>6. QED
  BY <1>1, <1>2, <1>3, <1>4, <1>5, ClaimsStep

\* Time passes only while the wire is empty; entries of the cache keep their
\* times.
LEMMA TickClaims ==
    ASSUME TypeInv, ClaimInv, NEW ms \in 1 .. ARP_CACHE_TIMEOUT, Tick(ms)
    PROVE  ClaimInv'
<1>1. ms \in Nat /\ now \in Nat
  BY TimeoutAssumption DEF TypeInv
<1>2. /\ nic' = [h \in Hosts |-> tick(nic[h], ms)] /\ wire' = <<>> /\ replaced_at' = replaced_at
  BY DEF Tick
<1>3. \A g \in Hosts : /\ nic'[g].ethernet_address = nic[g].ethernet_address
                       /\ nic'[g].cache = nic[g].cache
  BY <1>1, <1>2, TickTypedHost DEF TypeInv
<1>4. \A g \in Hosts : CacheClaim(nic'[g], nic', replaced_at')
  <2> SUFFICES ASSUME NEW g \in Hosts, NEW ip \in DOMAIN nic[g].cache
               PROVE  HadSince(ip, nic[g].cache[ip].ethernet, nic[g].cache[ip].at, nic', replaced_at)
    BY <1>2, <1>3, ZenonT(40) DEF CacheClaim
  <2>1. ip \in Hosts
    BY DEF TypeInv, InterfaceOK
  <2>2. HadSince(ip, nic[g].cache[ip].ethernet, nic[g].cache[ip].at, nic, replaced_at)
    BY DEF ClaimInv, CacheClaim
  <2>3. QED
    BY <1>3, <2>1, <2>2 DEF HadSince
<1>5. QED
  BY <1>2, <1>4 DEF ClaimInv

\* A claim about the interface that is replaced was true until now.
LEMMA ReplaceClaims ==
    ASSUME TypeInv, ClaimInv, NEW h \in setting.replaceable, Replace(h)
    PROVE  ClaimInv'
<1>1. /\ h \in Hosts
      /\ replaced_at' = [replaced_at EXCEPT ![h] = <<now>>]
      /\ nic'[h].cache = <<>>
      /\ nic' = [g \in Hosts |-> IF g = h THEN nic'[h] ELSE nic[g]]
      /\ wire' = wire /\ now' = now /\ replaced_at[h] = <<>>
  BY ReplaceStep, Zenon DEF Replace
<1>2. /\ now \in Nat /\ Range(<<now>>) = {now} /\ Range(<<>>) = {}
  BY DEF TypeInv, Range
<1>3. /\ Range(replaced_at'[h]) = {now}
      /\ \A g \in Hosts : g # h => replaced_at'[g] = replaced_at[g]
  BY <1>1, <1>2, Zenon DEF TypeInv
<1>4. ASSUME NEW ip \in Hosts, NEW e, NEW t \in 0 .. now, HadSince(ip, e, t, nic, replaced_at)
      PROVE  HadSince(ip, e, t, nic', replaced_at')
  <2>1. CASE ip = h
    BY <1>3, <1>4, <2>1 DEF HadSince
  <2>2. CASE ip # h
    BY <1>1, <1>3, <1>4, <2>2, SMTT(30) DEF HadSince
  <2>3. QED
    BY <2>1, <2>2
<1>5. \A g \in Hosts : CacheClaim(nic'[g], nic', replaced_at')
  <2> SUFFICES ASSUME NEW g \in Hosts, NEW ip \in DOMAIN nic'[g].cache
               PROVE  HadSince(ip, nic'[g].cache[ip].ethernet, nic'[g].cache[ip].at, nic', replaced_at')
    BY DEF CacheClaim
  <2>1. g # h /\ nic'[g] = nic[g]
    BY <1>1, SMTT(30)
  <2>2. ip \in Hosts /\ nic[g].cache[ip].at \in 0 .. now
    BY <2>1 DEF TypeInv, InterfaceOK
  <2>3. HadSince(ip, nic[g].cache[ip].ethernet, nic[g].cache[ip].at, nic, replaced_at)
    BY <2>1 DEF ClaimInv, CacheClaim
  <2>4. QED
    BY <1>4, <2>1, <2>2, <2>3
<1>6. \A i \in DOMAIN wire : FrameClaim(wire[i].frame, now, nic', replaced_at')
  <2> TAKE i \in DOMAIN wire
  <2> DEFINE f == wire[i].frame
  <2>1. FrameClaim(f, now, nic, replaced_at) /\ f \in Frames
    BY WireTyped DEF ClaimInv
  <2> HIDE DEF f
  <2>2. f.type = "ARP" => HadSince(f.payload.sender_ip, f.payload.sender_ethernet, now, nic', replaced_at')
    <3>1. now \in 0 .. now
      BY <1>2
    <3>2. QED
      BY <1>4, <2>1, <3>1, FrameHosts DEF FrameClaim
  <2>3. f.type = "IPv4" =>
          \/ f.dst = nic'[f.payload.dst].ethernet_address
          \/ \E r \in Range(replaced_at'[f.payload.dst]) : now - r < ARP_CACHE_TIMEOUT
    <3> SUFFICES ASSUME f.type = "IPv4"
                 PROVE  \/ f.dst = nic'[f.payload.dst].ethernet_address
                        \/ \E r \in Range(replaced_at'[f.payload.dst]) : now - r < ARP_CACHE_TIMEOUT
      OBVIOUS
    <3> DEFINE to == f.payload.dst
    <3>1. /\ to \in Hosts
          /\ \/ f.dst = nic[to].ethernet_address
             \/ \E r \in Range(replaced_at[to]) : now - r < ARP_CACHE_TIMEOUT
      BY <2>1, FrameHosts DEF FrameClaim
    <3>2. CASE to = h
      <4>1. now - now < ARP_CACHE_TIMEOUT
        BY <1>2, TimeoutAssumption
      <4>2. QED
        BY <1>3, <3>2, <4>1
    <3>3. CASE to # h
      BY <1>1, <1>3, <3>1, <3>3, ZenonT(40)
    <3>4. QED
      BY <3>2, <3>3
  <2>4. QED
    BY <2>2, <2>3 DEF FrameClaim, f
<1>7. QED
  BY <1>1, <1>5, <1>6, Zenon DEF ClaimInv

\* Every step keeps the claims true.
LEMMA NextClaims == TypeInv /\ ClaimInv /\ [Next]_vars => ClaimInv'
<1> SUFFICES ASSUME TypeInv, ClaimInv, [Next]_vars PROVE ClaimInv'
  OBVIOUS
<1>1. CASE \E h, to \in Hosts : Send(h, to)
  BY <1>1, SendClaims
<1>2. CASE \E h \in Hosts : Deliver(h)
  BY <1>2, DeliverClaims
<1>3. CASE Lose
  BY <1>3, LoseClaims
<1>4. CASE \E ms \in 1 .. ARP_CACHE_TIMEOUT : Tick(ms)
  BY <1>4, TickClaims
<1>5. CASE \E h \in setting.replaceable : Replace(h)
  BY <1>5, ReplaceClaims
<1>6. CASE UNCHANGED vars
  BY <1>6 DEF vars, ClaimInv
<1>7. QED
  BY <1>1, <1>2, <1>3, <1>4, <1>5, <1>6, SMTT(30) DEF Next

\* The claims are true in all reachable states.
LEMMA AlwaysClaims == Spec => []ClaimInv
BY InitClaims, NextClaims, AlwaysTyped, PTL DEF Spec

\* A frame is addressed to an interface that has been replaced only if that
\* happened less than the cache's timeout ago, for any timeouts, hosts and
\* settings: what an ARP message says and what _arp_cache keeps of it was true
\* when it was said, and send_datagram uses it only while it is young.
THEOREM StaleExpires == Spec => []StaleAddressExpires
BY AlwaysTyped, AlwaysClaims, ClaimsExpire, PTL

-----------------------------------------------------------------------------
(* Without faults nothing is lost. *)

\* The datagrams that have been sent.
Submissions == UNION {Range(submitted[h]) : h \in Hosts}

\* Everything on the wire, in a queue or passed up was sent.
SentInv ==
    /\ \A h \in Hosts : \A d \in Range(submitted[h]) : d.src = h /\ d.dst # h
    /\ \A i \in DOMAIN wire :
          wire[i].frame.type = "IPv4" => wire[i].frame.payload \in Submissions
    /\ \A h, to \in Hosts : \A i \in DOMAIN Waiting(nic[h], to) : Waiting(nic[h], to)[i] \in Submissions
    /\ \A h \in Hosts : \A i \in DOMAIN delivered[h] : delivered[h][i] \in Submissions

\* A step after which no more has been sent: the frames on the wire and what
\* waits were there.
LEMMA SentStep ==
    ASSUME TypeInv, SentInv, NEW off, NEW x, NEW frames \in Seq(Frames), GrewTo(off, frames, x),
           wire' \in Seq(Entries), Submissions \subseteq Submissions',
           \A h \in Hosts : \A d \in Range(submitted'[h]) : d.src = h /\ d.dst # h,
           \A i \in DOMAIN frames : frames[i].type = "IPv4" => frames[i].payload \in Submissions',
           \A h, to \in Hosts : \A i \in DOMAIN Waiting(nic'[h], to) :
               Waiting(nic'[h], to)[i] \in Submissions',
           \A h \in Hosts : \A i \in DOMAIN delivered'[h] : delivered'[h][i] \in Submissions'
    PROVE  SentInv'
<1> DEFINE G == {f \in Frames : f.type = "IPv4" => f.payload \in Submissions'}
<1>1. wire \in Seq(Entries) /\ \A i \in DOMAIN wire : wire[i].frame \in G
  BY WireTyped, ZenonT(40) DEF SentInv
<1>2. \A i \in DOMAIN frames : frames[i] \in G
  OBVIOUS
<1> HIDE DEF G
<1>3. \A i \in DOMAIN wire' : wire'[i].frame \in G
  BY <1>1, <1>2, WireStaysIn, ZenonT(40)
<1>4. QED
  BY <1>3, SMTT(30) DEF G, SentInv

\* There is nothing to find in the beginning.
LEMMA InitSent == Init => SentInv
<1> SUFFICES ASSUME Init PROVE SentInv
  OBVIOUS
<1>1. \A h \in Hosts : /\ delivered[h] = <<>> /\ nic[h].unsent = <<>>
                       /\ submitted[h] = <<>>
  BY DEF Init, NewInterface
<1>2. \A h, to \in Hosts : Waiting(nic[h], to) = <<>>
  BY <1>1 DEF Waiting
<1>3. wire = <<>> /\ DOMAIN <<>> = {} /\ Range(<<>>) = {}
  BY DEF Init, Range
<1>4. QED
  BY <1>1, <1>2, <1>3, ZenonT(40) DEF SentInv

\* A datagram that send_datagram has taken counts as sent, wherever it went.
LEMMA SendSent ==
    ASSUME TypeInv, SentInv, NEW h \in Hosts, NEW to \in Hosts, Send(h, to)
    PROVE  /\ SentInv'
           /\ Range(submitted'[h]) =
                Range(submitted[h]) \cup {[src |-> h, dst |-> to, id |-> Len(submitted[h])]}
<1> DEFINE dgram == [src |-> h, dst |-> to, id |-> Len(submitted[h])]
           frames == send_datagram(nic[h], dgram, to).frames_out
           w == Waiting(nic[h], to)
<1>1. /\ frames \in Seq(Frames) /\ GrewTo(0, frames, h) /\ wire' \in Seq(Entries)
      /\ \A g \in Hosts : g # h => nic'[g] = nic[g]
      /\ \A ip : ip # to => Waiting(nic'[h], ip) = Waiting(nic[h], ip)
      /\ IsCached(nic[h], to) =>
           /\ Waiting(nic'[h], to) = w
           /\ Len(frames) = 1 /\ frames[1].type = "IPv4" /\ frames[1].payload = dgram
      /\ ~IsCached(nic[h], to) =>
           /\ Waiting(nic'[h], to) = Append(w, dgram)
           /\ \A j \in DOMAIN frames : frames[j].type # "IPv4"
  BY SendEffects, ZenonT(40)
<1>2. /\ delivered' = delivered /\ h # to
      /\ submitted' = [submitted EXCEPT ![h] = Append(submitted[h], dgram)]
  BY DEF Send
<1>3. dgram.src = h /\ dgram.dst = to
  OBVIOUS
<1>4. /\ \A g \in Hosts : submitted[g] \in Seq(Dgrams) /\ w \in Seq(Dgrams)
  BY FlowNumbers, ZenonT(40) DEF TypeInv
<1> HIDE DEF frames, dgram, w
<1>5. /\ \A g \in Hosts : g # h => submitted'[g] = submitted[g]
      /\ submitted'[h] = Append(submitted[h], dgram)
  BY <1>2 DEF TypeInv
<1>6. Range(submitted'[h]) = Range(submitted[h]) \cup {dgram}
  <2> DEFINE q == submitted[h]
  <2>1. q \in Seq(Dgrams)
    BY <1>4, SMTT(30)
  <2> HIDE DEF q
  <2>2. /\ DOMAIN q = 1 .. Len(q) /\ Len(q) \in Nat
        /\ DOMAIN Append(q, dgram) = 1 .. Len(q) + 1
        /\ \A i \in 1 .. Len(q) : Append(q, dgram)[i] = q[i]
        /\ Append(q, dgram)[Len(q) + 1] = dgram
    BY <2>1
  <2>3. Range(Append(q, dgram)) \subseteq Range(q) \cup {dgram}
    <3> SUFFICES ASSUME NEW i \in DOMAIN Append(q, dgram)
                 PROVE  Append(q, dgram)[i] \in Range(q) \cup {dgram}
      BY DEF Range
    <3>1. CASE i = Len(q) + 1
      BY <2>2, <3>1
    <3>2. CASE i \in 1 .. Len(q)
      BY <2>2, <3>2 DEF Range
    <3>3. QED
      BY <2>2, <3>1, <3>2, SMTT(30)
  <2>4. dgram \in Range(Append(q, dgram))
    <3>1. Len(q) + 1 \in DOMAIN Append(q, dgram)
      BY <2>2
    <3>2. QED
      BY <2>2, <3>1 DEF Range
  <2>5. Range(q) \subseteq Range(Append(q, dgram))
    <3> SUFFICES ASSUME NEW i \in DOMAIN q PROVE q[i] \in Range(Append(q, dgram))
      BY DEF Range
    <3>1. i \in DOMAIN Append(q, dgram) /\ Append(q, dgram)[i] = q[i]
      BY <2>2
    <3>2. QED
      BY <3>1 DEF Range
  <2>6. QED
    BY <1>5, <2>3, <2>4, <2>5, SMTT(30) DEF q
<1>7. Submissions \subseteq Submissions' /\ dgram \in Submissions'
  BY <1>5, <1>6, ZenonT(40) DEF Submissions
<1>8. \A g \in Hosts : \A d \in Range(submitted'[g]) : d.src = g /\ d.dst # g
  BY <1>2, <1>3, <1>5, <1>6, SMTT(30) DEF SentInv
<1>9. \A j \in DOMAIN frames : frames[j].type = "IPv4" => frames[j].payload \in Submissions'
  <2>1. DOMAIN frames = 1 .. Len(frames)
    BY <1>1, SMTT(30)
  <2>2. QED
    BY <1>1, <1>7, <2>1, SMTT(30)
<1>10. \A g, t \in Hosts : \A i \in DOMAIN Waiting(nic'[g], t) :
          Waiting(nic'[g], t)[i] \in Submissions'
  <2> TAKE g, t \in Hosts
  <2>1. CASE Waiting(nic'[g], t) = Waiting(nic[g], t)
    BY <1>7, <2>1 DEF SentInv
  <2>2. CASE g = h /\ t = to /\ Waiting(nic'[g], t) = Append(w, dgram)
    <3>1. \A i \in DOMAIN w : w[i] \in Submissions'
      BY <1>7 DEF SentInv, w
    <3>2. /\ DOMAIN w = 1 .. Len(w) /\ Len(w) \in Nat
          /\ DOMAIN Append(w, dgram) = 1 .. Len(w) + 1
          /\ \A i \in 1 .. Len(w) : Append(w, dgram)[i] = w[i]
          /\ Append(w, dgram)[Len(w) + 1] = dgram
      BY <1>4
    <3>3. \A i \in DOMAIN Append(w, dgram) : i \in DOMAIN w \/ i = Len(w) + 1
      BY <3>2
    <3>4. \A i \in DOMAIN Append(w, dgram) : Append(w, dgram)[i] \in Submissions'
      BY <1>7, <3>1, <3>2, <3>3, ZenonT(40)
    <3>5. QED
      BY <2>2, <3>4
  <2>3. QED
    BY <1>1, <2>1, <2>2 DEF w
<1>11. \A g \in Hosts : \A i \in DOMAIN delivered'[g] : delivered'[g][i] \in Submissions'
  BY <1>2, <1>7 DEF SentInv
<1>12. SentInv'
  BY <1>1, <1>7, <1>8, <1>9, <1>10, <1>11, SentStep, ZenonT(40)
<1>13. QED
  BY <1>6, <1>12 DEF dgram

\* recv_frame makes up no datagrams.
LEMMA DeliverSent ==
    ASSUME TypeInv, SentInv, NEW h \in Hosts, Deliver(h)
    PROVE  SentInv'
<1> DEFINE frame == wire[1].frame
           d == frame.payload
           ip == frame.payload.sender_ip
           w == Waiting(nic[h], ip)
           frames == recv_frame(nic[h], frame).frames_out
           off == IF wire[1].hearers = {h} THEN 1 ELSE 0
<1>1. /\ frames \in Seq(Frames)
      /\ \A g \in Hosts : g # h => nic'[g] = nic[g]
      /\ frame.type # "ARP" => nic' = nic /\ frames = <<>>
      /\ frame.type = "ARP" =>
           /\ \A x : x # ip => Waiting(nic'[h], x) = Waiting(nic[h], x)
           /\ Waiting(nic'[h], ip) = <<>>
           /\ w \in Seq(Dgrams)
           /\ \A j \in 1 .. Len(w) : frames[j].type = "IPv4" /\ frames[j].payload = w[j]
           /\ \A j \in DOMAIN frames : j > Len(w) => frames[j].type = "ARP"
  BY DeliverEffects, ZenonT(40)
<1>2. /\ GrewTo(off, frames, h) /\ wire' \in Seq(Entries) /\ frame \in Frames /\ 1 \in DOMAIN wire
  BY DeliverStep, Zenon
<1>3. /\ submitted' = submitted
      /\ delivered' = IF PassesUp(nic[h], frame)
                      THEN [delivered EXCEPT ![h] = Append(delivered[h], d)] ELSE delivered
  BY DEF Deliver
<1> HIDE DEF frames, off
<1>4. Submissions' = Submissions
  BY <1>3 DEF Submissions
<1>5. \A j \in DOMAIN frames : frames[j].type = "IPv4" => frames[j].payload \in Submissions
  <2>1. CASE frame.type # "ARP"
    BY <1>1, <2>1, SMTT(30)
  <2>2. CASE frame.type = "ARP"
    <3>1. ip \in Hosts
      BY <1>2, <2>2, FrameHosts, SMTT(30)
    <3>2. \A i \in DOMAIN w : w[i] \in Submissions
      BY <3>1, ZenonT(40) DEF SentInv
    <3>3. DOMAIN frames = 1 .. Len(frames) /\ DOMAIN w = 1 .. Len(w) /\ Len(w) \in Nat
      BY <1>1, <2>2, SMTT(30)
    <3>4. QED
      BY <1>1, <2>2, <3>2, <3>3, SMTT(30)
  <2>3. QED
    BY <2>1, <2>2, ZenonT(40)
<1>6. \A g, t \in Hosts : \/ Waiting(nic'[g], t) = Waiting(nic[g], t)
                          \/ Waiting(nic'[g], t) = <<>>
  BY <1>1
<1>7. \A g, t \in Hosts : \A i \in DOMAIN Waiting(nic'[g], t) :
         Waiting(nic'[g], t)[i] \in Submissions
  <2> TAKE g, t \in Hosts
  <2>1. CASE Waiting(nic'[g], t) = Waiting(nic[g], t)
    BY <2>1 DEF SentInv
  <2>2. CASE Waiting(nic'[g], t) = <<>>
    BY <2>2
  <2>3. QED
    BY <1>6, <2>1, <2>2
<1>8. \A g \in Hosts : \A i \in DOMAIN delivered'[g] : delivered'[g][i] \in Submissions
  <2> TAKE g \in Hosts
  <2>1. CASE PassesUp(nic[h], frame) /\ g = h
    <3>1. d \in Submissions
      BY <1>2, <2>1 DEF SentInv, PassesUp
    <3> HIDE DEF d
    <3>2. delivered'[h] = Append(delivered[h], d) /\ delivered[h] \in Seq(Dgrams)
      BY <1>3, <2>1 DEF TypeInv
    <3>3. \A i \in DOMAIN delivered[h] : delivered[h][i] \in Submissions
      BY DEF SentInv
    <3>4. /\ \A i \in DOMAIN delivered[h] : delivered'[h][i] = delivered[h][i]
          /\ \A i \in DOMAIN delivered'[h] : i \in DOMAIN delivered[h] \/ delivered'[h][i] = d
      BY <3>2
    <3>5. QED
      BY <2>1, <3>1, <3>3, <3>4, ZenonT(40)
  <2>2. CASE ~(PassesUp(nic[h], frame) /\ g = h)
    <3>1. delivered'[g] = delivered[g]
      BY <1>3, <2>2, SMTT(30) DEF TypeInv
    <3>2. QED
      BY <3>1 DEF SentInv
  <2>3. QED
    BY <2>1, <2>2
<1>9. \A g \in Hosts : \A x \in Range(submitted'[g]) : x.src = g /\ x.dst # g
  BY <1>3 DEF SentInv
<1>10. QED
  BY <1>1, <1>2, <1>4, <1>5, <1>7, <1>8, <1>9, SentStep, ZenonT(40)

\* A step that neither sends nor delivers.
LEMMA QuietSent ==
    ASSUME TypeInv, SentInv, delivered' = delivered, submitted' = submitted,
           NEW off, GrewTo(off, <<>>, 0), wire' \in Seq(Entries),
           \A g, t \in Hosts : \/ Waiting(nic'[g], t) = <<>>
                               \/ Waiting(nic'[g], t) = Waiting(nic[g], t)
    PROVE  SentInv'
<1>1. Submissions' = Submissions
  BY DEF Submissions
<1>2. <<>> \in Seq(Frames) /\ DOMAIN <<>> = {}
  OBVIOUS
<1>3. \A g, t \in Hosts : \A i \in DOMAIN Waiting(nic'[g], t) :
         Waiting(nic'[g], t)[i] \in Submissions
  <2> TAKE g, t \in Hosts
  <2>1. CASE Waiting(nic'[g], t) = Waiting(nic[g], t)
    BY <2>1, Zenon DEF SentInv
  <2>2. CASE Waiting(nic'[g], t) = <<>>
    BY <2>2
  <2>3. QED
    BY <2>1, <2>2
<1>4. /\ \A g \in Hosts : \A x \in Range(submitted'[g]) : x.src = g /\ x.dst # g
      /\ \A g \in Hosts : \A i \in DOMAIN delivered'[g] : delivered'[g][i] \in Submissions
      /\ \A i \in DOMAIN <<>> : (<<>>)[i].type = "IPv4" => (<<>>)[i].payload \in Submissions
  BY <1>2 DEF SentInv
<1>5. QED
  BY <1>1, <1>2, <1>3, <1>4, SentStep, Zenon

\* Every step keeps it so that only what was sent is found.
LEMMA NextSent == TypeInv /\ SentInv /\ [Next]_vars => SentInv'
<1> SUFFICES ASSUME TypeInv, SentInv, [Next]_vars PROVE SentInv'
  OBVIOUS
<1>1. CASE \E h, to \in Hosts : Send(h, to)
  BY <1>1, SendSent, ZenonT(40)
<1>2. CASE \E h \in Hosts : Deliver(h)
  BY <1>2, DeliverSent
<1>3. CASE \/ Lose
           \/ \E ms \in 1 .. ARP_CACHE_TIMEOUT : Tick(ms)
           \/ \E h \in setting.replaceable : Replace(h)
           \/ UNCHANGED vars
  BY <1>3, QuietSteps, QuietSent, ZenonT(40)
<1>4. QED
  BY <1>1, <1>2, <1>3, SMTT(30) DEF Next

\* Only what was sent is found in all reachable states.
LEMMA AlwaysSent == Spec => []SentInv
BY InitSent, NextSent, AlwaysTyped, PTL DEF Spec

\* A datagram from h has arrived, is on the wire or waits for an address.
IsAt(d, h) ==
    \/ \E i \in DOMAIN delivered[d.dst] : delivered[d.dst][i] = d
    \/ \E i \in DOMAIN wire : Carries(wire[i], h, d.dst) /\ wire[i].frame.payload = d
    \/ \E i \in DOMAIN Waiting(nic[h], d.dst) : Waiting(nic[h], d.dst)[i] = d

KeptInv == ~setting.faulty =>
    /\ \A h \in Hosts : replaced_at[h] = <<>>
    /\ \A h \in Hosts : \A d \in Range(submitted[h]) : IsAt(d, h)

\* There is nothing to lose in the beginning.
LEMMA InitKept == Init => KeptInv
<1> SUFFICES ASSUME Init PROVE KeptInv
  OBVIOUS
<1>1. \A h \in Hosts : replaced_at[h] = <<>> /\ Range(submitted[h]) = {}
  BY DEF Init, Range
<1>2. QED
  BY <1>1 DEF KeptInv

\* send_datagram puts a datagram on the wire or into the queue of its address.
LEMMA SendKept ==
    ASSUME TypeInv, SentInv, KeptInv, NEW h \in Hosts, NEW to \in Hosts, Send(h, to)
    PROVE  KeptInv'
<1> DEFINE dgram == [src |-> h, dst |-> to, id |-> Len(submitted[h])]
           frames == send_datagram(nic[h], dgram, to).frames_out
           w == Waiting(nic[h], to)
<1>1. /\ frames \in Seq(Frames) /\ GrewTo(0, frames, h) /\ wire' \in Seq(Entries)
      /\ \A i \in 1 .. Len(wire) : wire'[i] = wire[i]
      /\ \A g \in Hosts : g # h => nic'[g] = nic[g]
      /\ \A ip : ip # to => Waiting(nic'[h], ip) = Waiting(nic[h], ip)
      /\ IsCached(nic[h], to) =>
           /\ Waiting(nic'[h], to) = w
           /\ Len(frames) = 1 /\ frames[1].type = "IPv4" /\ frames[1].payload = dgram
      /\ ~IsCached(nic[h], to) => Waiting(nic'[h], to) = Append(w, dgram)
  BY SendEffects, ZenonT(40)
<1>2. /\ delivered' = delivered /\ h # to /\ setting' = setting /\ replaced_at' = replaced_at
      /\ submitted' = [submitted EXCEPT ![h] = Append(submitted[h], dgram)]
  BY DEF Send
<1>3. dgram.src = h /\ dgram.dst = to
  OBVIOUS
<1>4. Range(submitted'[h]) = Range(submitted[h]) \cup {dgram}
  BY SendSent
<1>5. w \in Seq(Dgrams) /\ wire \in Seq(Entries)
  BY FlowNumbers DEF TypeInv
<1> HIDE DEF frames, dgram, w
<1>6. \A g \in Hosts : g # h => submitted'[g] = submitted[g]
  BY <1>2, ZenonT(40) DEF TypeInv
<1>7. /\ DOMAIN wire = 1 .. Len(wire) /\ Len(wire) \in Nat
      /\ DOMAIN wire' = 1 .. Len(wire') /\ Len(wire') \in Nat
      /\ Len(wire') = Len(wire) + Len(frames) /\ Len(frames) \in Nat
      /\ DOMAIN w = 1 .. Len(w) /\ Len(w) \in Nat
      /\ DOMAIN Append(w, dgram) = 1 .. Len(w) + 1
      /\ \A i \in 1 .. Len(w) : Append(w, dgram)[i] = w[i]
      /\ Append(w, dgram)[Len(w) + 1] = dgram
  <2>1. frames \in Seq(Frames) /\ wire' \in Seq(Entries)
    BY <1>1, Zenon
  <2>2. Len(wire') = (Len(wire) - 0) + Len(frames)
    BY <1>1, Zenon DEF GrewTo
  <2>3. /\ DOMAIN wire = 1 .. Len(wire) /\ Len(wire) \in Nat
        /\ DOMAIN wire' = 1 .. Len(wire') /\ Len(wire') \in Nat /\ Len(frames) \in Nat
    BY <1>5, <2>1
  <2>4. Len(wire') = Len(wire) + Len(frames)
    BY <2>2, <2>3
  <2>5. /\ DOMAIN w = 1 .. Len(w) /\ Len(w) \in Nat
        /\ DOMAIN Append(w, dgram) = 1 .. Len(w) + 1
        /\ \A i \in 1 .. Len(w) : Append(w, dgram)[i] = w[i]
        /\ Append(w, dgram)[Len(w) + 1] = dgram
    BY <1>5
  <2>6. QED
    BY <2>3, <2>4, <2>5, Zenon
<1>8. \A i \in DOMAIN wire : i \in DOMAIN wire' /\ wire'[i] = wire[i]
  <2>1. \A i \in 1 .. Len(wire) : wire'[i] = wire[i]
    BY <1>1, ZenonT(40)
  <2>2. QED
    BY <1>7, <2>1
<1>9. \A i \in DOMAIN w : i \in DOMAIN Append(w, dgram) /\ Append(w, dgram)[i] = w[i]
  BY <1>7, SMTT(30)
<1>10. ASSUME NEW g \in Hosts, NEW d, IsAt(d, g)
       PROVE  IsAt(d, g)'
  <2>1. CASE \E i \in DOMAIN delivered[d.dst] : delivered[d.dst][i] = d
    BY <1>2, <2>1, ZenonT(40) DEF IsAt
  <2>2. CASE \E i \in DOMAIN wire : Carries(wire[i], g, d.dst) /\ wire[i].frame.payload = d
    BY <1>8, <2>2 DEF IsAt
  <2>3. CASE \E i \in DOMAIN Waiting(nic[g], d.dst) : Waiting(nic[g], d.dst)[i] = d
    <3>1. CASE Waiting(nic'[g], d.dst) = Waiting(nic[g], d.dst)
      BY <2>3, <3>1, SMTT(30) DEF IsAt
    <3>2. CASE Waiting(nic'[g], d.dst) # Waiting(nic[g], d.dst)
      <4>1. g = h /\ d.dst = to /\ Waiting(nic'[g], d.dst) = Append(w, dgram)
        BY <1>1, <3>2, SMTT(30) DEF w
      <4>2. \E i \in DOMAIN w : w[i] = d
        BY <2>3, <4>1 DEF w
      <4>3. \E i \in DOMAIN Append(w, dgram) : Append(w, dgram)[i] = d
        BY <1>9, <4>2
      <4>4. QED
        BY <4>1, <4>3, ZenonT(40) DEF IsAt
    <3>3. QED
      BY <3>1, <3>2, ZenonT(40)
  <2>4. QED
    BY <1>10, <2>1, <2>2, <2>3, ZenonT(40) DEF IsAt
<1>11. PICK e : e = dgram
  OBVIOUS
<1>12. IsAt(e, h)'
  <2>1. e.dst = to
    BY <1>3, <1>11, ZenonT(40)
  <2>2. CASE IsCached(nic[h], to)
    <3> DEFINE i == Len(wire) + 1
    <3>1. Len(frames) = 1 /\ frames[1].type = "IPv4" /\ frames[1].payload = dgram
      BY <1>1, <2>2
    <3>2. i \in DOMAIN wire'
      BY <1>7, <3>1, SMTT(30)
    <3>3. wire'[(Len(wire) - 0) + 1] = [frame |-> frames[1], hearers |-> Hosts \ {h}]
      <4>1. 1 \in 1 .. Len(frames)
        BY <3>1
      <4>2. QED
        BY <1>1, <4>1 DEF GrewTo
    <3>4. (Len(wire) - 0) + 1 = i
      BY <1>7
    <3>5. wire'[i].frame = frames[1] /\ wire'[i].hearers = Hosts \ {h}
      BY <3>3, <3>4, SMTT(30)
    <3> HIDE DEF i
    <3>6. Carries(wire'[i], h, to) /\ wire'[i].frame.payload = e
      BY <1>2, <1>3, <1>11, <3>1, <3>5, ZenonT(40) DEF Carries, InFlow
    <3>7. QED
      BY <2>1, <3>2, <3>6, ZenonT(40) DEF IsAt
  <2>3. CASE ~IsCached(nic[h], to)
    <3>1. Waiting(nic'[h], to) = Append(w, dgram)
      BY <1>1, <2>3
    <3>2. Len(w) + 1 \in DOMAIN Append(w, dgram) /\ Append(w, dgram)[Len(w) + 1] = e
      BY <1>7, <1>11, SMTT(30)
    <3>3. QED
      BY <2>1, <3>1, <3>2, ZenonT(40) DEF IsAt
  <2>4. QED
    BY <2>2, <2>3
<1>13. QED
  <2> SUFFICES ASSUME ~setting.faulty
               PROVE  /\ \A g \in Hosts : replaced_at'[g] = <<>>
                      /\ \A g \in Hosts : \A d \in Range(submitted'[g]) : IsAt(d, g)'
    BY <1>2, SMTT(30) DEF KeptInv
  <2>1. \A g \in Hosts : replaced_at'[g] = <<>>
    BY <1>2, SMTT(30) DEF KeptInv
  <2>2. ASSUME NEW g \in Hosts, NEW d \in Range(submitted'[g]) PROVE IsAt(d, g)'
    <3>1. CASE d \in Range(submitted[g])
      <4>1. IsAt(d, g)
        BY <3>1 DEF KeptInv
      <4>2. QED
        BY <1>10, <4>1
    <3>2. CASE g = h /\ d = e
      BY <1>12, <3>2, SMTT(30)
    <3>3. QED
      BY <1>4, <1>6, <1>11, <3>1, <3>2
  <2>3. QED
    BY <2>1, <2>2, ZenonT(40)

\* A frame that reaches a host takes nothing away from the others, what waited
\* for the address it announces goes out, and its datagram is passed up.
LEMMA DeliverKept ==
    ASSUME TypeInv, ClaimInv, SentInv, KeptInv, NEW h \in Hosts, Deliver(h)
    PROVE  KeptInv'
<1> DEFINE frame == wire[1].frame
           ip == frame.payload.sender_ip
           w == Waiting(nic[h], ip)
           frames == recv_frame(nic[h], frame).frames_out
           off == IF wire[1].hearers = {h} THEN 1 ELSE 0
           left == Len(wire) - off
<1>1. /\ frames \in Seq(Frames)
      /\ \A g \in Hosts : g # h => nic'[g] = nic[g]
      /\ frame.type # "ARP" => nic' = nic /\ frames = <<>>
      /\ frame.type = "ARP" =>
           /\ \A x : x # ip => Waiting(nic'[h], x) = Waiting(nic[h], x)
           /\ w \in Seq(Dgrams) /\ Len(w) =< Len(frames)
           /\ \A j \in 1 .. Len(w) : frames[j].type = "IPv4" /\ frames[j].payload = w[j]
  BY DeliverEffects, ZenonT(40)
<1>2. /\ GrewTo(off, frames, h) /\ wire' \in Seq(Entries) /\ 1 \in DOMAIN wire
      /\ \A i \in 1 .. left : wire'[i].hearers = IF i + off = 1 THEN wire[1].hearers \ {h}
                                                ELSE wire[i + off].hearers
  BY DeliverStep, Zenon
<1>3. /\ submitted' = submitted /\ setting' = setting /\ replaced_at' = replaced_at
      /\ delivered' = IF PassesUp(nic[h], frame)
                      THEN [delivered EXCEPT ![h] = Append(delivered[h], frame.payload)]
                      ELSE delivered
  BY DEF Deliver
<1>4. off = 1 => wire[1].hearers = {h}
  BY SMTT(30)
<1> HIDE DEF frame, frames, off, w
<1>5. /\ wire \in Seq(Entries) /\ DOMAIN wire = 1 .. Len(wire) /\ Len(wire) \in Nat
      /\ DOMAIN wire' = 1 .. Len(wire') /\ Len(frames) \in Nat /\ off \in {0, 1}
      /\ Len(wire') = left + Len(frames) /\ left \in Nat
  BY <1>1, <1>2, SMTT(30) DEF TypeInv, GrewTo
<1> SUFFICES ASSUME ~setting.faulty
             PROVE  /\ \A g \in Hosts : replaced_at'[g] = <<>>
                    /\ \A g \in Hosts : \A d \in Range(submitted'[g]) : IsAt(d, g)'
  BY <1>3, ZenonT(40) DEF KeptInv
<1>6. \A g \in Hosts : replaced_at[g] = <<>>
  BY ZenonT(40) DEF KeptInv
<1> HIDE DEF left
<1>7. ASSUME NEW g \in Hosts, NEW d \in Range(submitted[g])
      PROVE  IsAt(d, g)'
  <2>1. /\ IsAt(d, g) /\ d.src = g /\ d.dst # g
    BY Zenon DEF KeptInv, SentInv
  <2>2. d.dst \in Hosts
    <3>1. submitted[g] \in Seq(Dgrams)
      BY DEF TypeInv
    <3>2. d \in Dgrams
      BY <3>1, SMTT(30) DEF Range
    <3>3. QED
      BY <3>2 DEF Dgrams
  <2>3. CASE \E i \in DOMAIN delivered[d.dst] : delivered[d.dst][i] = d
    <3>1. PICK i \in DOMAIN delivered[d.dst] : delivered[d.dst][i] = d
      BY <2>3
    <3>2. delivered[d.dst] \in Seq(Dgrams)
      BY <2>2, ZenonT(40) DEF TypeInv
    <3>3. i \in DOMAIN delivered'[d.dst] /\ delivered'[d.dst][i] = d
      <4>1. CASE delivered'[d.dst] = delivered[d.dst]
        BY <3>1, <4>1, ZenonT(40)
      <4>2. CASE delivered'[d.dst] = Append(delivered[d.dst], frame.payload)
        BY <3>1, <3>2, <4>2, SMTT(30)
      <4>3. QED
        BY <1>3, <2>2, <4>1, <4>2, ZenonT(40) DEF TypeInv
    <3>4. QED
      BY <3>3 DEF IsAt
  <2>4. CASE \E i \in DOMAIN wire : Carries(wire[i], g, d.dst) /\ wire[i].frame.payload = d
    <3>1. PICK i \in DOMAIN wire : Carries(wire[i], g, d.dst) /\ wire[i].frame.payload = d
      BY <2>4
    <3>2. wire[i].frame.type = "IPv4" /\ d.dst \in wire[i].hearers
      BY <3>1, ZenonT(40) DEF Carries, InFlow
    <3>3. CASE i = 1 /\ d.dst = h
      <4>1. Range(<<>>) = {}
        BY SMTT(30) DEF Range
      <4>2. FrameClaim(wire[i].frame, now, nic, replaced_at)
        BY ZenonT(40) DEF ClaimInv
      <4>3. frame.dst = nic[h].ethernet_address /\ frame.type = "IPv4" /\ frame.payload = d
        BY <1>6, <3>1, <3>2, <3>3, <4>1, <4>2, ZenonT(40) DEF FrameClaim, frame
      <4>4. delivered' = [delivered EXCEPT ![h] = Append(delivered[h], d)]
        BY <1>3, <4>3, SMTT(30) DEF PassesUp
      <4>5. delivered[h] \in Seq(Dgrams) /\ delivered'[h] = Append(delivered[h], d)
        BY <4>4, SMTT(30) DEF TypeInv
      <4>6. /\ Len(delivered[h]) + 1 \in DOMAIN delivered'[h]
            /\ delivered'[h][Len(delivered[h]) + 1] = d
        BY <4>5, SMTT(30)
      <4>7. QED
        BY <3>3, <4>6, SMTT(30) DEF IsAt
    <3>4. CASE ~(i = 1 /\ d.dst = h)
      <4> DEFINE j == i - off
      <4>1. off = 1 => i # 1
        BY <1>4, <3>2, <3>4
      <4>2. j \in 1 .. left /\ j + off = i /\ j \in DOMAIN wire'
        BY <1>5, <4>1, SMTT(30) DEF left
      <4> HIDE DEF j
      <4>3. wire'[j].frame = wire[j + off].frame
        BY <1>2, <4>2, ZenonT(40) DEF GrewTo, left
      <4>4. wire'[j].hearers = IF j + off = 1 THEN wire[1].hearers \ {h}
                               ELSE wire[j + off].hearers
        BY <1>2, <4>2, Zenon
      <4>5. wire'[j].frame = wire[i].frame /\ d.dst \in wire'[j].hearers
        BY <3>2, <3>4, <4>2, <4>3, <4>4, SMTT(30)
      <4>6. Carries(wire'[j], g, d.dst) /\ wire'[j].frame.payload = d
        BY <3>1, <4>5, SMTT(30) DEF Carries
      <4>7. QED
        BY <4>2, <4>6, SMTT(30) DEF IsAt
    <3>5. QED
      BY <3>3, <3>4
  <2>5. CASE \E i \in DOMAIN Waiting(nic[g], d.dst) : Waiting(nic[g], d.dst)[i] = d
    <3>1. CASE Waiting(nic'[g], d.dst) = Waiting(nic[g], d.dst)
      BY <2>5, <3>1, ZenonT(40) DEF IsAt
    <3>2. CASE Waiting(nic'[g], d.dst) # Waiting(nic[g], d.dst)
      <4>1. g = h /\ frame.type = "ARP" /\ d.dst = ip
        BY <1>1, <3>2, SMTT(30)
      <4>2. PICK i \in DOMAIN w : w[i] = d
        BY <2>5, <4>1, ZenonT(40) DEF w
      <4>3. i \in 1 .. Len(w) /\ i \in 1 .. Len(frames) /\ i \in Nat
        BY <1>1, <1>5, <4>1, SMTT(30)
      <4>4. frames[i].type = "IPv4" /\ frames[i].payload = d
        BY <1>1, <4>1, <4>2, <4>3, SMTT(30)
      <4> DEFINE j == left + i
      <4>5. j \in DOMAIN wire'
        BY <1>5, <4>3, SMTT(30)
      <4>6. wire'[j] = [frame |-> frames[i], hearers |-> Hosts \ {h}]
        BY <1>2, <4>3, ZenonT(40) DEF GrewTo, left
      <4> HIDE DEF j
      <4>7. wire'[j].frame = frames[i] /\ wire'[j].hearers = Hosts \ {h}
        BY <4>6
      <4>8. Carries(wire'[j], g, d.dst) /\ wire'[j].frame.payload = d
        BY <2>1, <2>2, <4>1, <4>4, <4>7, ZenonT(40) DEF Carries, InFlow
      <4>9. QED
        BY <4>5, <4>8, ZenonT(40) DEF IsAt
    <3>3. QED
      BY <3>1, <3>2, ZenonT(40)
  <2>6. QED
    BY <2>1, <2>3, <2>4, <2>5, ZenonT(40) DEF IsAt
<1>8. QED
  BY <1>3, <1>6, <1>7, ZenonT(40)

\* Without faults no interface is replaced and no frame lost, and the clock
\* leaves the datagrams where they are.
LEMMA NextKept == TypeInv /\ ClaimInv /\ SentInv /\ KeptInv /\ [Next]_vars => KeptInv'
<1> SUFFICES ASSUME TypeInv, ClaimInv, SentInv, KeptInv, [Next]_vars PROVE KeptInv'
  OBVIOUS
<1>1. CASE \E h, to \in Hosts : Send(h, to)
  BY <1>1, SendKept
<1>2. CASE \E h \in Hosts : Deliver(h)
  BY <1>2, DeliverKept
<1>3. CASE Lose
  BY <1>3, ZenonT(40) DEF Lose, KeptInv
<1>4. CASE \E ms \in 1 .. ARP_CACHE_TIMEOUT : Tick(ms)
  <2>1. PICK ms \in 1 .. ARP_CACHE_TIMEOUT : Tick(ms)
    BY <1>4
  <2>2. ms \in Nat /\ now \in Nat
    BY TimeoutAssumption DEF TypeInv
  <2>3. /\ nic' = [h \in Hosts |-> tick(nic[h], ms)]
        /\ UNCHANGED <<setting, wire, submitted, delivered, replaced_at>>
    BY <2>1 DEF Tick
  <2>4. \A g \in Hosts : nic'[g].unsent = nic[g].unsent
    BY <2>2, <2>3, TickTypedHost DEF TypeInv
  <2>5. \A g \in Hosts : \A d : Waiting(nic'[g], d.dst) = Waiting(nic[g], d.dst)
    BY <2>4, ZenonT(40) DEF Waiting
  <2>6. ASSUME NEW g \in Hosts, NEW d, IsAt(d, g) PROVE IsAt(d, g)'
    BY <2>3, <2>5, <2>6, ZenonT(40) DEF IsAt
  <2>7. QED
    BY <2>3, <2>6 DEF KeptInv
<1>5. CASE \E h \in setting.replaceable : Replace(h)
  <2>1. setting.faulty /\ setting' = setting
    BY <1>5, SettingAssumption DEF TypeInv, Replace
  <2>2. QED
    BY <2>1 DEF KeptInv
<1>6. CASE UNCHANGED vars
  <2>1. UNCHANGED <<setting, nic, wire, submitted, delivered, replaced_at>>
    BY <1>6, ZenonT(40) DEF vars
  <2>2. ASSUME NEW g \in Hosts, NEW d, IsAt(d, g) PROVE IsAt(d, g)'
    BY <2>1, <2>2 DEF IsAt
  <2>3. QED
    BY <2>1, <2>2 DEF KeptInv
<1>7. QED
  BY <1>1, <1>2, <1>3, <1>4, <1>5, <1>6, SMTT(30) DEF Next

\* Without faults no datagram is lost in any reachable state.
LEMMA AlwaysKept == Spec => []KeptInv
BY InitKept, NextKept, AlwaysTyped, AlwaysClaims, AlwaysSent, PTL DEF Spec

\* The places of a flow hold what was sent, in the order of the places.
LEMMA NothingLostHere ==
    TypeInv /\ OrderInv /\ SentInv /\ KeptInv => NothingLostOrOvertaken
<1> SUFFICES ASSUME TypeInv, OrderInv, SentInv, KeptInv, ~setting.faulty,
                    NEW h \in Hosts, NEW to \in Hosts
             PROVE  /\ Sent(h, to) = Arrived(h, to) \cup OnWire(h, to) \cup Queued(h, to)
                    /\ AllBefore(Arrived(h, to), OnWire(h, to) \cup Queued(h, to))
                    /\ AllBefore(OnWire(h, to), Queued(h, to))
  BY Zenon DEF NothingLostOrOvertaken
<1>1. OnWire(h, to) = {wire[i].frame.payload : i \in {j \in DOMAIN wire : Carries(wire[j], h, to)}}
  BY DEF OnWire, Carries, InFlow
<1>2. /\ \A i \in DOMAIN Waiting(nic[h], to) : /\ Waiting(nic[h], to)[i].src = h
                                               /\ Waiting(nic[h], to)[i].dst = to
  BY WaitingTyped DEF TypeInv
<1>3. \A d \in Submissions : d \in Range(submitted[d.src])
  BY SMTT(30) DEF Submissions, SentInv
<1>4. Arrived(h, to) \subseteq Sent(h, to)
  <2> SUFFICES ASSUME NEW i \in DOMAIN delivered[to], delivered[to][i].src = h
               PROVE  delivered[to][i] \in Sent(h, to)
    BY ZenonT(40) DEF Arrived, Range
  <2>1. delivered[to][i] \in Submissions /\ delivered[to][i].dst = to
    BY DEF SentInv, OrderInv, ArrivesOnceAtItsHop
  <2>2. QED
    BY <1>3, <2>1 DEF Sent
<1>5. OnWire(h, to) \subseteq Sent(h, to)
  <2> SUFFICES ASSUME NEW i \in DOMAIN wire, Carries(wire[i], h, to)
               PROVE  wire[i].frame.payload \in Sent(h, to)
    BY <1>1, SMTT(30)
  <2>1. /\ wire[i].frame.payload \in Submissions
        /\ wire[i].frame.payload.src = h /\ wire[i].frame.payload.dst = to
    BY SMTT(30) DEF SentInv, Carries, InFlow
  <2>2. QED
    BY <1>3, <2>1 DEF Sent
<1>6. Queued(h, to) \subseteq Sent(h, to)
  <2> SUFFICES ASSUME NEW i \in DOMAIN Waiting(nic[h], to)
               PROVE  Waiting(nic[h], to)[i] \in Sent(h, to)
    BY ZenonT(40) DEF Queued, Range
  <2>1. Waiting(nic[h], to)[i] \in Submissions
    BY ZenonT(40) DEF SentInv
  <2>2. QED
    BY <1>2, <1>3, <2>1, SMTT(30) DEF Sent
<1>7. Sent(h, to) \subseteq Arrived(h, to) \cup OnWire(h, to) \cup Queued(h, to)
  <2> SUFFICES ASSUME NEW d \in Range(submitted[h]), d.dst = to
               PROVE  d \in Arrived(h, to) \cup OnWire(h, to) \cup Queued(h, to)
    BY ZenonT(40) DEF Sent
  <2>1. IsAt(d, h) /\ d.src = h
    BY ZenonT(40) DEF KeptInv, SentInv
  <2>2. CASE \E i \in DOMAIN delivered[to] : delivered[to][i] = d
    BY <2>1, <2>2, ZenonT(40) DEF Arrived, Range
  <2>3. CASE \E i \in DOMAIN wire : Carries(wire[i], h, to) /\ wire[i].frame.payload = d
    BY <1>1, <2>3, ZenonT(40)
  <2>4. CASE \E i \in DOMAIN Waiting(nic[h], to) : Waiting(nic[h], to)[i] = d
    BY <2>4 DEF Queued, Range
  <2>5. QED
    BY <2>1, <2>2, <2>3, <2>4, SMTT(30) DEF IsAt
<1>8. QueueOK(h, to) /\ WireOK(h, to)
  BY ZenonT(40) DEF OrderInv, FlowOK
<1>9. AllBefore(Arrived(h, to), OnWire(h, to))
  <2> SUFFICES ASSUME NEW j \in DOMAIN delivered[to], delivered[to][j].src = h,
                      NEW i \in DOMAIN wire, Carries(wire[i], h, to)
               PROVE  delivered[to][j].id < wire[i].frame.payload.id
    BY <1>1, ZenonT(40) DEF AllBefore, Arrived, Range
  <2>1. QED
    BY <1>8, SMTT(30) DEF WireOK
<1>10. AllBefore(Arrived(h, to), Queued(h, to))
  <2> SUFFICES ASSUME NEW j \in DOMAIN delivered[to], delivered[to][j].src = h,
                      NEW i \in DOMAIN Waiting(nic[h], to)
               PROVE  delivered[to][j].id < Waiting(nic[h], to)[i].id
    BY ZenonT(40) DEF AllBefore, Arrived, Queued, Range
  <2>1. QED
    BY <1>8, SMTT(30) DEF QueueOK
<1>11. AllBefore(OnWire(h, to), Queued(h, to))
  <2> SUFFICES ASSUME NEW j \in DOMAIN wire, Carries(wire[j], h, to),
                      NEW i \in DOMAIN Waiting(nic[h], to)
               PROVE  wire[j].frame.payload.id < Waiting(nic[h], to)[i].id
    BY <1>1 DEF AllBefore, Queued, Range
  <2>1. QED
    BY <1>8, ZenonT(40) DEF QueueOK
<1>12. QED
  BY <1>4, <1>5, <1>6, <1>7, <1>9, <1>10, <1>11 DEF AllBefore

\* While no frame is lost, every datagram that was sent has arrived, is on the
\* wire or waits for an ARP reply, and none overtakes another.
THEOREM NothingLost == Spec => []NothingLostOrOvertaken
BY AlwaysTyped, AlwaysOrder, AlwaysSent, AlwaysKept, NothingLostHere, PTL
=============================================================================
