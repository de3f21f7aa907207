----------------------- MODULE EthernetOrder_proofs ------------------------
(***************************************************************************)
(* Datagrams between two hosts of a segment arrive in the order in which   *)
(* they were sent, and once.                                               *)
(*                                                                         *)
(* OrderInv is about the order of the datagrams of a flow over the three   *)
(* places they can be at: waiting for an address, on the wire, arrived.    *)
(***************************************************************************)
EXTENDS EthernetLink_proofs

-----------------------------------------------------------------------------
(* Datagrams keep their order and arrive once. *)

\* A frame carries a datagram of the flow from h to a host; an entry of the
\* wire carries it there if the host has not been reached.
InFlow(f, h, to) == f.type = "IPv4" /\ f.payload.src = h /\ f.payload.dst = to
Carries(e, h, to) == InFlow(e.frame, h, to) /\ to \in e.hearers

\* Datagrams wait for an address only while it is not cached, in the order in
\* which they were sent, and those that wait are the latest.
QueueOK(h, to) ==
    LET w == Waiting(nic[h], to)
    IN  /\ IsCached(nic[h], to) => w = <<>>
        /\ \A i \in DOMAIN w :
             /\ w[i].id < Len(submitted[h])
             /\ \A j \in 1 .. i - 1 : w[j].id < w[i].id
             /\ \A j \in DOMAIN wire :
                  Carries(wire[j], h, to) => wire[j].frame.payload.id < w[i].id
             /\ \A j \in DOMAIN delivered[to] :
                  delivered[to][j].src = h => delivered[to][j].id < w[i].id

\* The datagrams on the wire are in order, and later than those that arrived.
WireOK(h, to) ==
    \A i \in DOMAIN wire : Carries(wire[i], h, to) =>
        /\ wire[i].frame.payload.id < Len(submitted[h])
        /\ \A j \in 1 .. i - 1 : Carries(wire[j], h, to) =>
              wire[j].frame.payload.id < wire[i].frame.payload.id
        /\ \A j \in DOMAIN delivered[to] :
              delivered[to][j].src = h => delivered[to][j].id < wire[i].frame.payload.id

ArrivedOK(h, to) ==
    \A i \in DOMAIN delivered[to] :
        delivered[to][i].src = h => delivered[to][i].id < Len(submitted[h])

FlowOK(h, to) == QueueOK(h, to) /\ WireOK(h, to) /\ ArrivedOK(h, to)

OrderInv == ArrivesOnceAtItsHop /\ \A h, to \in Hosts : FlowOK(h, to)

\* Where an entry that carries a datagram of a flow comes from.
LEMMA Origin ==
    ASSUME wire \in Seq(Entries), wire' \in Seq(Entries),
           NEW off, NEW x, NEW frames \in Seq(Frames), GrewTo(off, frames, x),
           NEW h, NEW to, NEW i \in DOMAIN wire', Carries(wire'[i], h, to)
    PROVE  \/ /\ i \in 1 .. Len(wire) - off /\ i + off \in DOMAIN wire
              /\ Carries(wire[i + off], h, to)
              /\ wire'[i].frame = wire[i + off].frame
           \/ \E j \in DOMAIN frames : /\ i = (Len(wire) - off) + j
                                       /\ InFlow(frames[j], h, to)
                                       /\ wire'[i].frame = frames[j]
<1>1. /\ Len(wire) \in Nat /\ Len(frames) \in Nat /\ off \in {0, 1} /\ off =< Len(wire)
      /\ i \in 1 .. (Len(wire) - off) + Len(frames)
      /\ DOMAIN wire = 1 .. Len(wire) /\ DOMAIN frames = 1 .. Len(frames)
  BY DEF GrewTo
<1>2. CASE i =< Len(wire) - off
  <2>1. i \in 1 .. Len(wire) - off /\ i + off \in DOMAIN wire
    BY <1>1, <1>2
  <2>2. wire'[i].frame = wire[i + off].frame /\ wire'[i].hearers \subseteq wire[i + off].hearers
    BY <2>1, ZenonT(40) DEF GrewTo
  <2>3. QED
    BY <2>1, <2>2 DEF Carries
<1>3. CASE i > Len(wire) - off
  <2> DEFINE j == i - (Len(wire) - off)
  <2>1. j \in 1 .. Len(frames) /\ i = (Len(wire) - off) + j
    BY <1>1, <1>3
  <2> HIDE DEF j
  <2>2. wire'[i] = [frame |-> frames[j], hearers |-> Hosts \ {x}]
    BY <2>1 DEF GrewTo
  <2>3. wire'[i].frame = frames[j]
    BY <2>2
  <2>4. QED
    BY <1>1, <2>1, <2>3, ZenonT(40) DEF Carries
<1>4. QED
  BY <1>1, <1>2, <1>3

\* A step that puts nothing of a flow on the wire and lets nothing of it arrive.
LEMMA WireKept ==
    ASSUME TypeInv, NEW h \in Hosts, NEW to \in Hosts, FlowOK(h, to),
           wire' \in Seq(Entries), NEW off, NEW x, NEW frames \in Seq(Frames),
           GrewTo(off, frames, x),
           \A j \in DOMAIN frames : ~InFlow(frames[j], h, to),
           Len(submitted'[h]) \in Nat, Len(submitted[h]) =< Len(submitted'[h]),
           \A i \in DOMAIN delivered'[to] : delivered'[to][i].src = h =>
               \E j \in DOMAIN delivered[to] : delivered'[to][i] = delivered[to][j]
    PROVE  WireOK(h, to)' /\ ArrivedOK(h, to)'
<1>1. wire \in Seq(Entries) /\ Len(submitted[h]) \in Nat
  BY DEF TypeInv
<1>2. \A i \in DOMAIN wire' : Carries(wire'[i], h, to) =>
         /\ i \in 1 .. Len(wire) - off /\ i + off \in DOMAIN wire
         /\ Carries(wire[i + off], h, to)
         /\ wire'[i].frame = wire[i + off].frame
  BY <1>1, Origin
<1>3. \A i \in DOMAIN wire : Carries(wire[i], h, to) => wire[i].frame.payload.id \in Nat
  BY WireTyped DEF Carries, InFlow, Frames, Dgrams
<1>4. off \in {0, 1} /\ Len(wire) \in Nat
  BY <1>1 DEF GrewTo
<1>5. \A i \in DOMAIN delivered[to] : delivered[to][i] \in Dgrams
  BY DEF TypeInv
<1>6. WireOK(h, to)'
  <2> SUFFICES ASSUME NEW i \in DOMAIN wire', Carries(wire'[i], h, to)
               PROVE  /\ wire'[i].frame.payload.id < Len(submitted'[h])
                      /\ \A j \in 1 .. i - 1 : Carries(wire'[j], h, to) =>
                            wire'[j].frame.payload.id < wire'[i].frame.payload.id
                      /\ \A j \in DOMAIN delivered'[to] : delivered'[to][j].src = h =>
                            delivered'[to][j].id < wire'[i].frame.payload.id
    BY SMTT(30) DEF WireOK
  <2>1. /\ i \in 1 .. Len(wire) - off /\ i + off \in DOMAIN wire
        /\ Carries(wire[i + off], h, to)
        /\ wire'[i].frame = wire[i + off].frame
    BY <1>2
  <2>2. wire'[i].frame.payload.id < Len(submitted'[h])
    <3>1. wire[i + off].frame.payload.id < Len(submitted[h])
      BY <2>1 DEF FlowOK, WireOK
    <3>2. wire[i + off].frame.payload.id \in Nat
      BY <1>3, <2>1
    <3>3. QED
      BY <1>1, <2>1, <3>1, <3>2, SMTT(30)
  <2>3. ASSUME NEW j \in 1 .. i - 1, Carries(wire'[j], h, to)
        PROVE  wire'[j].frame.payload.id < wire'[i].frame.payload.id
    <3>1. DOMAIN wire' = 1 .. Len(wire') /\ Len(wire') \in Nat
      OBVIOUS
    <3>2. j \in DOMAIN wire'
      BY <3>1
    <3>3. Carries(wire[j + off], h, to) /\ wire'[j].frame = wire[j + off].frame
      BY <1>2, <2>3, <3>2
    <3>4. j + off \in 1 .. (i + off) - 1
      BY <1>4, <2>1, SMTT(30)
    <3>5. QED
      BY <2>1, <3>3, <3>4, Zenon DEF FlowOK, WireOK
  <2>4. \A j \in DOMAIN delivered'[to] : delivered'[to][j].src = h =>
           delivered'[to][j].id < wire'[i].frame.payload.id
    BY <2>1, Zenon DEF FlowOK, WireOK
  <2>5. QED
    BY <2>2, <2>3, <2>4, SMTT(30)
<1>7. ArrivedOK(h, to)'
  <2> SUFFICES ASSUME NEW i \in DOMAIN delivered'[to], delivered'[to][i].src = h
               PROVE  delivered'[to][i].id < Len(submitted'[h])
    BY DEF ArrivedOK
  <2>1. PICK j \in DOMAIN delivered[to] : delivered'[to][i] = delivered[to][j]
    OBVIOUS
  <2>2. delivered[to][j].id < Len(submitted[h]) /\ delivered[to][j].id \in Nat
    BY <1>5, <2>1 DEF FlowOK, ArrivedOK, Dgrams
  <2>3. QED
    BY <1>1, <2>1, <2>2, SMTT(30)
<1>8. QED
  BY <1>6, <1>7

\* A step after which of a flow only those wait that waited before.
LEMMA FlowKept ==
    ASSUME TypeInv, NEW h \in Hosts, NEW to \in Hosts, FlowOK(h, to),
           wire' \in Seq(Entries), NEW off, NEW x, NEW frames \in Seq(Frames),
           GrewTo(off, frames, x),
           \A j \in DOMAIN frames : ~InFlow(frames[j], h, to),
           Len(submitted'[h]) \in Nat, Len(submitted[h]) =< Len(submitted'[h]),
           \A i \in DOMAIN delivered'[to] : delivered'[to][i].src = h =>
               \E j \in DOMAIN delivered[to] : delivered'[to][i] = delivered[to][j],
           \/ Waiting(nic'[h], to) = <<>>
           \/ /\ Waiting(nic'[h], to) = Waiting(nic[h], to)
              /\ IsCached(nic'[h], to) => IsCached(nic[h], to)
    PROVE  FlowOK(h, to)'
<1>1. wire \in Seq(Entries) /\ Len(submitted[h]) \in Nat
  BY DEF TypeInv
<1>2. \A i \in DOMAIN wire' : Carries(wire'[i], h, to) =>
         /\ i + off \in DOMAIN wire
         /\ Carries(wire[i + off], h, to)
         /\ wire'[i].frame = wire[i + off].frame
  BY <1>1, Origin
<1>3. WireOK(h, to)' /\ ArrivedOK(h, to)'
  BY WireKept
<1>4. QueueOK(h, to)'
  <2>1. CASE Waiting(nic'[h], to) = <<>>
    <3> DEFINE v == Waiting(nic'[h], to)
    <3>1. v = <<>> /\ DOMAIN v = {}
      BY <2>1, SMTT(30)
    <3>2. QED
      BY <3>1 DEF QueueOK
  <2>2. CASE /\ Waiting(nic'[h], to) = Waiting(nic[h], to)
             /\ IsCached(nic'[h], to) => IsCached(nic[h], to)
    <3> DEFINE w == Waiting(nic[h], to)
    <3>0. w \in Seq(Dgrams)
      BY WaitingTyped, SMTT(30) DEF TypeInv
    <3>1. /\ IsCached(nic[h], to) => w = <<>>
          /\ \A i \in DOMAIN w :
               /\ w[i].id < Len(submitted[h])
               /\ \A j \in 1 .. i - 1 : w[j].id < w[i].id
               /\ \A j \in DOMAIN wire :
                    Carries(wire[j], h, to) => wire[j].frame.payload.id < w[i].id
               /\ \A j \in DOMAIN delivered[to] :
                    delivered[to][j].src = h => delivered[to][j].id < w[i].id
      BY DEF FlowOK, QueueOK
    <3> HIDE DEF w
    <3>2. \A i \in DOMAIN w : w[i].id < Len(submitted'[h])
      <4> TAKE i \in DOMAIN w
      <4>1. w[i].id \in Nat /\ w[i].id < Len(submitted[h])
        <5>1. w[i] \in Dgrams
          BY <3>0
        <5>2. QED
          BY <3>1, <5>1 DEF Dgrams
      <4>2. QED
        BY <1>1, <4>1, SMTT(30)
    <3>3. \A i \in DOMAIN w : \A j \in DOMAIN wire' :
             Carries(wire'[j], h, to) => wire'[j].frame.payload.id < w[i].id
      BY <1>2, <3>1
    <3>4. \A i \in DOMAIN w : \A j \in DOMAIN delivered'[to] :
             delivered'[to][j].src = h => delivered'[to][j].id < w[i].id
      BY <3>1
    <3>5. Waiting(nic'[h], to) = w /\ (IsCached(nic'[h], to) => w = <<>>)
      BY <2>2, <3>1, ZenonT(40) DEF w
    <3>6. QED
      BY <3>1, <3>2, <3>3, <3>4, <3>5 DEF QueueOK
  <2>3. QED
    BY <2>1, <2>2
<1>5. QED
  BY <1>3, <1>4 DEF FlowOK

\* What Send does to what waits and to the wire.
LEMMA SendEffects ==
    ASSUME TypeInv, NEW h \in Hosts, NEW to \in Hosts, Send(h, to)
    PROVE  LET n == nic[h]
               dgram == [src |-> h, dst |-> to, id |-> Len(submitted[h])]
               frames == send_datagram(n, dgram, to).frames_out
           IN  /\ dgram \in Dgrams
               /\ frames \in Seq(Frames) /\ GrewTo(0, frames, h) /\ wire' \in Seq(Entries)
               /\ \A i \in 1 .. Len(wire) : wire'[i] = wire[i]
               /\ \A g \in Hosts : g # h => nic'[g] = nic[g]
               /\ \A ip : IsCached(nic'[h], ip) = IsCached(n, ip)
               /\ \A ip : ip # to => Waiting(nic'[h], ip) = Waiting(n, ip)
               /\ IsCached(n, to) =>
                    /\ Waiting(nic'[h], to) = Waiting(n, to)
                    /\ Len(frames) = 1 /\ frames[1].type = "IPv4" /\ frames[1].payload = dgram
               /\ ~IsCached(n, to) =>
                    /\ Waiting(nic'[h], to) = Append(Waiting(n, to), dgram)
                    /\ \A j \in DOMAIN frames : frames[j].type # "IPv4"
<1> DEFINE n == nic[h]
           dgram == [src |-> h, dst |-> to, id |-> Len(submitted[h])]
           s == send_datagram(n, dgram, to)
           queue == With(n.unsent, to, Append(Waiting(n, to), dgram))
<1>1. /\ dgram \in Dgrams
      /\ FramesOK(s.frames_out) /\ GrewTo(0, s.frames_out, h)
      /\ wire' \in Seq(Entries)
      /\ \A i \in 1 .. Len(wire) : wire'[i] = wire[i]
      /\ nic' = [g \in Hosts |-> IF g = h THEN Drained(s) ELSE nic[g]]
  BY SendStep
<1>2. /\ IsInterface(n) /\ n.frames_out = <<>>
  BY DEF TypeInv, InterfaceOK
<1> HIDE DEF n, dgram
<1>3. /\ IsInterface(s) /\ SameIdentity(s, n) /\ s.cache = n.cache
      /\ IsCached(n, to) =>
           /\ s.frames_out = <<FrameOf("IPv4", n.ethernet_address, n.cache[to].ethernet, dgram)>>
           /\ s.unsent = n.unsent
      /\ ~IsCached(n, to) => s.unsent = queue
      /\ ~IsCached(n, to) /\ MayRequest(n, to) => s.frames_out = <<ArpRequest(n, to)>>
      /\ ~IsCached(n, to) /\ ~MayRequest(n, to) => s.frames_out = <<>>
  <2>1. SentFrom(n, s, dgram, to)
    BY <1>2, Sending, Zenon
  <2>2. QED
    BY <2>1, Zenon DEF SentFrom
<1> HIDE DEF s
<1> DEFINE m == Drained(s)
<1>4. SameIdentity(m, s) /\ m.cache = s.cache /\ m.unsent = s.unsent
  BY <1>3, Draining
<1> HIDE DEF m
<1>5. m = nic'[h] /\ \A g \in Hosts : g # h => nic'[g] = nic[g]
  BY <1>1 DEF m
<1>6. \A ip : IsCached(m, ip) = IsCached(n, ip)
  BY <1>3, <1>4 DEF IsCached, SameIdentity
<1>7. \A ip : ip # to => Waiting(m, ip) = Waiting(n, ip)
  BY <1>3, <1>4 DEF Waiting, With
<1>8. CASE IsCached(n, to)
  <2> DEFINE f == FrameOf("IPv4", n.ethernet_address, n.cache[to].ethernet, dgram)
  <2>1. f.type = "IPv4" /\ f.payload = dgram
    BY DEF FrameOf
  <2> HIDE DEF f
  <2>2. s.frames_out = <<f>> /\ Len(<<f>>) = 1 /\ <<f>>[1] = f
    BY <1>3, <1>8 DEF f
  <2>3. Waiting(m, to) = Waiting(n, to)
    BY <1>3, <1>4, <1>8 DEF Waiting
  <2>4. QED
    BY <1>1, <1>5, <1>6, <1>7, <1>8, <2>1, <2>2, <2>3, Zenon DEF n, s, dgram, FramesOK
<1>9. CASE ~IsCached(n, to)
  <2>1. Waiting(m, to) = Append(Waiting(n, to), dgram)
    BY <1>3, <1>4, <1>9 DEF Waiting, With
  <2> DEFINE f == ArpRequest(n, to)
  <2>2. f.type # "IPv4"
    BY DEF ArpRequest, FrameOf
  <2> HIDE DEF f
  <2>3. s.frames_out = <<f>> \/ s.frames_out = <<>>
    BY <1>3, <1>9 DEF f
  <2>4. DOMAIN <<f>> = {1} /\ <<f>>[1] = f
    OBVIOUS
  <2>5. \A j \in DOMAIN s.frames_out : s.frames_out[j].type # "IPv4"
    BY <2>2, <2>3, <2>4, SMTT(30)
  <2>6. QED
    BY <1>1, <1>5, <1>6, <1>7, <1>9, <2>1, <2>5, ZenonT(40) DEF n, s, dgram, FramesOK
<1>10. QED
  BY <1>8, <1>9, ZenonT(40)

\* What Deliver does to what waits and to the wire.
LEMMA DeliverEffects ==
    ASSUME TypeInv, NEW h \in Hosts, Deliver(h)
    PROVE  LET n == nic[h]
               frame == wire[1].frame
               ip == frame.payload.sender_ip
               w == Waiting(n, ip)
               frames == recv_frame(n, frame).frames_out
           IN  /\ frames \in Seq(Frames)
               /\ \A g \in Hosts : g # h => nic'[g] = nic[g]
               /\ frame.type # "ARP" => nic' = nic /\ frames = <<>>
               /\ frame.type = "ARP" =>
                    /\ \A x : x # ip => /\ IsCached(nic'[h], x) = IsCached(n, x)
                                        /\ Waiting(nic'[h], x) = Waiting(n, x)
                    /\ Waiting(nic'[h], ip) = <<>>
                    /\ w \in Seq(Dgrams) /\ Len(w) =< Len(frames)
                    /\ \A j \in 1 .. Len(w) : frames[j].type = "IPv4" /\ frames[j].payload = w[j]
                    /\ \A j \in DOMAIN frames : j > Len(w) => frames[j].type = "ARP"
<1> DEFINE n == nic[h]
           frame == wire[1].frame
           r == recv_frame(n, frame)
           msg == frame.payload
           ip == msg.sender_ip
           new == [ethernet |-> msg.sender_ethernet, at |-> n.now]
           rest == [x \in DOMAIN n.unsent \ {ip} |-> n.unsent[x]]
           w == Waiting(n, ip)
           flushed == Flushed(n, ip, msg.sender_ethernet)
<1>1. /\ frame \in Frames /\ Genuine(frame)
      /\ FramesOK(r.frames_out)
      /\ nic' = [g \in Hosts |-> IF g = h THEN Drained(r) ELSE nic[g]]
  BY DeliverStep, ZenonT(40)
<1>2. /\ IsInterface(n) /\ n.frames_out = <<>> /\ Len(replaced_at[h]) \in Nat
      /\ InterfaceOK(n, h, Len(replaced_at[h]), now)
      /\ nic = [g \in Hosts |-> nic[g]]
  BY DEF TypeInv, InterfaceOK
<1>3. w \in Seq(Dgrams)
  BY <1>2, WaitingTyped
<1> HIDE DEF n, frame
<1>4. /\ IsInterface(r) /\ SameIdentity(r, n)
      /\ frame.type # "ARP" => r = n
      /\ frame.type = "ARP" =>
           /\ r.cache = With(n.cache, ip, new)
           /\ r.unsent = rest
           /\ r.frames_out = flushed \o Answers(n, msg)
  BY <1>2, <1>3, Receiving, ZenonT(40)
<1> HIDE DEF r
<1> DEFINE m == Drained(r)
<1>5. /\ SameIdentity(m, r) /\ m.cache = r.cache /\ m.unsent = r.unsent
      /\ r.frames_out = <<>> => m = r
  BY <1>4, Draining
<1> HIDE DEF m
<1>6. m = nic'[h] /\ \A g \in Hosts : g # h => nic'[g] = nic[g]
  BY <1>1, ZenonT(40) DEF m
<1>7. CASE frame.type # "ARP"
  <2>1. m = n /\ r.frames_out = <<>>
    BY <1>2, <1>4, <1>5, <1>7
  <2>2. nic' = nic
    BY <1>1, <1>2, <2>1, SMTT(30) DEF m, n
  <2>3. QED
    BY <1>1, <1>6, <1>7, <2>1, <2>2, SMTT(30) DEF n, frame, r, FramesOK
<1>8. CASE frame.type = "ARP"
  <2> HIDE DEF new, rest
  <2>1. \A x : x # ip => IsCached(m, x) = IsCached(n, x)
    BY <1>4, <1>5, <1>8 DEF IsCached, With, SameIdentity
  <2>2. \A x : x # ip => Waiting(m, x) = Waiting(n, x)
    BY <1>4, <1>5, <1>8, SMTT(30) DEF Waiting, rest
  <2>3. Waiting(m, ip) = <<>>
    BY <1>4, <1>5, <1>8 DEF Waiting, rest
  <2> DEFINE a == Answers(n, msg)
  <2>4. flushed \in Seq(Frames) /\ a \in Seq(Frames)
    BY <1>1, <1>2, <1>8, AnswerTyped, ZenonT(40) DEF FramesOK
  <2>5. /\ DOMAIN flushed = DOMAIN w
        /\ \A j \in DOMAIN w : flushed[j].type = "IPv4" /\ flushed[j].payload = w[j]
    BY DEF Flushed, FrameOf
  <2>6. \A j \in DOMAIN a : a[j].type = "ARP"
    <3> DEFINE f == ArpReply(n, msg)
    <3>1. f.type = "ARP"
      BY DEF ArpReply, FrameOf
    <3> HIDE DEF f
    <3>2. a = <<f>> \/ a = <<>>
      BY DEF Answers, f
    <3>3. DOMAIN <<f>> = {1} /\ <<f>>[1] = f
      OBVIOUS
    <3>4. QED
      BY <3>1, <3>2, <3>3
  <2> HIDE DEF flushed, a, w
  <2>7. r.frames_out = flushed \o a
    BY <1>4, <1>8 DEF a
  <2>8. /\ DOMAIN w = 1 .. Len(w) /\ Len(w) \in Nat
        /\ DOMAIN flushed = 1 .. Len(flushed) /\ Len(flushed) \in Nat
        /\ DOMAIN a = 1 .. Len(a) /\ Len(a) \in Nat
    BY <1>3, <2>4
  <2>9. Len(flushed) = Len(w)
    BY <2>5, <2>8
  <2>10. /\ Len(flushed \o a) = Len(flushed) + Len(a) /\ flushed \o a \in Seq(Frames)
         /\ \A i \in 1 .. Len(flushed) : (flushed \o a)[i] = flushed[i]
         /\ \A i \in 1 .. Len(a) : (flushed \o a)[Len(flushed) + i] = a[i]
    BY <2>4, Concat
  <2>11. Len(w) =< Len(r.frames_out)
    BY <2>7, <2>8, <2>9, <2>10
  <2>12. \A j \in 1 .. Len(w) : r.frames_out[j].type = "IPv4" /\ r.frames_out[j].payload = w[j]
    BY <2>5, <2>7, <2>8, <2>9, <2>10, Zenon
  <2>13. \A j \in DOMAIN r.frames_out : j > Len(w) => r.frames_out[j].type = "ARP"
    <3> SUFFICES ASSUME NEW j \in DOMAIN r.frames_out, j > Len(w)
                 PROVE  r.frames_out[j].type = "ARP"
      OBVIOUS
    <3>1. j \in 1 .. Len(w) + Len(a)
      BY <2>7, <2>9, <2>10
    <3>2. j - Len(w) \in 1 .. Len(a) /\ j = Len(w) + (j - Len(w))
      BY <2>8, <3>1
    <3>3. r.frames_out[j] = a[j - Len(w)]
      BY <2>7, <2>9, <2>10, <3>2, SMTT(30)
    <3>4. QED
      BY <2>6, <2>8, <3>2, <3>3
  <2>14. QED
    BY <1>1, <1>3, <1>6, <1>8, <2>1, <2>2, <2>3, <2>11, <2>12, <2>13, ZenonT(40) DEF n, frame, r, w, FramesOK
<1>9. QED
  BY <1>7, <1>8, Zenon

\* A datagram of a flow that is on the wire or has arrived has a number.
LEMMA FlowNumbers ==
    ASSUME TypeInv, NEW h \in Hosts, NEW to \in Hosts
    PROVE  /\ Len(submitted[h]) \in Nat
           /\ \A i \in DOMAIN wire : Carries(wire[i], h, to) => wire[i].frame.payload.id \in Nat
           /\ \A i \in DOMAIN delivered[to] : delivered[to][i].id \in Nat
           /\ Waiting(nic[h], to) \in Seq(Dgrams)
           /\ \A i \in DOMAIN Waiting(nic[h], to) : Waiting(nic[h], to)[i].id \in Nat
<1>1. \A i \in DOMAIN wire : Carries(wire[i], h, to) => wire[i].frame.payload.id \in Nat
  BY WireTyped DEF Carries, InFlow, Frames, Dgrams
<1>2. \A i \in DOMAIN delivered[to] : delivered[to][i].id \in Nat
  <2>1. delivered[to] \in Seq(Dgrams)
    BY DEF TypeInv
  <2>2. \A i \in DOMAIN delivered[to] : delivered[to][i] \in Dgrams
    BY <2>1
  <2>3. QED
    BY <2>2 DEF Dgrams
<1>3. Waiting(nic[h], to) \in Seq(Dgrams)
  BY WaitingTyped DEF TypeInv
<1>4. \A i \in DOMAIN Waiting(nic[h], to) : Waiting(nic[h], to)[i].id \in Nat
  <2> DEFINE w == Waiting(nic[h], to)
  <2> HIDE DEF w
  <2>1. \A i \in DOMAIN w : w[i] \in Dgrams
    BY <1>3 DEF w
  <2>2. \A i \in DOMAIN w : w[i].id \in Nat
    BY <2>1 DEF Dgrams
  <2>3. QED
    BY <2>2 DEF w
<1>5. QED
  BY <1>1, <1>2, <1>3, <1>4 DEF TypeInv

\* The datagram that is sent gets the largest number of its flow.
LEMMA SendFlow ==
    ASSUME TypeInv, NEW h \in Hosts, NEW to \in Hosts, FlowOK(h, to), Send(h, to)
    PROVE  FlowOK(h, to)'
<1> DEFINE n == nic[h]
           dgram == [src |-> h, dst |-> to, id |-> Len(submitted[h])]
           frames == send_datagram(n, dgram, to).frames_out
           w == Waiting(n, to)
           last == Len(submitted[h])
<1>1. /\ frames \in Seq(Frames) /\ GrewTo(0, frames, h) /\ wire' \in Seq(Entries)
      /\ IsCached(nic'[h], to) = IsCached(n, to)
      /\ IsCached(n, to) =>
           /\ Waiting(nic'[h], to) = w
           /\ Len(frames) = 1 /\ frames[1].type = "IPv4" /\ frames[1].payload = dgram
      /\ ~IsCached(n, to) =>
           /\ Waiting(nic'[h], to) = Append(w, dgram)
           /\ \A j \in DOMAIN frames : frames[j].type # "IPv4"
  BY SendEffects, ZenonT(40)
<1>2. delivered' = delivered /\ submitted' = [submitted EXCEPT ![h] = Append(submitted[h], dgram)]
  BY DEF Send
<1>3. /\ submitted'[h] = Append(submitted[h], dgram) /\ submitted[h] \in Seq(Dgrams)
  BY <1>2 DEF TypeInv
<1>4. Len(submitted'[h]) = last + 1 /\ last \in Nat /\ dgram.id = last /\ wire \in Seq(Entries)
  BY <1>3 DEF TypeInv
<1>5. /\ \A i \in DOMAIN wire : Carries(wire[i], h, to) => wire[i].frame.payload.id \in Nat
      /\ \A i \in DOMAIN delivered[to] : delivered[to][i].id \in Nat
      /\ w \in Seq(Dgrams) /\ \A i \in DOMAIN w : w[i].id \in Nat
  BY FlowNumbers, Zenon
<1> HIDE DEF frames, n, w, last, dgram
<1>6. CASE IsCached(n, to)
  <2>1. w = <<>> /\ Waiting(nic'[h], to) = <<>>
    BY <1>1, <1>6, SMTT(30) DEF FlowOK, QueueOK, n, w
  <2>2. QueueOK(h, to)'
    <3>1. DOMAIN Waiting(nic'[h], to) = {}
      BY <2>1
    <3>2. QED
      BY <2>1, <3>1 DEF QueueOK
  <2>3. ArrivedOK(h, to)'
    <3>1. \A i \in DOMAIN delivered[to] : delivered[to][i].src = h => delivered[to][i].id < last + 1
      BY <1>4, <1>5, SMTT(30) DEF FlowOK, ArrivedOK, last
    <3>2. QED
      BY <1>2, <1>4, <3>1 DEF ArrivedOK
  <2>4. \A i \in DOMAIN wire' : Carries(wire'[i], h, to) =>
           \/ /\ i \in DOMAIN wire /\ Carries(wire[i], h, to)
              /\ wire'[i].frame.payload.id = wire[i].frame.payload.id
           \/ i = Len(wire) + 1 /\ wire'[i].frame.payload.id = last
    <3> SUFFICES ASSUME NEW i \in DOMAIN wire', Carries(wire'[i], h, to)
                 PROVE  \/ /\ i \in DOMAIN wire /\ Carries(wire[i], h, to)
                           /\ wire'[i].frame.payload.id = wire[i].frame.payload.id
                        \/ i = Len(wire) + 1 /\ wire'[i].frame.payload.id = last
      BY ZenonT(40)
    <3>1. \/ /\ i \in 1 .. Len(wire) - 0 /\ i + 0 \in DOMAIN wire
             /\ Carries(wire[i + 0], h, to)
             /\ wire'[i].frame = wire[i + 0].frame
          \/ \E j \in DOMAIN frames : i = (Len(wire) - 0) + j /\ wire'[i].frame = frames[j]
      BY <1>1, <1>4, Origin, SMTT(30)
    <3>2. DOMAIN frames = {1} /\ Len(wire) \in Nat
      BY <1>1, <1>4, <1>6, SMTT(30)
    <3>3. CASE \E j \in DOMAIN frames : i = (Len(wire) - 0) + j /\ wire'[i].frame = frames[j]
      BY <1>1, <1>4, <1>6, <3>2, <3>3, SMTT(30)
    <3>4. CASE /\ i \in 1 .. Len(wire) - 0 /\ i + 0 \in DOMAIN wire
               /\ Carries(wire[i + 0], h, to)
               /\ wire'[i].frame = wire[i + 0].frame
      <4>1. i + 0 = i
        BY <3>2, <3>4, SMTT(30)
      <4>2. QED
        BY <3>4, <4>1
    <3>5. QED
      BY <3>1, <3>3, <3>4, SMTT(30)
  <2>5. WireOK(h, to)'
    <3> SUFFICES ASSUME NEW i \in DOMAIN wire', Carries(wire'[i], h, to)
                 PROVE  /\ wire'[i].frame.payload.id < last + 1
                        /\ \A j \in 1 .. i - 1 : Carries(wire'[j], h, to) =>
                              wire'[j].frame.payload.id < wire'[i].frame.payload.id
                        /\ \A j \in DOMAIN delivered[to] : delivered[to][j].src = h =>
                              delivered[to][j].id < wire'[i].frame.payload.id
      BY <1>2, <1>4 DEF WireOK
    <3>1. /\ Len(wire) \in Nat /\ DOMAIN wire = 1 .. Len(wire)
          /\ DOMAIN wire' = 1 .. Len(wire') /\ Len(wire') \in Nat
      BY <1>1, <1>4, SMTT(30)
    <3>2. \A j \in DOMAIN wire : Carries(wire[j], h, to) => wire[j].frame.payload.id < last
      BY SMTT(30) DEF FlowOK, WireOK, last
    <3>3. CASE /\ i \in DOMAIN wire /\ Carries(wire[i], h, to)
               /\ wire'[i].frame.payload.id = wire[i].frame.payload.id
      <4>1. wire[i].frame.payload.id < last + 1
        BY <1>4, <1>5, <3>2, <3>3, SMTT(30)
      <4>2. ASSUME NEW j \in 1 .. i - 1, Carries(wire'[j], h, to)
            PROVE  wire'[j].frame.payload.id < wire'[i].frame.payload.id
        <5>1. j \in DOMAIN wire' /\ j # Len(wire) + 1
          BY <3>1, <3>3
        <5>2. Carries(wire[j], h, to) /\ wire'[j].frame.payload.id = wire[j].frame.payload.id
          BY <2>4, <4>2, <5>1, SMTT(30)
        <5>3. QED
          BY <3>3, <5>2 DEF FlowOK, WireOK
      <4>3. \A j \in DOMAIN delivered[to] : delivered[to][j].src = h =>
               delivered[to][j].id < wire'[i].frame.payload.id
        BY <3>3 DEF FlowOK, WireOK
      <4>4. QED
        BY <3>3, <4>1, <4>2, <4>3, SMTT(30)
    <3>4. CASE i = Len(wire) + 1 /\ wire'[i].frame.payload.id = last
      <4>1. last < last + 1
        BY <1>4
      <4>2. ASSUME NEW j \in 1 .. i - 1, Carries(wire'[j], h, to)
            PROVE  wire'[j].frame.payload.id < last
        <5>1. j \in DOMAIN wire' /\ j # Len(wire) + 1
          BY <3>1, <3>4, SMTT(30)
        <5>2. j \in DOMAIN wire /\ Carries(wire[j], h, to) /\ wire'[j].frame.payload.id = wire[j].frame.payload.id
          BY <2>4, <4>2, <5>1, SMTT(30)
        <5>3. QED
          BY <3>2, <5>2
      <4>3. \A j \in DOMAIN delivered[to] : delivered[to][j].src = h => delivered[to][j].id < last
        BY DEF FlowOK, ArrivedOK, last
      <4>4. QED
        BY <3>4, <4>1, <4>2, <4>3
    <3>5. QED
      BY <2>4, <3>3, <3>4, ZenonT(40)
  <2>6. QED
    BY <2>2, <2>3, <2>5, ZenonT(40) DEF FlowOK
<1>7. CASE ~IsCached(n, to)
  <2>1. \A j \in DOMAIN frames : ~InFlow(frames[j], h, to)
    BY <1>1, <1>7 DEF InFlow
  <2>2. Len(submitted'[h]) \in Nat /\ Len(submitted[h]) =< Len(submitted'[h])
    BY <1>4 DEF last
  <2>3. \A i \in DOMAIN delivered'[to] : delivered'[to][i].src = h =>
           \E j \in DOMAIN delivered[to] : delivered'[to][i] = delivered[to][j]
    BY <1>2, SMTT(30)
  <2>4. WireOK(h, to)' /\ ArrivedOK(h, to)'
    BY <1>1, <2>1, <2>2, <2>3, WireKept, ZenonT(40)
  <2>5. \A i \in DOMAIN wire' : Carries(wire'[i], h, to) =>
           /\ i + 0 \in DOMAIN wire
           /\ Carries(wire[i + 0], h, to)
           /\ wire'[i].frame = wire[i + 0].frame
    BY <1>1, <1>4, <2>1, Origin, ZenonT(40)
  <2>6. QueueOK(h, to)'
    <3> DEFINE v == Waiting(nic'[h], to)
    <3>1. v = Append(w, dgram) /\ ~IsCached(nic'[h], to)
      BY <1>1, <1>7, SMTT(30)
    <3> HIDE DEF v
    <3>2. /\ DOMAIN w = 1 .. Len(w) /\ Len(w) \in Nat /\ DOMAIN v = 1 .. Len(w) + 1
          /\ \A i \in 1 .. Len(w) : v[i] = w[i]
          /\ v[Len(w) + 1] = dgram
      BY <1>5, <3>1, SMTT(30)
    <3>3. \A i \in DOMAIN w :
               /\ w[i].id < last
               /\ \A j \in 1 .. i - 1 : w[j].id < w[i].id
               /\ \A j \in DOMAIN wire :
                    Carries(wire[j], h, to) => wire[j].frame.payload.id < w[i].id
               /\ \A j \in DOMAIN delivered[to] :
                    delivered[to][j].src = h => delivered[to][j].id < w[i].id
      BY ZenonT(40) DEF FlowOK, QueueOK, w, n, last
    <3>4. /\ \A j \in DOMAIN wire : Carries(wire[j], h, to) => wire[j].frame.payload.id < last
          /\ \A j \in DOMAIN delivered[to] : delivered[to][j].src = h => delivered[to][j].id < last
      BY ZenonT(40) DEF FlowOK, WireOK, ArrivedOK, last
    <3>5. ASSUME NEW i \in DOMAIN v
          PROVE  /\ v[i].id < last + 1
                 /\ \A j \in 1 .. i - 1 : v[j].id < v[i].id
                 /\ \A j \in DOMAIN wire' :
                      Carries(wire'[j], h, to) => wire'[j].frame.payload.id < v[i].id
                 /\ \A j \in DOMAIN delivered[to] :
                      delivered[to][j].src = h => delivered[to][j].id < v[i].id
      <4>1. CASE i \in 1 .. Len(w)
        <5>1. v[i].id < last + 1
          BY <1>4, <1>5, <3>2, <3>3, <4>1, SMTT(30)
        <5>2. \A j \in 1 .. i - 1 : v[j].id < v[i].id
          BY <3>2, <3>3, <4>1, SMTT(30)
        <5>3. QED
          BY <2>5, <3>2, <3>3, <4>1, <5>1, <5>2, ZenonT(40)
      <4>2. CASE i = Len(w) + 1
        <5>1. v[i].id = last /\ last < last + 1
          BY <1>4, <3>2, <4>2, SMTT(30)
        <5>2. \A j \in 1 .. i - 1 : v[j].id < last
          BY <3>2, <3>3, <4>2, SMTT(30)
        <5>3. QED
          BY <2>5, <3>4, <5>1, <5>2, ZenonT(40)
      <4>3. QED
        BY <3>2, <4>1, <4>2, SMTT(30)
    <3>6. QED
      BY <1>2, <1>4, <3>1, <3>5, ZenonT(40) DEF QueueOK, v
  <2>7. QED
    BY <2>4, <2>6, ZenonT(40) DEF FlowOK
<1>8. QED
  BY <1>6, <1>7

\* An ARP message: what waited for its sender goes onto the wire.
LEMMA FlushFlow ==
    ASSUME TypeInv, NEW h \in Hosts, Deliver(h), wire[1].frame.type = "ARP",
           NEW ip \in Hosts, ip = wire[1].frame.payload.sender_ip, FlowOK(h, ip)
    PROVE  FlowOK(h, ip)'
<1> DEFINE w == Waiting(nic[h], ip)
           frames == recv_frame(nic[h], wire[1].frame).frames_out
           off == IF wire[1].hearers = {h} THEN 1 ELSE 0
           left == Len(wire) - off
<1>1. /\ frames \in Seq(Frames)
      /\ Waiting(nic'[h], ip) = <<>>
      /\ w \in Seq(Dgrams)
      /\ \A j \in 1 .. Len(w) : frames[j].type = "IPv4" /\ frames[j].payload = w[j]
      /\ \A j \in DOMAIN frames : j > Len(w) => frames[j].type = "ARP"
  BY DeliverEffects, ZenonT(40)
<1>2. GrewTo(off, frames, h) /\ wire' \in Seq(Entries) /\ wire \in Seq(Entries)
  BY DeliverStep, Zenon DEF TypeInv
<1>3. submitted' = submitted /\ delivered'[ip] = delivered[ip]
  <2>1. ~PassesUp(nic[h], wire[1].frame)
    BY DEF PassesUp
  <2>2. QED
    BY <2>1 DEF Deliver
<1>4. /\ Len(submitted[h]) \in Nat
      /\ \A i \in DOMAIN wire : Carries(wire[i], h, ip) => wire[i].frame.payload.id \in Nat
      /\ \A i \in DOMAIN w : w[i].id \in Nat
  BY FlowNumbers, Zenon
<1> HIDE DEF w, frames, off, left
<1>5. /\ Len(wire) \in Nat /\ DOMAIN wire = 1 .. Len(wire)
      /\ DOMAIN wire' = 1 .. Len(wire') /\ Len(wire') \in Nat
      /\ DOMAIN w = 1 .. Len(w) /\ Len(w) \in Nat
      /\ DOMAIN frames = 1 .. Len(frames) /\ Len(frames) \in Nat
      /\ off \in {0, 1} /\ left = Len(wire) - off /\ left \in Nat
  BY <1>1, <1>2 DEF GrewTo, left
<1>6. \A i \in DOMAIN wire' : Carries(wire'[i], h, ip) =>
         \/ /\ i \in 1 .. left /\ i + off \in DOMAIN wire /\ Carries(wire[i + off], h, ip)
            /\ wire'[i].frame.payload.id = wire[i + off].frame.payload.id
         \/ \E j \in DOMAIN w : i = left + j /\ wire'[i].frame.payload.id = w[j].id
  <2> SUFFICES ASSUME NEW i \in DOMAIN wire', Carries(wire'[i], h, ip)
               PROVE  \/ /\ i \in 1 .. left /\ i + off \in DOMAIN wire /\ Carries(wire[i + off], h, ip)
                         /\ wire'[i].frame.payload.id = wire[i + off].frame.payload.id
                      \/ \E j \in DOMAIN w : i = left + j /\ wire'[i].frame.payload.id = w[j].id
    OBVIOUS
  <2>1. CASE /\ i \in 1 .. Len(wire) - off /\ i + off \in DOMAIN wire
             /\ Carries(wire[i + off], h, ip)
             /\ wire'[i].frame = wire[i + off].frame
    BY <1>5, <2>1, ZenonT(40)
  <2>2. CASE \E j \in DOMAIN frames : /\ i = (Len(wire) - off) + j
                                      /\ InFlow(frames[j], h, ip)
                                      /\ wire'[i].frame = frames[j]
    <3>1. PICK j \in DOMAIN frames : /\ i = (Len(wire) - off) + j
                                     /\ InFlow(frames[j], h, ip)
                                     /\ wire'[i].frame = frames[j]
      BY <2>2, ZenonT(40)
    <3>2. j \in 1 .. Len(w)
      <4>1. ~(j > Len(w))
        BY <1>1, <3>1, Zenon DEF InFlow
      <4>2. j \in 1 .. Len(frames) /\ Len(w) \in Nat /\ Len(frames) \in Nat
        BY <1>5, Zenon
      <4>3. QED
        BY <4>1, <4>2
    <3>3. frames[j].payload = w[j] /\ j \in DOMAIN w
      BY <1>1, <1>5, <3>2, Zenon
    <3>4. i = left + j /\ wire'[i].frame.payload.id = w[j].id
      BY <1>5, <3>1, <3>3, Zenon
    <3>5. QED
      BY <3>3, <3>4, Zenon
  <2>3. QED
    <3>1. frames \in Seq(Frames) /\ Carries(wire'[i], h, ip) /\ i \in DOMAIN wire'
      BY <1>1, ZenonT(40)
    <3>2. \/ /\ i \in 1 .. Len(wire) - off /\ i + off \in DOMAIN wire
             /\ Carries(wire[i + off], h, ip)
             /\ wire'[i].frame = wire[i + off].frame
          \/ \E j \in DOMAIN frames : /\ i = (Len(wire) - off) + j
                                      /\ InFlow(frames[j], h, ip)
                                      /\ wire'[i].frame = frames[j]
      BY <1>2, <3>1, Origin, SMTT(30)
    <3>3. QED
      BY <2>1, <2>2, <3>2, Zenon
<1>7. /\ \A i \in DOMAIN w :
           /\ w[i].id < Len(submitted[h])
           /\ \A j \in 1 .. i - 1 : w[j].id < w[i].id
           /\ \A j \in DOMAIN wire :
                Carries(wire[j], h, ip) => wire[j].frame.payload.id < w[i].id
           /\ \A j \in DOMAIN delivered[ip] :
                delivered[ip][j].src = h => delivered[ip][j].id < w[i].id
  BY Zenon DEF FlowOK, QueueOK, w
<1>8. WireOK(h, ip)'
  <2> SUFFICES ASSUME NEW i \in DOMAIN wire', Carries(wire'[i], h, ip)
               PROVE  /\ wire'[i].frame.payload.id < Len(submitted[h])
                      /\ \A j \in 1 .. i - 1 : Carries(wire'[j], h, ip) =>
                            wire'[j].frame.payload.id < wire'[i].frame.payload.id
                      /\ \A j \in DOMAIN delivered[ip] : delivered[ip][j].src = h =>
                            delivered[ip][j].id < wire'[i].frame.payload.id
    BY <1>3, Zenon DEF WireOK
  <2>1. CASE /\ i \in 1 .. left /\ i + off \in DOMAIN wire /\ Carries(wire[i + off], h, ip)
             /\ wire'[i].frame.payload.id = wire[i + off].frame.payload.id
    <3>1. ASSUME NEW j \in 1 .. i - 1, Carries(wire'[j], h, ip)
          PROVE  wire'[j].frame.payload.id < wire'[i].frame.payload.id
      <4>1. j \in DOMAIN wire' /\ j \in 1 .. left /\ j + off \in 1 .. (i + off) - 1
        BY <1>5, <2>1, SMTT(30)
      <4>2. /\ Carries(wire[j + off], h, ip)
            /\ wire'[j].frame.payload.id = wire[j + off].frame.payload.id
        <5>1. \A k \in DOMAIN w : j # left + k
          BY <1>5, <4>1, SMTT(30)
        <5>2. QED
          BY <1>6, <3>1, <4>1, <5>1, SMTT(30)
      <4>3. QED
        BY <2>1, <4>1, <4>2, ZenonT(40) DEF FlowOK, WireOK
    <3>2. /\ wire'[i].frame.payload.id < Len(submitted[h])
          /\ \A j \in DOMAIN delivered[ip] : delivered[ip][j].src = h =>
                delivered[ip][j].id < wire'[i].frame.payload.id
      BY <2>1, Zenon DEF FlowOK, WireOK
    <3>3. QED
      BY <3>1, <3>2, Zenon
  <2>2. CASE \E k \in DOMAIN w : i = left + k /\ wire'[i].frame.payload.id = w[k].id
    <3>1. PICK k \in DOMAIN w : i = left + k /\ wire'[i].frame.payload.id = w[k].id
      BY <2>2
    <3>2. ASSUME NEW j \in 1 .. i - 1, Carries(wire'[j], h, ip)
          PROVE  wire'[j].frame.payload.id < w[k].id
      <4>1. j \in DOMAIN wire'
        BY <1>5, SMTT(30)
      <4>2. CASE /\ j + off \in DOMAIN wire /\ Carries(wire[j + off], h, ip)
                 /\ wire'[j].frame.payload.id = wire[j + off].frame.payload.id
        BY <1>7, <3>1, <4>2, Zenon
      <4>3. CASE \E m \in DOMAIN w : j = left + m /\ wire'[j].frame.payload.id = w[m].id
        <5>1. PICK m \in DOMAIN w : j = left + m /\ wire'[j].frame.payload.id = w[m].id
          BY <4>3, SMTT(30)
        <5>2. m \in 1 .. k - 1
          BY <1>5, <3>1, <5>1, SMTT(30)
        <5>3. QED
          BY <1>7, <3>1, <5>1, <5>2, ZenonT(40)
      <4>4. QED
        BY <1>6, <3>2, <4>1, <4>2, <4>3, ZenonT(40)
    <3>3. QED
      BY <1>7, <3>1, <3>2, Zenon
  <2>3. QED
    BY <1>6, <2>1, <2>2, Zenon
<1>9. QueueOK(h, ip)'
  <2>1. DOMAIN Waiting(nic'[h], ip) = {}
    BY <1>1
  <2>2. QED
    BY <1>1, <2>1 DEF QueueOK
<1>10. ArrivedOK(h, ip)'
  BY <1>3, Zenon DEF FlowOK, ArrivedOK
<1>11. QED
  BY <1>8, <1>9, <1>10 DEF FlowOK

\* A frame is passed up only at the host that its datagram is for.
LEMMA PassedUpAtItsHop ==
    ASSUME TypeInv, NEW h \in Hosts, Deliver(h), PassesUp(nic[h], wire[1].frame)
    PROVE  /\ wire[1].frame.type = "IPv4"
           /\ wire[1].frame.payload \in Dgrams
           /\ wire[1].frame.payload.dst = h
           /\ Carries(wire[1], wire[1].frame.payload.src, h)
<1> DEFINE f == wire[1].frame
<1>1. f \in Frames /\ Genuine(f) /\ h \in wire[1].hearers
  BY DeliverStep, Zenon
<1>2. f.type = "IPv4" /\ f.dst = nic[h].ethernet_address
  BY ZenonT(40) DEF PassesUp
<1>3. f.payload \in Dgrams /\ IsAddressOf(f.dst, f.payload.dst)
  BY <1>1, <1>2, ZenonT(40) DEF Frames, Genuine
<1>4. f.dst = EthernetAddress(h, Len(replaced_at[h]))
  BY <1>2 DEF TypeInv, InterfaceOK
<1>5. f.dst[5] = h /\ f.dst[5] = f.payload.dst
  BY <1>3, <1>4 DEF IsAddressOf, EthernetAddress
<1>6. QED
  BY <1>1, <1>2, <1>3, <1>5, Zenon DEF Carries, InFlow

\* A datagram that is passed up is later than all that arrived, and earlier
\* than all that have not arrived.
LEMMA PassUpFlow ==
    ASSUME TypeInv, NEW h \in Hosts, Deliver(h), PassesUp(nic[h], wire[1].frame),
           NEW g \in Hosts, FlowOK(g, h)
    PROVE  FlowOK(g, h)'
<1> DEFINE d == wire[1].frame.payload
           off == IF wire[1].hearers = {h} THEN 1 ELSE 0
           frames == recv_frame(nic[h], wire[1].frame).frames_out
<1>1. /\ d \in Dgrams /\ d.dst = h /\ Carries(wire[1], d.src, h) /\ wire[1].frame.type = "IPv4"
  BY PassedUpAtItsHop, ZenonT(40)
<1>2. /\ submitted' = submitted /\ delivered' = [delivered EXCEPT ![h] = Append(delivered[h], d)]
  BY DEF Deliver
<1>3. /\ 1 \in DOMAIN wire /\ GrewTo(off, frames, h) /\ wire' \in Seq(Entries)
      /\ \A i \in 1 .. Len(wire) - off :
           wire'[i].hearers = IF i + off = 1 THEN wire[1].hearers \ {h}
                              ELSE wire[i + off].hearers
  BY DeliverStep, ZenonT(40)
<1>4. nic' = nic /\ frames = <<>> /\ frames \in Seq(Frames)
  BY <1>1, DeliverEffects
<1>5. /\ delivered[h] \in Seq(Dgrams) /\ delivered'[h] = Append(delivered[h], d)
      /\ wire \in Seq(Entries)
  BY <1>2, ZenonT(40) DEF TypeInv
<1>6. /\ DOMAIN delivered[h] = 1 .. Len(delivered[h]) /\ Len(delivered[h]) \in Nat
      /\ DOMAIN delivered'[h] = 1 .. Len(delivered[h]) + 1
      /\ \A i \in 1 .. Len(delivered[h]) : delivered'[h][i] = delivered[h][i]
      /\ delivered'[h][Len(delivered[h]) + 1] = d
  BY <1>1, <1>5
<1> HIDE DEF d, off, frames
<1>7. \A i \in DOMAIN delivered'[h] : i \in DOMAIN delivered[h] \/ i = Len(delivered[h]) + 1
  BY <1>6
<1>8. CASE d.src # g
  <2>1. \A i \in DOMAIN delivered'[h] : delivered'[h][i].src = g =>
           \E j \in DOMAIN delivered[h] : delivered'[h][i] = delivered[h][j]
    BY <1>6, <1>7, <1>8
  <2>2. \A j \in DOMAIN frames : ~InFlow(frames[j], g, h)
    BY <1>4, SMTT(30)
  <2>3. Len(submitted'[g]) \in Nat /\ Len(submitted[g]) =< Len(submitted'[g])
    BY <1>2, FlowNumbers
  <2>4. QED
    BY <1>3, <1>4, <2>1, <2>2, <2>3, FlowKept, ZenonT(40)
<1>9. CASE d.src = g
  <2>1. Len(wire) \in Nat /\ DOMAIN wire = 1 .. Len(wire) /\ off \in {0, 1}
        /\ DOMAIN wire' = 1 .. Len(wire') /\ Len(wire') \in Nat
    BY <1>3, <1>5, SMTT(30) DEF GrewTo
  <2>2. ASSUME NEW i \in DOMAIN wire', Carries(wire'[i], g, h)
        PROVE  /\ i + off \in DOMAIN wire /\ Carries(wire[i + off], g, h)
               /\ wire'[i].frame = wire[i + off].frame
               /\ 1 \in 1 .. (i + off) - 1
    <3>1. DOMAIN frames = {}
      BY <1>4
    <3>2. /\ i \in 1 .. Len(wire) - off /\ i + off \in DOMAIN wire
          /\ Carries(wire[i + off], g, h)
          /\ wire'[i].frame = wire[i + off].frame
      BY <1>3, <1>4, <1>5, <2>2, <3>1, Origin, ZenonT(40)
    <3>3. i + off # 1
      BY <1>3, <2>2, <3>2, ZenonT(40) DEF Carries
    <3>4. QED
      BY <2>1, <3>2, <3>3
  <2>3. \A i \in DOMAIN wire' : Carries(wire'[i], g, h) => d.id < wire'[i].frame.payload.id
    <3> SUFFICES ASSUME NEW i \in DOMAIN wire', Carries(wire'[i], g, h)
                 PROVE  d.id < wire'[i].frame.payload.id
      BY SMTT(30)
    <3>1. /\ i + off \in DOMAIN wire /\ Carries(wire[i + off], g, h)
          /\ wire'[i].frame = wire[i + off].frame
          /\ 1 \in 1 .. (i + off) - 1
      BY <2>2
    <3>2. Carries(wire[1], g, h)
      BY <1>1, <1>9, ZenonT(40)
    <3>3. QED
      BY <3>1, <3>2 DEF FlowOK, WireOK, d
  <2>4. WireOK(g, h)'
    <3> SUFFICES ASSUME NEW i \in DOMAIN wire', Carries(wire'[i], g, h)
                 PROVE  /\ wire'[i].frame.payload.id < Len(submitted[g])
                        /\ \A j \in 1 .. i - 1 : Carries(wire'[j], g, h) =>
                              wire'[j].frame.payload.id < wire'[i].frame.payload.id
                        /\ \A j \in DOMAIN delivered'[h] : delivered'[h][j].src = g =>
                              delivered'[h][j].id < wire'[i].frame.payload.id
      BY <1>2, ZenonT(40) DEF WireOK
    <3>1. /\ i + off \in DOMAIN wire /\ Carries(wire[i + off], g, h)
          /\ wire'[i].frame = wire[i + off].frame
      BY <2>2, SMTT(30)
    <3>2. wire'[i].frame.payload.id < Len(submitted[g])
      BY <3>1, ZenonT(40) DEF FlowOK, WireOK
    <3>3. ASSUME NEW j \in 1 .. i - 1, Carries(wire'[j], g, h)
          PROVE  wire'[j].frame.payload.id < wire'[i].frame.payload.id
      <4>1. j \in DOMAIN wire' /\ j + off \in 1 .. (i + off) - 1
        BY <2>1, SMTT(30)
      <4>2. Carries(wire[j + off], g, h) /\ wire'[j].frame = wire[j + off].frame
        BY <2>2, <3>3, <4>1, ZenonT(40)
      <4>3. QED
        BY <3>1, <4>1, <4>2 DEF FlowOK, WireOK
    <3>4. \A j \in DOMAIN delivered[h] : delivered[h][j].src = g =>
             delivered[h][j].id < wire'[i].frame.payload.id
      BY <3>1, SMTT(30) DEF FlowOK, WireOK
    <3>5. QED
      BY <1>6, <1>7, <2>3, <3>2, <3>3, <3>4, ZenonT(40)
  <2>5. QueueOK(g, h)'
    <3> DEFINE w == Waiting(nic[g], h)
    <3>1. /\ IsCached(nic[g], h) => w = <<>>
          /\ \A i \in DOMAIN w :
               /\ w[i].id < Len(submitted[g])
               /\ \A j \in 1 .. i - 1 : w[j].id < w[i].id
               /\ \A j \in DOMAIN wire :
                    Carries(wire[j], g, h) => wire[j].frame.payload.id < w[i].id
               /\ \A j \in DOMAIN delivered[h] :
                    delivered[h][j].src = g => delivered[h][j].id < w[i].id
      BY Zenon DEF FlowOK, QueueOK
    <3>2. Waiting(nic'[g], h) = w /\ IsCached(nic'[g], h) = IsCached(nic[g], h)
      BY <1>4, ZenonT(40)
    <3> HIDE DEF w
    <3>3. \A i \in DOMAIN w : d.id < w[i].id
      BY <1>1, <1>3, <1>9, <3>1, ZenonT(40) DEF d
    <3>4. \A i \in DOMAIN w : \A j \in DOMAIN wire' :
             Carries(wire'[j], g, h) => wire'[j].frame.payload.id < w[i].id
      BY <2>2, <3>1, ZenonT(40)
    <3>5. \A i \in DOMAIN w : \A j \in DOMAIN delivered'[h] :
             delivered'[h][j].src = g => delivered'[h][j].id < w[i].id
      BY <1>6, <1>7, <3>1, <3>3, ZenonT(40)
    <3>6. QED
      BY <1>2, <3>1, <3>2, <3>4, <3>5, Zenon DEF QueueOK
  <2>6. ArrivedOK(g, h)'
    <3>1. d.id < Len(submitted[g])
      BY <1>1, <1>3, <1>9, ZenonT(40) DEF FlowOK, WireOK, d
    <3>2. \A j \in DOMAIN delivered[h] : delivered[h][j].src = g => delivered[h][j].id < Len(submitted[g])
      BY DEF FlowOK, ArrivedOK
    <3>3. QED
      BY <1>2, <1>6, <1>7, <3>1, <3>2, SMTT(30) DEF ArrivedOK
  <2>7. QED
    BY <2>4, <2>5, <2>6, SMTT(30) DEF FlowOK
<1>10. QED
  BY <1>8, <1>9, SMTT(30)

\* Nothing has been sent in the beginning.
LEMMA InitOrder == Init => OrderInv
<1> SUFFICES ASSUME Init PROVE OrderInv
  OBVIOUS
<1>1. \A h \in Hosts : delivered[h] = <<>> /\ nic[h].unsent = <<>>
  BY DEF Init, NewInterface
<1>2. \A h, to \in Hosts : Waiting(nic[h], to) = <<>>
  BY <1>1 DEF Waiting
<1>3. wire = <<>> /\ DOMAIN <<>> = {}
  BY SMTT(30) DEF Init
<1>4. \A h, to \in Hosts : FlowOK(h, to)
  BY <1>1, <1>2, <1>3 DEF FlowOK, QueueOK, WireOK, ArrivedOK
<1>5. ArrivesOnceAtItsHop
  BY <1>1, <1>3, ZenonT(40) DEF ArrivesOnceAtItsHop
<1>6. QED
  BY <1>4, <1>5 DEF OrderInv

\* In a step nothing arrives, only datagrams from h to a host join the wire,
\* and of the queues only the one between these two changes.
OnlyFlow(off, frames, x, h, to) ==
    /\ delivered' = delivered /\ wire' \in Seq(Entries)
    /\ frames \in Seq(Frames) /\ GrewTo(off, frames, x)
    /\ \A j \in DOMAIN frames : frames[j].type = "IPv4" =>
           frames[j].payload.src = h /\ frames[j].payload.dst = to
    /\ \A g \in Hosts : g # h => nic'[g] = nic[g]
    /\ \A ip \in Hosts : ip # to => /\ Waiting(nic'[h], ip) = Waiting(nic[h], ip)
                                   /\ IsCached(nic'[h], ip) = IsCached(nic[h], ip)
    /\ \A g \in Hosts : /\ Len(submitted'[g]) \in Nat
                        /\ Len(submitted[g]) =< Len(submitted'[g])

\* Such a step keeps the order if it keeps that of the flow from h to the host.
LEMMA OtherFlowsKept ==
    ASSUME TypeInv, OrderInv, NEW off, NEW x, NEW frames, NEW h \in Hosts, NEW to,
           OnlyFlow(off, frames, x, h, to), to \in Hosts => FlowOK(h, to)'
    PROVE  OrderInv'
<1> USE DEF OnlyFlow
<1>1. ASSUME NEW g \in Hosts, NEW t \in Hosts
      PROVE  FlowOK(g, t)'
  <2>1. CASE g = h /\ t = to
    BY <2>1, SMTT(30)
  <2>2. CASE ~(g = h /\ t = to)
    <3>1. \A j \in DOMAIN frames : ~InFlow(frames[j], g, t)
      BY <2>2, ZenonT(40) DEF InFlow
    <3>2. /\ Waiting(nic'[g], t) = Waiting(nic[g], t)
          /\ IsCached(nic'[g], t) => IsCached(nic[g], t)
      BY <2>2, SMTT(30)
    <3>3. \A i \in DOMAIN delivered'[t] : delivered'[t][i].src = g =>
             \E j \in DOMAIN delivered[t] : delivered'[t][i] = delivered[t][j]
      BY ZenonT(40)
    <3>4. FlowOK(g, t)
      BY SMTT(30) DEF OrderInv
    <3>5. QED
      BY <3>1, <3>2, <3>3, <3>4, FlowKept, ZenonT(40)
  <2>3. QED
    BY <2>1, <2>2, ZenonT(40)
<1>2. ArrivesOnceAtItsHop'
  BY ZenonT(40) DEF OrderInv, ArrivesOnceAtItsHop
<1>3. QED
  BY <1>1, <1>2, ZenonT(40) DEF OrderInv

\* send_datagram puts a datagram behind all earlier ones of its flow.
LEMMA SendOrder ==
    ASSUME TypeInv, OrderInv, NEW h \in Hosts, NEW to \in Hosts, Send(h, to)
    PROVE  OrderInv'
<1> DEFINE dgram == [src |-> h, dst |-> to, id |-> Len(submitted[h])]
           frames == send_datagram(nic[h], dgram, to).frames_out
<1>1. /\ frames \in Seq(Frames) /\ GrewTo(0, frames, h) /\ wire' \in Seq(Entries)
      /\ \A g \in Hosts : g # h => nic'[g] = nic[g]
      /\ \A ip : IsCached(nic'[h], ip) = IsCached(nic[h], ip)
      /\ \A ip : ip # to => Waiting(nic'[h], ip) = Waiting(nic[h], ip)
      /\ IsCached(nic[h], to) =>
           Len(frames) = 1 /\ frames[1].type = "IPv4" /\ frames[1].payload = dgram
      /\ ~IsCached(nic[h], to) => \A j \in DOMAIN frames : frames[j].type # "IPv4"
  BY SendEffects, ZenonT(40)
<1>2. delivered' = delivered /\ submitted' = [submitted EXCEPT ![h] = Append(submitted[h], dgram)]
  BY DEF Send
<1>3. dgram.src = h /\ dgram.dst = to
  BY SMTT(30)
<1> HIDE DEF frames, dgram
<1>4. \A j \in DOMAIN frames : frames[j].type = "IPv4" =>
         frames[j].payload.src = h /\ frames[j].payload.dst = to
  <2>1. DOMAIN frames = 1 .. Len(frames)
    BY <1>1
  <2>2. QED
    BY <1>1, <1>3, <2>1, SMTT(30)
<1>5. \A g \in Hosts : Len(submitted'[g]) \in Nat /\ Len(submitted[g]) =< Len(submitted'[g])
  <2> TAKE g \in Hosts
  <2>1. submitted[g] \in Seq(Dgrams) /\ submitted'[g] = IF g = h THEN Append(submitted[g], dgram) ELSE submitted[g]
    BY <1>2 DEF TypeInv
  <2>2. QED
    BY <2>1
<1>6. FlowOK(h, to)'
  BY SendFlow DEF OrderInv
<1>7. /\ frames \in Seq(Frames) /\ GrewTo(0, frames, h) /\ wire' \in Seq(Entries)
      /\ \A g \in Hosts : g # h => nic'[g] = nic[g]
      /\ \A ip \in Hosts : ip # to => /\ Waiting(nic'[h], ip) = Waiting(nic[h], ip)
                                      /\ IsCached(nic'[h], ip) = IsCached(nic[h], ip)
  BY <1>1, Zenon
<1>8. delivered' = delivered
  BY <1>2, Zenon
<1>9. OnlyFlow(0, frames, h, h, to)
  BY <1>4, <1>5, <1>7, <1>8, Zenon DEF OnlyFlow
<1>10. QED
  BY <1>6, <1>9, OtherFlowsKept, Zenon

\* recv_frame sends what waits for an address in order and empties the queue,
\* and passes a datagram up behind the earlier ones of its flow.
LEMMA DeliverOrder ==
    ASSUME TypeInv, OrderInv, NEW h \in Hosts, Deliver(h)
    PROVE  OrderInv'
<1> DEFINE frame == wire[1].frame
           d == frame.payload
           ip == frame.payload.sender_ip
           w == Waiting(nic[h], ip)
           frames == recv_frame(nic[h], frame).frames_out
           off == IF wire[1].hearers = {h} THEN 1 ELSE 0
<1>1. /\ frames \in Seq(Frames)
      /\ \A g \in Hosts : g # h => nic'[g] = nic[g]
      /\ frame.type # "ARP" => nic' = nic /\ frames = <<>>
      /\ frame.type = "ARP" =>
           /\ \A x : x # ip => /\ IsCached(nic'[h], x) = IsCached(nic[h], x)
                               /\ Waiting(nic'[h], x) = Waiting(nic[h], x)
           /\ w \in Seq(Dgrams)
           /\ \A j \in 1 .. Len(w) : frames[j].type = "IPv4" /\ frames[j].payload = w[j]
           /\ \A j \in DOMAIN frames : j > Len(w) => frames[j].type = "ARP"
  BY DeliverEffects, ZenonT(40)
<1>2. /\ GrewTo(off, frames, h) /\ wire' \in Seq(Entries) /\ frame \in Frames
  BY DeliverStep, Zenon
<1>3. /\ submitted' = submitted
      /\ delivered' = IF PassesUp(nic[h], frame)
                      THEN [delivered EXCEPT ![h] = Append(delivered[h], d)] ELSE delivered
  BY ZenonT(40) DEF Deliver
<1>4. \A g \in Hosts : Len(submitted'[g]) \in Nat /\ Len(submitted[g]) =< Len(submitted'[g])
  BY <1>3, FlowNumbers
<1> HIDE DEF frames, off
<1>5. CASE PassesUp(nic[h], frame)
  <2>1. /\ d \in Dgrams /\ d.dst = h /\ Carries(wire[1], d.src, h)
        /\ frame.type = "IPv4" /\ 1 \in DOMAIN wire
    BY <1>5, PassedUpAtItsHop, DeliverStep, ZenonT(40)
  <2>2. nic' = nic /\ frames = <<>> /\ DOMAIN frames = {}
    BY <1>1, <2>1
  <2>3. delivered' = [delivered EXCEPT ![h] = Append(delivered[h], d)]
    BY <1>3, <1>5
  <2>4. ASSUME NEW g \in Hosts, NEW t \in Hosts
        PROVE  FlowOK(g, t)'
    <3>1. FlowOK(g, t)
      BY DEF OrderInv
    <3>2. CASE t = h
      BY <1>5, <3>1, <3>2, PassUpFlow
    <3>3. CASE t # h
      <4>1. delivered'[t] = delivered[t]
        BY <2>3, <3>3 DEF TypeInv
      <4>2. \A i \in DOMAIN delivered'[t] : delivered'[t][i].src = g =>
               \E j \in DOMAIN delivered[t] : delivered'[t][i] = delivered[t][j]
        BY <4>1
      <4>3. \A j \in DOMAIN frames : ~InFlow(frames[j], g, t)
        BY <2>2
      <4>4. QED
        BY <1>1, <1>2, <1>4, <2>2, <3>1, <4>2, <4>3, FlowKept, ZenonT(40)
    <3>4. QED
      BY <3>2, <3>3
  <2>5. ArrivesOnceAtItsHop'
    <3> SUFFICES ASSUME NEW t \in Hosts, NEW i \in DOMAIN delivered'[t]
                 PROVE  /\ delivered'[t][i].dst = t
                        /\ \A j \in 1 .. i - 1 : delivered'[t][j].src = delivered'[t][i].src
                              => delivered'[t][j].id < delivered'[t][i].id
      BY DEF ArrivesOnceAtItsHop
    <3>1. ArrivesOnceAtItsHop
      BY DEF OrderInv
    <3>2. CASE t # h
      <4>1. delivered'[t] = delivered[t]
        BY <2>3, <3>2, ZenonT(40) DEF TypeInv
      <4>2. QED
        BY <3>1, <4>1 DEF ArrivesOnceAtItsHop
    <3>3. CASE t = h
      <4> HIDE DEF d
      <4> DEFINE a == delivered[h]
      <4>1. delivered'[h] = Append(a, d) /\ a \in Seq(Dgrams)
        BY <2>3, SMTT(30) DEF TypeInv
      <4> HIDE DEF a
      <4>2. /\ Len(a) \in Nat /\ DOMAIN a = 1 .. Len(a)
            /\ i \in 1 .. Len(a) + 1
            /\ \A j \in 1 .. Len(a) : delivered'[h][j] = a[j]
            /\ delivered'[h][Len(a) + 1] = d
        BY <2>1, <3>3, <4>1, SMTT(30)
      <4>3. CASE i \in 1 .. Len(a)
        <5>1. \A j \in 1 .. i - 1 : j \in 1 .. Len(a)
          BY <4>2, <4>3
        <5>2. QED
          BY <3>1, <3>3, <4>2, <4>3, <5>1, ZenonT(40) DEF ArrivesOnceAtItsHop, a
      <4>4. CASE i = Len(a) + 1
        <5>1. \A j \in 1 .. i - 1 : j \in 1 .. Len(a)
          BY <4>2, <4>4
        <5>2. d.src \in Hosts
          BY <2>1 DEF Dgrams
        <5>3. FlowOK(d.src, h)
          BY <5>2, ZenonT(40) DEF OrderInv
        <5>4. \A j \in DOMAIN a : a[j].src = d.src => a[j].id < d.id
          BY <2>1, <5>3, SMTT(30) DEF FlowOK, WireOK, a, d
        <5>5. delivered'[t][i] = d /\ d.dst = t
          BY <2>1, <3>3, <4>2, <4>4, Zenon
        <5>6. \A j \in 1 .. i - 1 : j \in DOMAIN a /\ delivered'[t][j] = a[j]
          BY <3>3, <4>2, <5>1, ZenonT(40)
        <5>7. QED
          BY <5>4, <5>5, <5>6, Zenon
      <4>5. QED
        BY <4>2, <4>3, <4>4
    <3>4. QED
      BY <3>2, <3>3
  <2>6. QED
    BY <2>4, <2>5 DEF OrderInv
<1>6. CASE ~PassesUp(nic[h], frame) /\ frame.type # "ARP"
  <2>1. nic' = nic /\ frames = <<>> /\ DOMAIN frames = {} /\ delivered' = delivered
    BY <1>1, <1>3, <1>6
  <2>2. ASSUME NEW g \in Hosts, NEW t \in Hosts
        PROVE  FlowOK(g, t)'
    <3>1. FlowOK(g, t)
      BY DEF OrderInv
    <3>2. \A i \in DOMAIN delivered'[t] : delivered'[t][i].src = g =>
             \E j \in DOMAIN delivered[t] : delivered'[t][i] = delivered[t][j]
      BY <2>1
    <3>3. \A j \in DOMAIN frames : ~InFlow(frames[j], g, t)
      BY <2>1
    <3>4. QED
      BY <1>1, <1>2, <1>4, <2>1, <3>1, <3>2, <3>3, FlowKept, ZenonT(40)
  <2>3. ArrivesOnceAtItsHop'
    BY <2>1, ZenonT(40) DEF OrderInv, ArrivesOnceAtItsHop
  <2>4. QED
    BY <2>2, <2>3 DEF OrderInv
<1>7. CASE frame.type = "ARP"
  <2>1. PICK from \in Hosts : from = ip
    BY <1>2, <1>7, FrameHosts
  <2>2. delivered' = delivered
    BY <1>3, <1>7 DEF PassesUp
  <2>3. FlowOK(h, from)'
    BY <1>7, <2>1, FlushFlow, SMTT(30) DEF OrderInv
  <2>4. \A j \in DOMAIN frames : frames[j].type = "IPv4" =>
           frames[j].payload.src = h /\ frames[j].payload.dst = from
    <3>1. \A j \in DOMAIN w : w[j].src = h /\ w[j].dst = ip
      BY WaitingTyped, ZenonT(40) DEF TypeInv
    <3>2. DOMAIN frames = 1 .. Len(frames) /\ DOMAIN w = 1 .. Len(w) /\ Len(w) \in Nat
      BY <1>1, <1>7
    <3> SUFFICES ASSUME NEW j \in DOMAIN frames, frames[j].type = "IPv4"
                 PROVE  frames[j].payload.src = h /\ frames[j].payload.dst = from
      OBVIOUS
    <3>3. j \in 1 .. Len(w)
      <4>1. ~(j > Len(w))
        BY <1>1, <1>7, Zenon
      <4>2. QED
        BY <3>2, <4>1
    <3>4. frames[j].payload = w[j] /\ j \in DOMAIN w
      BY <1>1, <1>7, <3>2, <3>3, Zenon
    <3>5. QED
      BY <2>1, <3>1, <3>4, ZenonT(40)
  <2>5. \A x \in Hosts : x # from => /\ Waiting(nic'[h], x) = Waiting(nic[h], x)
                                     /\ IsCached(nic'[h], x) = IsCached(nic[h], x)
    BY <1>1, <1>7, <2>1, Zenon
  <2>6. frames \in Seq(Frames) /\ \A g \in Hosts : g # h => nic'[g] = nic[g]
    BY <1>1, Zenon
  <2>7. OnlyFlow(off, frames, h, h, from)
    BY <1>2, <1>4, <2>2, <2>4, <2>5, <2>6, Zenon DEF OnlyFlow
  <2>8. QED
    BY <2>3, <2>7, OtherFlowsKept, Zenon
<1>8. QED
  BY <1>5, <1>6, <1>7

\* A step that changes neither the wire nor the histories, or takes a frame
\* from the wire.
LEMMA QuietOrder ==
    ASSUME TypeInv, OrderInv, delivered' = delivered, submitted' = submitted,
           NEW off, GrewTo(off, <<>>, 0), wire' \in Seq(Entries),
           \A g, t \in Hosts : \/ Waiting(nic'[g], t) = <<>>
                               \/ /\ Waiting(nic'[g], t) = Waiting(nic[g], t)
                                  /\ IsCached(nic'[g], t) => IsCached(nic[g], t)
    PROVE  OrderInv'
<1>1. ASSUME NEW g \in Hosts, NEW t \in Hosts
      PROVE  FlowOK(g, t)'
  <2>1. FlowOK(g, t)
    BY DEF OrderInv
  <2>2. \A i \in DOMAIN delivered'[t] : delivered'[t][i].src = g =>
           \E j \in DOMAIN delivered[t] : delivered'[t][i] = delivered[t][j]
    OBVIOUS
  <2>3. <<>> \in Seq(Frames) /\ \A j \in DOMAIN <<>> : ~InFlow((<<>>)[j], g, t)
    BY SMTT(30)
  <2>4. Len(submitted'[g]) \in Nat /\ Len(submitted[g]) =< Len(submitted'[g])
    BY FlowNumbers, SMTT(30)
  <2>5. QED
    BY <2>1, <2>2, <2>3, <2>4, FlowKept, ZenonT(40)
<1>2. ArrivesOnceAtItsHop'
  BY DEF OrderInv, ArrivesOnceAtItsHop
<1>3. QED
  BY <1>1, <1>2 DEF OrderInv

\* A step that leaves the wire alone.
LEMMA NothingGrew ==
    ASSUME wire \in Seq(Entries), wire' = wire
    PROVE  GrewTo(0, <<>>, 0) /\ wire' \in Seq(Entries)
BY SMTT(30) DEF GrewTo

\* The steps other than Send and Deliver put nothing on the wire and into the
\* histories; a host forgets what waits only with its interface.
LEMMA QuietSteps ==
    ASSUME TypeInv,
           \/ Lose
           \/ \E ms \in 1 .. ARP_CACHE_TIMEOUT : Tick(ms)
           \/ \E h \in setting.replaceable : Replace(h)
           \/ UNCHANGED vars
    PROVE  /\ delivered' = delivered /\ submitted' = submitted /\ wire' \in Seq(Entries)
           /\ \E off \in {0, 1} : GrewTo(off, <<>>, 0)
           /\ \A g, t \in Hosts : \/ Waiting(nic'[g], t) = <<>>
                                  \/ /\ Waiting(nic'[g], t) = Waiting(nic[g], t)
                                     /\ IsCached(nic'[g], t) => IsCached(nic[g], t)
<1>1. wire \in Seq(Entries)
  BY SMTT(30) DEF TypeInv
<1>2. CASE Lose
  <2>1. GrewTo(1, <<>>, 0) /\ wire' \in Seq(Entries)
    BY <1>2, LoseStep
  <2>2. delivered' = delivered /\ submitted' = submitted /\ nic' = nic
    BY <1>2, SMTT(30) DEF Lose
  <2>3. QED
    BY <2>1, <2>2
<1>3. CASE \E ms \in 1 .. ARP_CACHE_TIMEOUT : Tick(ms)
  <2>1. PICK ms \in 1 .. ARP_CACHE_TIMEOUT : Tick(ms)
    BY <1>3
  <2>2. ms \in Nat /\ now \in Nat
    BY TimeoutAssumption DEF TypeInv
  <2>3. /\ nic' = [h \in Hosts |-> tick(nic[h], ms)]
        /\ wire' = wire /\ delivered' = delivered /\ submitted' = submitted
    BY <2>1, ZenonT(40) DEF Tick
  <2>4. \A g \in Hosts : /\ nic'[g].cache = nic[g].cache /\ nic'[g].unsent = nic[g].unsent
                         /\ nic'[g].now = now + ms /\ nic[g].now = now
                         /\ \A ip \in DOMAIN nic[g].cache : nic[g].cache[ip].at \in 0 .. now
    <3>1. \A g \in Hosts : /\ nic'[g].cache = nic[g].cache /\ nic'[g].unsent = nic[g].unsent
                           /\ nic'[g].now = now + ms
      BY <2>2, <2>3, TickTypedHost DEF TypeInv
    <3>2. \A g \in Hosts : InterfaceOK(nic[g], g, Len(replaced_at[g]), now)
      BY DEF TypeInv
    <3>3. QED
      BY <3>1, <3>2, SMTT(30) DEF InterfaceOK
  <2>5. \A g, t \in Hosts : /\ Waiting(nic'[g], t) = Waiting(nic[g], t)
                            /\ IsCached(nic'[g], t) => IsCached(nic[g], t)
    <3> TAKE g, t \in Hosts
    <3>1. Waiting(nic'[g], t) = Waiting(nic[g], t)
      BY <2>4 DEF Waiting
    <3>2. ASSUME IsCached(nic'[g], t) PROVE IsCached(nic[g], t)
      <4>1. /\ t \in DOMAIN nic[g].cache /\ nic[g].cache[t].at \in 0 .. now /\ nic[g].now = now
            /\ (now + ms) - nic[g].cache[t].at < ARP_CACHE_TIMEOUT
        BY <2>4, <3>2 DEF IsCached
      <4>2. now - nic[g].cache[t].at < ARP_CACHE_TIMEOUT
        BY <2>2, <4>1, TimeoutAssumption, SMTT(30)
      <4>3. QED
        BY <4>1, <4>2, SMTT(30) DEF IsCached
    <3>3. QED
      BY <3>1, <3>2
  <2>6. QED
    BY <1>1, <2>3, <2>5, NothingGrew
<1>4. CASE \E h \in setting.replaceable : Replace(h)
  <2>1. PICK h \in setting.replaceable : Replace(h)
    BY <1>4
  <2>2. /\ h \in Hosts /\ nic'[h].unsent = <<>>
        /\ nic' = [g \in Hosts |-> IF g = h THEN nic'[h] ELSE nic[g]]
    BY <2>1, ReplaceStep
  <2>3. wire' = wire /\ delivered' = delivered /\ submitted' = submitted
    BY <2>1 DEF Replace
  <2>4. \A t \in Hosts : Waiting(nic'[h], t) = <<>>
    BY <2>2 DEF Waiting
  <2>5. \A g \in Hosts : g # h => nic'[g] = nic[g]
    BY <2>2
  <2>6. QED
    BY <1>1, <2>3, <2>4, <2>5, NothingGrew, ZenonT(40)
<1>5. CASE UNCHANGED vars
  BY <1>1, <1>5, NothingGrew, ZenonT(40) DEF vars
<1>6. QED
  BY <1>2, <1>3, <1>4, <1>5

\* Every step keeps the datagrams in order.
LEMMA NextOrder == TypeInv /\ OrderInv /\ [Next]_vars => OrderInv'
<1> SUFFICES ASSUME TypeInv, OrderInv, [Next]_vars PROVE OrderInv'
  OBVIOUS
<1>1. CASE \E h, to \in Hosts : Send(h, to)
  BY <1>1, SendOrder
<1>2. CASE \E h \in Hosts : Deliver(h)
  BY <1>2, DeliverOrder, ZenonT(40)
<1>3. CASE \/ Lose
           \/ \E ms \in 1 .. ARP_CACHE_TIMEOUT : Tick(ms)
           \/ \E h \in setting.replaceable : Replace(h)
           \/ UNCHANGED vars
  BY <1>3, QuietSteps, QuietOrder
<1>4. QED
  BY <1>1, <1>2, <1>3 DEF Next

\* The datagrams are in order in all reachable states.
LEMMA AlwaysOrder == Spec => []OrderInv
BY InitOrder, NextOrder, AlwaysTyped, PTL DEF Spec

\* A datagram is passed up by recv_frame only at the host it was sent to, at
\* most once and in the order of the calls of send_datagram, whatever frames
\* are lost and whichever interfaces are replaced.
THEOREM ArrivesOnce == Spec => []ArrivesOnceAtItsHop
<1>1. OrderInv => ArrivesOnceAtItsHop
  BY DEF OrderInv
<1>2. QED
  BY <1>1, AlwaysOrder, PTL
=============================================================================
