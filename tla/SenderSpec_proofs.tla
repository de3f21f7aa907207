------------------------- MODULE SenderSpec_proofs -------------------------
(***************************************************************************)
(* The invariants of a TCPSender and the peer that acknowledges, proved    *)
(* for every stream, window, timeout and initial sequence number: from     *)
(* what the calls of the sender keep (module TCPSender_proofs) and from    *)
(* what is known of the acknowledgments in the network.                    *)
(***************************************************************************)
EXTENDS TCPSender_proofs

-----------------------------------------------------------------------------
(* Acknowledgments. *)

\* What is kept does not depend on how long ago it was sent.
LEMMA CacheAges ==
    ASSUME NEW cache, NEW una, NEW next, CacheOK(cache, una, next),
           NEW c \in Seq([age : Nat, seg : Segments]), Len(c) = Len(cache),
           \A i \in 1 .. Len(cache) : c[i].seg = cache[i].seg
    PROVE  CacheOK(c, una, next)
<1> DEFINE entries == [age : Nat, seg : Segments]
           len == Len(cache)
<1>1. cache \in Seq(entries) /\ c \in Seq(entries)
  BY DEF CacheOK
<1> HIDE DEF entries
<1>2. /\ DOMAIN cache = 1 .. len /\ DOMAIN c = 1 .. len /\ len \in Nat
      /\ cache = <<>> <=> len = 0
      /\ c = <<>> <=> len = 0
  BY <1>1
<1>3. len # 0 => 1 \in 1 .. len /\ len \in 1 .. len
  BY <1>2
<1>4. \A i \in 1 .. len - 1 : i \in 1 .. len /\ i + 1 \in 1 .. len
  BY <1>2
<1>5. \A i \in DOMAIN c : SegmentOK(c[i].seg, next)
  BY <1>2, Zenon DEF CacheOK
<1>6. c = <<>> => una = next
  BY <1>2, Zenon DEF CacheOK
<1>7. c # <<>> => /\ At(c[1].seg.seqno) =< una /\ una < EndOf(c[1].seg)
                  /\ EndOf(c[Len(c)].seg) = next
  BY <1>2, <1>3, Zenon DEF CacheOK
<1>8. \A i \in 1 .. Len(c) - 1 : At(c[i + 1].seg.seqno) = EndOf(c[i].seg)
  BY <1>4, Zenon DEF CacheOK
<1>9. QED
  BY <1>1, <1>5, <1>6, <1>7, <1>8, Zenon DEF CacheOK, entries

\* The timer starts again with the oldest segment.
FirstAgain(cache) == [cache EXCEPT ![1] = [age |-> 0, seg |-> cache[1].seg]]

\* So what is kept stays in order when its timer starts again.
LEMMA AgesAgain ==
    ASSUME NEW cache, NEW una, NEW next, CacheOK(cache, una, next), cache # <<>>
    PROVE  CacheOK(FirstAgain(cache), una, next)
<1> DEFINE entries == [age : Nat, seg : Segments]
           c == FirstAgain(cache)
           e == [age |-> 0, seg |-> cache[1].seg]
<1>1. cache \in Seq(entries) /\ Len(cache) \in Nat /\ 1 \in 1 .. Len(cache)
      /\ DOMAIN cache = 1 .. Len(cache)
  BY DEF CacheOK
<1>2. e \in entries /\ e.seg = cache[1].seg
  BY <1>1, Zenon DEF CacheOK, SegmentOK
<1> HIDE DEF e, entries
<1>3. c = [cache EXCEPT ![1] = e]
  BY DEF FirstAgain, e
<1>4. c \in Seq(entries) /\ Len(c) = Len(cache)
  BY <1>1, <1>2, <1>3
<1>5. \A i \in 1 .. Len(cache) : c[i].seg = cache[i].seg
  <2> TAKE i \in 1 .. Len(cache)
  <2>1. CASE i = 1
    BY <1>1, <1>2, <1>3, <2>1
  <2>2. CASE i # 1
    BY <1>1, <1>2, <1>3, <2>2
  <2>3. QED
    BY <2>1, <2>2
<1> HIDE DEF c
<1>6. CacheOK(c, una, next)
  BY <1>4, <1>5, CacheAges, Zenon DEF entries
<1>7. QED
  BY <1>6 DEF c

\* What an acknowledgment does not change of a sender.
SameSent(x, y) ==
    /\ IsSender(y)
    /\ y.isn = x.isn /\ y.segments_out = x.segments_out /\ y.stream = x.stream
    /\ y.next_seqno = x.next_seqno /\ y.initial_timeout = x.initial_timeout
    /\ y.syned = x.syned /\ y.fin = x.fin

Windowed(x, win, used) == [x EXCEPT !.window_size = win, !.window_used = used]

Moved(x, ackno) == [x EXCEPT !.timeout = x.initial_timeout, !.retransmissions = 0,
                             !.latest_ackno = ackno]

\* The members that an acknowledgment sets.
LEMMA Windowing ==
    ASSUME NEW x, IsSender(x), NEW win, NEW used
    PROVE  LET y == Windowed(x, win, used)
           IN  /\ SameSent(x, y) /\ y.window_size = win /\ y.window_used = used
               /\ y.cache = x.cache /\ y.latest_ackno = x.latest_ackno
               /\ y.timeout = x.timeout /\ y.retransmissions = x.retransmissions
<1> DEFINE y1 == [x EXCEPT !.window_size = win]
           y2 == [y1 EXCEPT !.window_used = used]
<1>1. Windowed(x, win, used) = y2
  BY Zenon DEF Windowed
<1>2. /\ SameSent(x, y1) /\ y1.window_size = win
      /\ y1.cache = x.cache /\ y1.latest_ackno = x.latest_ackno
      /\ y1.timeout = x.timeout /\ y1.retransmissions = x.retransmissions
  BY DEF SameSent, IsSender
<1> HIDE DEF y1
<1>3. /\ SameSent(x, y2) /\ y2.window_size = win /\ y2.window_used = used
      /\ y2.cache = x.cache /\ y2.latest_ackno = x.latest_ackno
      /\ y2.timeout = x.timeout /\ y2.retransmissions = x.retransmissions
  BY <1>2 DEF SameSent, IsSender
<1>4. QED
  BY <1>1, <1>3, Zenon

\* A newer acknowledgment resets the timeout and moves nothing that was sent.
LEMMA Moving ==
    ASSUME NEW x, IsSender(x), NEW ackno
    PROVE  LET y == Moved(x, ackno)
           IN  /\ SameSent(x, y) /\ y.latest_ackno = ackno
               /\ y.timeout = x.initial_timeout /\ y.retransmissions = 0
               /\ y.cache = x.cache /\ y.window_size = x.window_size
               /\ y.window_used = x.window_used
<1> DEFINE y1 == [x EXCEPT !.timeout = x.initial_timeout]
           y2 == [y1 EXCEPT !.retransmissions = 0]
           y3 == [y2 EXCEPT !.latest_ackno = ackno]
<1>1. Moved(x, ackno) = y3
  BY Zenon DEF Moved
<1>2. /\ SameSent(x, y1) /\ y1.timeout = x.initial_timeout
      /\ y1.cache = x.cache /\ y1.window_size = x.window_size
      /\ y1.window_used = x.window_used
  BY DEF SameSent, IsSender
<1> HIDE DEF y1
<1>3. /\ SameSent(x, y2) /\ y2.timeout = x.initial_timeout /\ y2.retransmissions = 0
      /\ y2.cache = x.cache /\ y2.window_size = x.window_size
      /\ y2.window_used = x.window_used
  BY <1>2 DEF SameSent, IsSender
<1> HIDE DEF y2
<1>4. /\ SameSent(x, y3) /\ y3.latest_ackno = ackno
      /\ y3.timeout = x.initial_timeout /\ y3.retransmissions = 0
      /\ y3.cache = x.cache /\ y3.window_size = x.window_size
      /\ y3.window_used = x.window_used
  BY <1>3 DEF SameSent, IsSender
<1>5. QED
  BY <1>1, <1>4, Zenon

\* A new cache, and everything else as it was.
Recached(x, c) == [x EXCEPT !.cache = c]

SameButCache(x, y) ==
    /\ SameSent(x, y)
    /\ y.window_size = x.window_size /\ y.window_used = x.window_used
    /\ y.latest_ackno = x.latest_ackno
    /\ y.timeout = x.timeout /\ y.retransmissions = x.retransmissions

\* Only what is kept changes, as by remove_acked_seg.
LEMMA Recaching ==
    ASSUME NEW x, IsSender(x), NEW c
    PROVE  SameButCache(x, Recached(x, c)) /\ Recached(x, c).cache = c
BY DEF SameButCache, SameSent, IsSender, Recached

\* RestartTimer changes the age of the oldest segment only.
LEMMA Restarting ==
    ASSUME NEW x, IsSender(x), NEW una, NEW next, CacheOK(x.cache, una, next)
    PROVE  LET y == RestartTimer(x) IN SameButCache(x, y) /\ CacheOK(y.cache, una, next)
<1>1. CASE x.cache = <<>>
  <2>1. RestartTimer(x) = x
    BY <1>1 DEF RestartTimer
  <2>2. QED
    BY <2>1, Zenon DEF SameButCache, SameSent
<1>2. CASE x.cache # <<>>
  <2>1. RestartTimer(x) = Recached(x, FirstAgain(x.cache))
    <3>1. RestartTimer(x) = [x EXCEPT !.cache[1].age = 0]
      BY <1>2, Zenon DEF RestartTimer
    <3>2. x.cache[1] = [age |-> x.cache[1].age, seg |-> x.cache[1].seg]
      <4> DEFINE entries == [age : Nat, seg : Segments]
      <4>1. 1 \in DOMAIN x.cache /\ x.cache \in Seq(entries)
        BY <1>2 DEF CacheOK
      <4> HIDE DEF entries
      <4>2. x.cache[1] \in entries
        BY <4>1
      <4>3. QED
        BY <4>2 DEF entries
    <3>3. [x.cache[1] EXCEPT !.age = 0] = [age |-> 0, seg |-> x.cache[1].seg]
      BY <3>2
    <3>4. [x.cache EXCEPT ![1].age = 0] = FirstAgain(x.cache)
      BY <3>3, Zenon DEF FirstAgain
    <3>5. QED
      BY <3>1, <3>4, Zenon DEF Recached
  <2>2. QED
    BY <1>2, <2>1, Recaching, AgesAgain, ZenonT(40)
<1>3. QED
  BY <1>1, <1>2

\* The numbers that ack_received compares.
LEMMA AckNumbers ==
    ASSUME NEW x, SenderOK(x), NEW ackno \in Raw, At(ackno) =< x.next_seqno, NEW win \in Nat
    PROVE  /\ IsIgnored(x, ackno) <=> At(x.latest_ackno) > At(ackno)
           /\ UsedAfter(x, ackno, win) \in Nat
           /\ At(ackno) + UsedAfter(x, ackno, win) =< x.next_seqno
           /\ At(x.latest_ackno) + x.window_used = x.next_seqno /\ x.next_seqno =< At(ackno) + win
                => At(ackno) + UsedAfter(x, ackno, win) = x.next_seqno
<1> DEFINE next == x.next_seqno
           una == At(x.latest_ackno)
           used == x.window_used
           b == At(ackno)
           r == Plus(x.latest_ackno, x.window_used)
<1>1. /\ next \in 0 .. StreamLen + 2 /\ next < U32 /\ una \in 0 .. next /\ used \in Nat
      /\ x.latest_ackno \in Raw /\ una + used =< next /\ x.isn = Isn /\ StreamLen \in Nat
      /\ U32 \in Nat
  BY Bounds, Widths, ZenonT(40) DEF SenderOK, WindowOK
<1>2. b \in Nat
  BY AtIsSmall
<1>3. r \in Raw /\ At(r) = una + used
  <2>1. una + used < U32
    BY <1>1
  <2>2. QED
    BY <1>1, <2>1, Places
<1> HIDE DEF r
<1>4. AbsoluteOf(x, x.latest_ackno) = una /\ AbsoluteOf(x, ackno) = b /\ AbsoluteOf(x, r) = una + used
  <2>1. una =< StreamLen + 2 /\ b =< StreamLen + 2 /\ At(r) =< StreamLen + 2
    BY <1>1, <1>2, <1>3
  <2>2. AbsoluteOf(x, x.latest_ackno) = una
    BY <1>1, <2>1, Unwrapped
  <2>3. AbsoluteOf(x, ackno) = b
    BY <1>1, <2>1, Unwrapped
  <2>4. AbsoluteOf(x, r) = At(r)
    BY <1>1, <1>3, <2>1, Unwrapped
  <2>5. QED
    BY <1>3, <2>2, <2>3, <2>4
<1>5. UsedAfter(x, ackno, win) = LesserOf(IF una + used > b THEN una + used - b ELSE 0, win)
  <2>1. UsedAfter(x, ackno, win) =
            LesserOf(IF AbsoluteOf(x, r) > AbsoluteOf(x, ackno)
                     THEN AbsoluteOf(x, r) - AbsoluteOf(x, ackno) ELSE 0, win)
    BY DEF UsedAfter, r
  <2> DEFINE a == AbsoluteOf(x, r)
             e == AbsoluteOf(x, ackno)
  <2>2. a = una + used /\ e = b
    BY <1>4
  <2> DEFINE d == IF a > e THEN a - e ELSE 0
             g == IF una + used > b THEN una + used - b ELSE 0
  <2>3. UsedAfter(x, ackno, win) = LesserOf(d, win)
    BY <2>1, Zenon
  <2> HIDE DEF a, e, una, used, b
  <2>4. d = g
    BY <1>1, <1>2, <2>2
  <2> HIDE DEF d, g
  <2>5. UsedAfter(x, ackno, win) = LesserOf(g, win)
    BY <2>3, <2>4, Zenon
  <2>6. QED
    BY <2>5, Zenon DEF g
<1>6. IsIgnored(x, ackno) <=> una > b \/ b > next
  BY <1>4, Zenon DEF IsIgnored
<1>a. b =< next
  OBVIOUS
<1> HIDE DEF next, una, used, b
<1>7. IsIgnored(x, ackno) <=> una > b
  <2>1. ~(b > next)
    BY <1>1, <1>2, <1>a
  <2>2. QED
    BY <1>6, <2>1, Zenon
<1>8. /\ UsedAfter(x, ackno, win) \in Nat
      /\ b + UsedAfter(x, ackno, win) =< next
      /\ una + used = next /\ next =< b + win => b + UsedAfter(x, ackno, win) = next
  <2> DEFINE d == IF una + used > b THEN una + used - b ELSE 0
             u == UsedAfter(x, ackno, win)
  <2>1. d \in Nat /\ b + d =< next
    BY <1>1, <1>2, <1>a
  <2>2. una + used = next => b + d = next
    BY <1>1, <1>2, <1>a
  <2>3. u = LesserOf(d, win)
    BY <1>5
  <2> HIDE DEF d, u
  <2>4. u \in Nat /\ u =< d
    BY <2>1, <2>3 DEF LesserOf
  <2>5. b + u =< next
    BY <1>1, <1>2, <2>1, <2>4
  <2>6. b + d = next /\ next =< b + win => u = d
    BY <1>1, <1>2, <2>1, <2>3, SMTT(30) DEF LesserOf
  <2>7. QED
    BY <2>2, <2>4, <2>5, <2>6 DEF u
<1>9. QED
  BY <1>7, <1>8, Zenon DEF next, una, used, b

\* ack_received keeps the sender in order.  A sender that knows exactly how much
\* of the window is in use still does, after an acknowledgment that takes
\* neither end of the window back.
LEMMA AckKeeps ==
    ASSUME NEW x, SenderOK(x), NEW ackno \in Raw, NEW win \in Nat,
           At(ackno) > 0, At(ackno) =< x.next_seqno
    PROVE  LET y == ack_received(x, ackno, win)
           IN  /\ SenderOK(y) /\ y.next_seqno = x.next_seqno
               /\ y.latest_ackno \in {x.latest_ackno, ackno}
               /\ Tight(x) /\ win > 0 /\ At(x.latest_ackno) =< At(ackno)
                  /\ At(x.latest_ackno) + x.window_size =< At(ackno) + win
                  => Tight(y) /\ y.latest_ackno = ackno /\ y.window_size = win
<1> DEFINE used == UsedAfter(x, ackno, win)
           w == Windowed(x, win, used)
           v == Moved(w, ackno)
           kept == remove_acked_seg(v)
           y == ack_received(x, ackno, win)
           next == x.next_seqno
           una == At(x.latest_ackno)
           b == At(ackno)
<1>1. y = IF IsIgnored(x, ackno) THEN x ELSE IF ackno = x.latest_ackno THEN w
          ELSE RestartTimer(kept)
  BY Zenon DEF ack_received, Acknowledge, Windowed, Moved
<1>2. /\ next \in Nat /\ next \in 0 .. StreamLen + 2 /\ una \in Nat /\ una =< next /\ b \in Nat
      /\ x.window_used \in Nat /\ x.window_size \in Nat /\ next > 0
  <2>1. b \in Nat
    BY AtIsSmall
  <2>2. next \in 0 .. StreamLen + 2 /\ una \in 0 .. next /\ StreamLen \in Nat
    BY Bounds, Widths
  <2>3. x.window_used \in Nat /\ x.window_size \in Nat
    BY Bounds
  <2>4. QED
    BY <2>1, <2>2, <2>3
<1>3. /\ IsIgnored(x, ackno) <=> una > b
      /\ used \in Nat /\ b + used =< next
      /\ una + x.window_used = next /\ next =< b + win => b + used = next
  BY AckNumbers
<1> HIDE DEF used
<1>4. /\ IsSender(x) /\ x.isn = Isn /\ StreamOK(x.stream) /\ SentOK(x) /\ WindowOK(x)
      /\ CacheOK(x.cache, una, next)
      /\ x.segments_out \in Seq(Segments)
      /\ \A i \in DOMAIN x.segments_out : SegmentOK(x.segments_out[i], next)
      /\ x.timeout \in Nat /\ x.initial_timeout \in Nat /\ x.retransmissions \in Nat
  BY DEF SenderOK
<1>5. x.syned
  <2> SUFFICES ASSUME ~x.syned PROVE FALSE
    BY SMTT(30)
  <2>1. next = One(x.syned) + x.stream.popped + One(x.fin) /\ x.stream.popped = 0 /\ ~x.fin
    BY <1>4 DEF SentOK
  <2>2. One(x.syned) = 0 /\ One(x.fin) = 0
    BY <2>1 DEF One
  <2>3. QED
    BY <1>2, <2>1, <2>2
<1>6. ASSUME NEW z, SameSent(x, z), z.latest_ackno \in Raw, At(z.latest_ackno) = b,
             z.window_size = win, z.window_used = used, CacheOK(z.cache, b, next),
             z.timeout \in Nat, z.retransmissions \in Nat
      PROVE  /\ SenderOK(z) /\ z.next_seqno = next
             /\ Tight(x) /\ win > 0 /\ una =< b /\ una + x.window_size =< b + win => Tight(z)
  <2>1. SentOK(z)
    BY <1>4, <1>5, <1>6, Zenon DEF SentOK, SameSent
  <2>2. WindowOK(z)
    BY <1>3, <1>6 DEF WindowOK, SameSent
  <2>3. SenderOK(z)
    BY <1>4, <1>6, <2>1, <2>2, ZenonT(40) DEF SenderOK, SameSent
  <2>4. ASSUME Tight(x), win > 0, una =< b, una + x.window_size =< b + win
        PROVE  Tight(z)
    <3>1. una + x.window_used = next /\ next =< GreaterOf(2, una + x.window_size)
      BY <2>4 DEF Tight
    <3>2. b + win >= 2
      BY <1>2, <2>4
    <3>3. next =< b + win
      BY <1>2, <2>4, <3>1, <3>2, SMTT(30) DEF GreaterOf
    <3>4. next =< GreaterOf(2, b + win)
      BY <1>2, <3>2, <3>3 DEF GreaterOf
    <3>5. QED
      BY <1>3, <1>6, <2>4, <3>1, <3>3, <3>4, ZenonT(40) DEF Tight, SameSent
  <2>5. QED
    BY <1>6, <2>3, <2>4, SMTT(30) DEF SameSent
<1>7. CASE una > b
  <2>1. y = x
    BY <1>1, <1>3, <1>7, Zenon
  <2>2. ~(una =< b)
    BY <1>2, <1>7, SMTT(30)
  <2>3. QED
    BY <2>1, <2>2, Zenon
<1>a. /\ SameSent(x, w) /\ w.window_size = win /\ w.window_used = used
      /\ w.cache = x.cache /\ w.latest_ackno = x.latest_ackno
      /\ w.timeout = x.timeout /\ w.retransmissions = x.retransmissions
  BY <1>4, Windowing
<1>b. SameSent(w, v) /\ v.latest_ackno = ackno
      /\ v.timeout = w.initial_timeout /\ v.retransmissions = 0
      /\ v.cache = w.cache /\ v.window_size = w.window_size /\ v.window_used = w.window_used
  <2> HIDE DEF w
  <2>1. IsSender(w)
    BY <1>a DEF SameSent
  <2>2. QED
    BY <2>1, Moving
<1> HIDE DEF w, v
<1>8. CASE ~(una > b) /\ ackno = x.latest_ackno
  <2>1. y = w
    BY <1>1, <1>3, <1>8, ZenonT(40)
  <2>2. /\ w.latest_ackno \in Raw /\ At(w.latest_ackno) = b /\ CacheOK(w.cache, b, next)
        /\ w.timeout \in Nat /\ w.retransmissions \in Nat
    BY <1>4, <1>8, <1>a
  <2> HIDE DEF b, una, next, y
  <2>3. QED
    BY <1>6, <1>8, <1>a, <2>1, <2>2 DEF b, una, next, y
<1>9. CASE ~(una > b) /\ ackno # x.latest_ackno
  <2>1. y = RestartTimer(kept)
    BY <1>1, <1>3, <1>9, Zenon
  <2>2. /\ SameSent(x, v) /\ v.latest_ackno = ackno /\ v.cache = x.cache
        /\ v.window_size = win /\ v.window_used = used
        /\ v.timeout \in Nat /\ v.retransmissions \in Nat /\ IsSender(v)
        /\ v.next_seqno = next /\ v.isn = Isn
    BY <1>4, <1>a, <1>b DEF SameSent
  <2>3. PICK c : kept = [v EXCEPT !.cache = c] /\ CacheOK(c, b, next)
    <3>1. una =< b
      BY <1>2, <1>9
    <3>2. QED
      BY <1>2, <1>4, <2>2, <3>1, Removing, ZenonT(40)
  <2>4. kept = Recached(v, c)
    BY <2>3, Zenon DEF Recached
  <2> HIDE DEF kept
  <2>5. SameButCache(v, kept) /\ kept.cache = c
    BY <2>2, <2>4, Recaching, Zenon
  <2>6. SameButCache(kept, y) /\ CacheOK(y.cache, b, next)
    <3>1. IsSender(kept)
      BY <2>5 DEF SameButCache, SameSent
    <3>2. QED
      BY <2>1, <2>3, <2>5, <3>1, Restarting, Zenon
  <2>7. /\ SameSent(x, y) /\ y.latest_ackno = ackno /\ y.window_size = win /\ y.window_used = used
        /\ y.timeout \in Nat /\ y.retransmissions \in Nat
    BY <2>2, <2>5, <2>6, ZenonT(40) DEF SameButCache, SameSent
  <2> HIDE DEF y
  <2>8. QED
    BY <1>6, <2>6, <2>7 DEF y
<1>10. QED
  BY <1>7, <1>8, <1>9

-----------------------------------------------------------------------------
(* The clock, and the other calls. *)

\* What retransmit does not change of a sender.
SameStream(x, y) ==
    /\ IsSender(y)
    /\ y.isn = x.isn /\ y.stream = x.stream /\ y.next_seqno = x.next_seqno
    /\ y.window_size = x.window_size /\ y.window_used = x.window_used
    /\ y.latest_ackno = x.latest_ackno /\ y.initial_timeout = x.initial_timeout
    /\ y.syned = x.syned /\ y.fin = x.fin

Resent(x, out, c, n, t) ==
    [x EXCEPT !.segments_out = out, !.cache = c, !.retransmissions = n, !.timeout = t]

\* A retransmission leaves the stream and the numbers alone.
LEMMA Resending ==
    ASSUME NEW x, IsSender(x), NEW out, NEW c, NEW n, NEW t
    PROVE  LET y == Resent(x, out, c, n, t)
           IN  /\ SameStream(x, y) /\ y.segments_out = out /\ y.cache = c
               /\ y.retransmissions = n /\ y.timeout = t
<1> DEFINE y1 == [x EXCEPT !.segments_out = out]
           y2 == [y1 EXCEPT !.cache = c]
           y3 == [y2 EXCEPT !.retransmissions = n]
           y4 == [y3 EXCEPT !.timeout = t]
<1>1. Resent(x, out, c, n, t) = y4
  BY Zenon DEF Resent
<1>2. SameStream(x, y1) /\ y1.segments_out = out
  BY DEF SameStream, IsSender
<1> HIDE DEF y1
<1>3. SameStream(x, y2) /\ y2.segments_out = out /\ y2.cache = c
  BY <1>2 DEF SameStream, IsSender
<1> HIDE DEF y2
<1>4. SameStream(x, y3) /\ y3.segments_out = out /\ y3.cache = c /\ y3.retransmissions = n
  BY <1>3 DEF SameStream, IsSender
<1> HIDE DEF y3
<1>5. /\ SameStream(x, y4) /\ y4.segments_out = out /\ y4.cache = c /\ y4.retransmissions = n
      /\ y4.timeout = t
  BY <1>4 DEF SameStream, IsSender
<1>6. QED
  BY <1>1, <1>5, Zenon

\* A sender that differs from one in order in what it sends again, in the ages
\* of what it keeps, and in its timer.
LEMMA StillOK ==
    ASSUME NEW x, SenderOK(x), NEW y, SameStream(x, y),
           CacheOK(y.cache, At(x.latest_ackno), x.next_seqno),
           y.segments_out \in Seq(Segments),
           \A i \in DOMAIN y.segments_out : SegmentOK(y.segments_out[i], x.next_seqno),
           y.timeout \in Nat, y.retransmissions \in Nat
    PROVE  SenderOK(y) /\ Further(x, y, 0) /\ (Tight(x) => Tight(y))
<1>1. /\ x.isn = Isn /\ StreamOK(x.stream) /\ SentOK(x) /\ WindowOK(x) /\ x.initial_timeout \in Nat
  BY Zenon DEF SenderOK
<1>a. x.next_seqno \in Nat /\ x.window_used \in Nat
  BY Bounds, Widths
<1>2. SentOK(y)
  BY <1>1, Zenon DEF SentOK, SameStream
<1>3. WindowOK(y)
  BY <1>1, Zenon DEF WindowOK, SameStream
<1>4. SenderOK(y)
  BY <1>1, <1>2, <1>3, Zenon DEF SenderOK, SameStream
<1>5. Further(x, y, 0)
  BY <1>a DEF Further, SameStream
<1>6. Tight(x) => Tight(y)
  BY Zenon DEF Tight, SameStream
<1>7. QED
  BY <1>4, <1>5, <1>6, SMTT(30)

\* tick keeps the sender in order, and sends again the oldest segment only,
\* once it has waited for the whole timeout.
LEMMA TickKeeps ==
    ASSUME NEW x, SenderOK(x), x.segments_out = <<>>, NEW ms \in Nat
    PROVE  LET y == tick(x, ms)
           IN  /\ SenderOK(y) /\ Further(x, y, 0) /\ (Tight(x) => Tight(y))
               /\ y.segments_out # <<>> =>
                    /\ x.cache # <<>> /\ y.segments_out = <<x.cache[1].seg>>
                    /\ x.cache[1].age + ms >= x.timeout
<1> DEFINE later == [i \in DOMAIN x.cache |-> [age |-> x.cache[i].age + ms, seg |-> x.cache[i].seg]]
           b == Recached(x, later)
           aged == remove_acked_seg(b)
           y == tick(x, ms)
           una == At(x.latest_ackno)
           next == x.next_seqno
           entries == [age : Nat, seg : Segments]
<1>1. y = IF aged.cache = <<>> THEN aged
          ELSE IF aged.cache[1].age >= aged.timeout THEN retransmit(aged) ELSE aged
  BY Zenon DEF tick, Recached
<1>2. /\ IsSender(x) /\ x.isn = Isn /\ CacheOK(x.cache, una, next) /\ WindowOK(x)
      /\ x.timeout \in Nat /\ x.retransmissions \in Nat
  BY DEF SenderOK
<1>3. /\ next \in Nat /\ next \in 0 .. StreamLen + 2 /\ una \in Nat /\ una =< next
      /\ x.latest_ackno \in Raw
  BY <1>2, Bounds, Widths, SMTT(30) DEF WindowOK
<1>4. /\ x.cache \in Seq(entries) /\ DOMAIN x.cache = 1 .. Len(x.cache) /\ Len(x.cache) \in Nat
  BY <1>2 DEF CacheOK
<1>5. \A i \in 1 .. Len(x.cache) : x.cache[i].age \in Nat /\ x.cache[i].seg \in Segments
  <2> TAKE i \in 1 .. Len(x.cache)
  <2> HIDE DEF entries
  <2>1. x.cache[i] \in entries
    BY <1>4, SMTT(30)
  <2>2. QED
    BY <2>1 DEF entries
<1>6. \A i \in 1 .. Len(x.cache) : later[i] \in entries /\ later[i].seg = x.cache[i].seg
                                   /\ later[i].age = x.cache[i].age + ms
  BY <1>4, <1>5, SMTT(30)
<1>7. later \in Seq(entries) /\ Len(later) = Len(x.cache)
  <2> HIDE DEF entries
  <2>1. DOMAIN later = 1 .. Len(x.cache) /\ later = [i \in 1 .. Len(x.cache) |-> later[i]]
    BY <1>4
  <2> DEFINE len == Len(x.cache)
             same == [i \in 1 .. len |-> later[i]]
  <2>2. same = later /\ len \in Nat /\ \A i \in 1 .. len : later[i] \in entries
    BY <1>4, <1>6, <2>1, Zenon
  <2> HIDE DEF later, len
  <2>3. same \in Seq(entries) /\ Len(same) = len
    BY <2>2
  <2> HIDE DEF same
  <2>4. QED
    BY <2>2, <2>3, Zenon DEF len
<1> HIDE DEF later
<1>8. CacheOK(later, una, next)
  BY <1>2, <1>6, <1>7, CacheAges, Zenon
<1>9. SameButCache(x, b) /\ b.cache = later
  BY <1>2, Recaching, Zenon
<1> HIDE DEF b
<1>10. aged = Recached(b, later)
  <2>1. /\ b.isn = Isn /\ b.next_seqno = next /\ b.latest_ackno = x.latest_ackno /\ IsSender(b)
    BY <1>2, <1>9 DEF SameButCache, SameSent
  <2>2. PICK c : aged = [b EXCEPT !.cache = c] /\ c = b.cache
    BY <1>3, <1>8, <1>9, <2>1, Removing
  <2>3. QED
    BY <1>9, <2>2, Zenon DEF Recached
<1> HIDE DEF aged
<1>11. SameButCache(x, aged) /\ aged.cache = later
  <2>1. IsSender(b)
    BY <1>9 DEF SameButCache, SameSent
  <2>2. SameButCache(b, aged) /\ aged.cache = later
    BY <1>10, <2>1, Recaching, Zenon
  <2>3. QED
    BY <1>9, <2>2, Zenon DEF SameButCache, SameSent
<1>12. /\ SameStream(x, aged) /\ aged.segments_out = <<>> /\ aged.timeout = x.timeout
       /\ aged.retransmissions = x.retransmissions /\ IsSender(aged)
  BY <1>11, Zenon DEF SameButCache, SameSent, SameStream
<1>13. CASE y = aged
  <2>1. /\ CacheOK(y.cache, una, next) /\ SameStream(x, y) /\ y.segments_out = <<>>
        /\ y.timeout \in Nat /\ y.retransmissions \in Nat
    BY <1>2, <1>8, <1>11, <1>12, <1>13, Zenon
  <2>2. /\ y.segments_out \in Seq(Segments)
        /\ \A i \in DOMAIN y.segments_out : SegmentOK(y.segments_out[i], next)
    BY <2>1
  <2> HIDE DEF y, una, next
  <2>3. QED
    BY <2>1, <2>2, StillOK, Zenon DEF y, una, next
<1>14. CASE y # aged
  <2>1. y = retransmit(aged) /\ later # <<>> /\ later[1].age >= x.timeout
    BY <1>1, <1>11, <1>12, <1>14, Zenon
  <2>2. 1 \in 1 .. Len(x.cache) /\ x.cache # <<>>
    <3>1. Len(later) # 0
      BY <1>7, <2>1
    <3>2. QED
      BY <1>4, <1>7, <3>1
  <2> DEFINE seg == later[1].seg
             c == FirstAgain(later)
             n == IF aged.window_size # 0 THEN aged.retransmissions + 1 ELSE aged.retransmissions
             t == IF aged.window_size # 0 THEN 2 * aged.timeout ELSE aged.timeout
             out == <<seg>>
  <2>3. y = Resent(aged, out, c, n, t)
    <3>1. [aged.cache[1] EXCEPT !.age = 0] = [age |-> 0, seg |-> later[1].seg]
      <4>1. later[1] \in entries
        BY <1>6, <2>2
      <4>2. QED
        BY <1>11, <4>1
    <3>2. [aged.cache EXCEPT ![1].age = 0] = c
      BY <1>11, <3>1, Zenon DEF FirstAgain
    <3>3. Append(aged.segments_out, aged.cache[1].seg) = out
      BY <1>11, <1>12
    <3>4. y = [aged EXCEPT !.segments_out = Append(aged.segments_out, aged.cache[1].seg),
                           !.cache = [aged.cache EXCEPT ![1].age = 0],
                           !.retransmissions = n, !.timeout = t]
      BY <2>1, ZenonT(40) DEF retransmit
    <3>5. QED
      BY <3>2, <3>3, <3>4, Zenon DEF Resent
  <2>4. n \in Nat /\ t \in Nat
    BY <1>2, <1>12
  <2>5. SegmentOK(seg, next) /\ seg \in Segments /\ seg = x.cache[1].seg
    BY <1>2, <1>4, <1>6, <2>2, SMTT(30) DEF CacheOK, SegmentOK
  <2>6. CacheOK(c, una, next)
    BY <1>8, <2>1, AgesAgain
  <2> HIDE DEF y, una, next, c, n, t, seg
  <2>7. /\ SameStream(x, y) /\ y.segments_out = <<seg>> /\ y.cache = c
        /\ y.retransmissions = n /\ y.timeout = t
    <3> HIDE DEF out
    <3>1. /\ SameStream(aged, y) /\ y.segments_out = out /\ y.cache = c
          /\ y.retransmissions = n /\ y.timeout = t
      BY <1>12, <2>3, Resending
    <3>2. QED
      BY <1>12, <3>1, Zenon DEF SameStream, out
  <2>8. /\ y.segments_out \in Seq(Segments)
        /\ \A i \in DOMAIN y.segments_out : SegmentOK(y.segments_out[i], next)
    BY <2>5, <2>7, SMTT(30)
  <2>9. SenderOK(y) /\ Further(x, y, 0) /\ (Tight(x) => Tight(y))
    BY <2>4, <2>6, <2>7, <2>8, StillOK, Zenon DEF una, next
  <2>10. x.cache[1].age + ms >= x.timeout
    BY <1>6, <2>1, <2>2
  <2>11. QED
    BY <2>2, <2>5, <2>7, <2>9, <2>10 DEF y
<1>15. QED
  BY <1>13, <1>14

\* The owner has taken what was sent.
Emptied(x, out) == [x EXCEPT !.segments_out = out]

\* A sender whose queue of segments has been replaced.
LEMMA Requeueing ==
    ASSUME NEW x, SenderOK(x), NEW out \in Seq(Segments),
           \A i \in DOMAIN out : SegmentOK(out[i], x.next_seqno)
    PROVE  LET y == Emptied(x, out)
           IN  /\ SenderOK(y) /\ Further(x, y, 0) /\ (Tight(x) => Tight(y))
               /\ SameStream(x, y) /\ y.segments_out = out /\ y.cache = x.cache
               /\ y.timeout = x.timeout
<1> DEFINE y == Emptied(x, out)
<1>1. /\ SameStream(x, y) /\ y.segments_out = out /\ y.cache = x.cache
      /\ y.timeout = x.timeout /\ y.retransmissions = x.retransmissions
  BY DEF Emptied, SameStream, IsSender, SenderOK
<1> HIDE DEF y
<1>2. /\ CacheOK(y.cache, At(x.latest_ackno), x.next_seqno)
      /\ y.timeout \in Nat /\ y.retransmissions \in Nat
      /\ y.segments_out \in Seq(Segments)
      /\ \A i \in DOMAIN y.segments_out : SegmentOK(y.segments_out[i], x.next_seqno)
  BY <1>1, Zenon DEF SenderOK
<1>3. SenderOK(y) /\ Further(x, y, 0) /\ (Tight(x) => Tight(y))
  BY <1>1, <1>2, StillOK
<1>4. QED
  BY <1>1, <1>3 DEF y

\* send_empty_segment sends a segment without content.
LEMMA EmptyKeeps ==
    ASSUME NEW x, SenderOK(x), x.segments_out = <<>>
    PROVE  LET y == send_empty_segment(x)
           IN  SenderOK(y) /\ Further(x, y, 0) /\ (Tight(x) => Tight(y))
<1> DEFINE next == x.next_seqno
           seg == [NewSegment EXCEPT !.seqno = wrap(next, Isn)]
           out == <<seg>>
<1>1. /\ next \in 0 .. U32 - 1 /\ next \in Nat /\ x.isn = Isn
  <2>1. next \in Nat /\ next < U32
    BY Bounds, Widths
  <2>2. U32 \in Nat
    BY Widths
  <2>3. QED
    BY <2>1, <2>2 DEF SenderOK
<1>2. 0 \in Raw /\ <<>> \in Seq(Nat)
  BY Widths
<1>3. NewSegment \in Segments /\ length_in_sequence_space(NewSegment) = 0 /\ NewSegment.payload = <<>>
  BY <1>2 DEF NewSegment, Segments, length_in_sequence_space
<1>4. seg \in Segments /\ EndOf(seg) = next /\ seg.payload = <<>>
  <2> DEFINE g == NewSegment
             numbered == [g EXCEPT !.seqno = wrap(next, Isn)]
  <2>1. g \in Segments /\ length_in_sequence_space(g) = 0 /\ g.payload = <<>>
    BY <1>3
  <2> HIDE DEF g, next
  <2>2. /\ numbered \in Segments /\ numbered.payload = g.payload
        /\ EndOf(numbered) = next + length_in_sequence_space(g)
    BY <1>1, <2>1, Numbered
  <2>3. EndOf(numbered) = next
    BY <1>1, <2>1, <2>2
  <2>4. QED
    BY <2>1, <2>2, <2>3, Zenon DEF g
<1>5. send_empty_segment(x) = Emptied(x, out)
  <2>1. send_empty_segment(x) = [x EXCEPT !.segments_out = Append(x.segments_out, seg)]
    BY <1>1, Zenon DEF send_empty_segment
  <2> HIDE DEF seg
  <2>2. Append(x.segments_out, seg) = out
    OBVIOUS
  <2>3. QED
    BY <2>1, <2>2, Zenon DEF Emptied
<1>6. SegmentOK(seg, next)
  BY <1>1, <1>4 DEF SegmentOK
<1> HIDE DEF seg
<1>7. out \in Seq(Segments) /\ \A i \in DOMAIN out : SegmentOK(out[i], next)
  BY <1>4, <1>6
<1> HIDE DEF out
<1>8. QED
  BY <1>5, <1>7, Requeueing, ZenonT(40)

\* What the application does to the stream leaves the sender in order.
LEMMA StreamKeeps ==
    ASSUME NEW x, SenderOK(x), NEW bs, StreamOK(bs), bs.popped = x.stream.popped,
           x.fin => bs.input_ended /\ bs.popped = Len(bs.data)
    PROVE  LET y == [x EXCEPT !.stream = bs]
           IN  SenderOK(y) /\ Further(x, y, 0) /\ (Tight(x) => Tight(y))
<1> DEFINE y == [x EXCEPT !.stream = bs]
<1>1. /\ Prepared(x, y) /\ y.stream = bs /\ y.syned = x.syned /\ y.fin = x.fin
  BY DEF Prepared, IsSender, SenderOK
<1> HIDE DEF y
<1>2. x.next_seqno \in Nat /\ x.window_used \in Nat
  BY Bounds, Widths, SMTT(30)
<1>3. SentOK(x) /\ WindowOK(x)
  BY DEF SenderOK
<1>4. SentOK(y)
  BY <1>1, <1>3, Zenon DEF SentOK, Prepared
<1>5. WindowOK(y)
  BY <1>1, <1>3, Zenon DEF WindowOK, Prepared
<1>6. SenderOK(y)
  BY <1>1, <1>4, <1>5, ZenonT(40) DEF SenderOK, Prepared
<1>7. Further(x, y, 0)
  BY <1>1, <1>2 DEF Further, Prepared
<1>8. Tight(x) => Tight(y)
  BY <1>1, Zenon DEF Tight, Prepared
<1>9. QED
  BY <1>6, <1>7, <1>8 DEF y

-----------------------------------------------------------------------------
(* The invariants. *)

\* The acknowledgments in the network are of what the peer has taken.
PeerOK ==
    /\ peer_next \in Nat /\ peer_edge \in Nat
    /\ peer_next =< s.next_seqno
    /\ At(s.latest_ackno) =< peer_next
    /\ acks \in Seq([ackno : Raw, win : network.windows])
    /\ \A i \in DOMAIN acks : At(acks[i].ackno) \in 1 .. peer_next

SenderInv == network \in Networks /\ now \in Nat /\ SenderOK(s) /\ PeerOK

Edge(ack) == At(ack.ackno) + ack.win

TightInv == ~network.reordering /\ 0 \notin network.windows =>
    /\ Tight(s)
    /\ At(s.latest_ackno) + s.window_size =< GreaterOf(1, peer_edge)
    /\ \A i \in DOMAIN acks : /\ At(s.latest_ackno) =< At(acks[i].ackno)
                              /\ At(s.latest_ackno) + s.window_size =< Edge(acks[i])
                              /\ Edge(acks[i]) =< peer_edge
    /\ \A i \in DOMAIN acks : \A j \in 1 .. i - 1 : /\ At(acks[j].ackno) =< At(acks[i].ackno)
                                                    /\ Edge(acks[j]) =< Edge(acks[i])

-----------------------------------------------------------------------------
(* The steps of the application and the owner. *)

\* The owner has taken what the last call sent.
LEMMA DrainKeeps ==
    ASSUME SenderOK(s)
    PROVE  /\ SenderOK(Drained) /\ Drained.segments_out = <<>> /\ Further(s, Drained, 0)
           /\ Tight(s) => Tight(Drained)
           /\ Drained.stream = s.stream /\ Drained.fin = s.fin
           /\ Drained.cache = s.cache /\ Drained.timeout = s.timeout
<1> DEFINE none == <<>>
<1>1. none \in Seq(Segments) /\ DOMAIN none = {}
  OBVIOUS
<1>2. Drained = Emptied(s, none)
  BY Zenon DEF Drained, Emptied
<1> HIDE DEF none
<1>3. QED
  BY <1>1, <1>2, Requeueing, ZenonT(40) DEF SameStream, none

\* What every call of the sender does to the numbers the peer goes by.
Called(x, y) ==
    /\ SenderOK(y) /\ y.latest_ackno = x.latest_ackno /\ y.window_size = x.window_size
    /\ y.next_seqno >= x.next_seqno
    /\ Tight(x) => Tight(y)

\* fill_window is such a call,
LEMMA CalledAdvances ==
    ASSUME NEW x, SenderOK(x), NEW y, Advances(x, y)
    PROVE  Called(x, y)
<1>1. x.next_seqno \in Nat
  BY Bounds, Widths
<1>2. PICK n \in Nat : Further(x, y, n)
  BY DEF Advances
<1>3. QED
  BY <1>1, <1>2 DEF Advances, Called, Further

\* as is one that sends nothing new,
LEMMA CalledFurther ==
    ASSUME NEW x, SenderOK(x), NEW y, SenderOK(y), Further(x, y, 0), Tight(x) => Tight(y)
    PROVE  Called(x, y)
<1>1. x.next_seqno \in Nat
  BY Bounds, Widths
<1>2. QED
  BY <1>1 DEF Called, Further

\* and one call after another.
LEMMA CalledOn ==
    ASSUME NEW x, SenderOK(x), NEW y, NEW z, Called(x, y), Called(y, z)
    PROVE  Called(x, z)
<1>1. x.next_seqno \in Nat /\ y.next_seqno \in Nat /\ z.next_seqno \in Nat
  BY Bounds, Widths DEF Called
<1>2. z.next_seqno >= x.next_seqno
  BY <1>1 DEF Called
<1>3. QED
  BY <1>2, Zenon DEF Called

\* The stream after the application has written the next n numbers.
LEMMA WriteKeepsStream ==
    ASSUME NEW bs, StreamOK(bs), NEW n \in Nat, Len(bs.data) + n =< StreamLen
    PROVE  LET w == Written(bs, [i \in 1 .. n |-> bytes_written(bs) + i - 1])
           IN  StreamOK(w) /\ w.popped = bs.popped /\ w.input_ended = bs.input_ended
<1> DEFINE len == Len(bs.data)
           more == [i \in 1 .. n |-> len + i - 1]
           k == WriteLength(bs, more)
           part == SubSeq(more, 1, k)
           all == bs.data \o part
           w == Written(bs, more)
<1>1. len \in Nat /\ bs.data \in Seq(Nat)
  BY DEF StreamOK
<1>2. more \in Seq(Nat) /\ Len(more) = n
  <2> HIDE DEF len
  <2>1. QED
    BY <1>1
<1>3. k \in 0 .. n /\ len + k - bs.popped =< bs.capacity /\ (k = 0 \/ k =< n)
  <2>1. bs.popped \in Nat /\ bs.capacity \in Nat /\ len - bs.popped =< bs.capacity /\ bs.popped =< len
    BY <1>1 DEF StreamOK
  <2> HIDE DEF len, more
  <2>2. QED
    BY <1>1, <1>2, <2>1, SMTT(30) DEF WriteLength, LesserOf, remaining_capacity, buffer_size, len
<1>4. \A i \in 1 .. n : more[i] = len + i - 1
  OBVIOUS
<1> HIDE DEF more, k
<1>5. part \in Seq(Nat) /\ Len(part) = k /\ \A i \in 1 .. k : part[i] = len + i - 1
  <2>1. 1 \in 1 .. Len(more) + 1 /\ k \in 1 - 1 .. Len(more)
    BY <1>2, <1>3
  <2>2. /\ part \in Seq(Nat) /\ Len(part) = k - 1 + 1
        /\ \A i \in 1 .. k - 1 + 1 : part[i] = more[1 + i - 1]
    BY <1>2, <2>1, Slice, SMTT(30)
  <2> HIDE DEF part
  <2>3. QED
    BY <1>2, <1>3, <1>4, <2>2, SMTT(30)
<1> HIDE DEF part
<1>6. all \in Seq(Nat) /\ Len(all) = len + k /\ \A i \in DOMAIN all : all[i] = i - 1
  <2>1. /\ all \in Seq(Nat) /\ Len(all) = len + Len(part)
        /\ \A i \in 1 .. len : all[i] = bs.data[i]
        /\ \A i \in 1 .. Len(part) : all[len + i] = part[i]
    <3> DEFINE d == bs.data
    <3>1. d \in Seq(Nat)
      BY <1>1
    <3> HIDE DEF d
    <3>2. /\ d \o part \in Seq(Nat) /\ Len(d \o part) = Len(d) + Len(part)
          /\ \A i \in 1 .. Len(d) : (d \o part)[i] = d[i]
          /\ \A i \in 1 .. Len(part) : (d \o part)[Len(d) + i] = part[i]
      <4>1. d \in Seq(Nat) /\ part \in Seq(Nat)
        BY <1>5, <3>1
      <4>2. d \o part \in Seq(Nat) /\ Len(d \o part) = Len(d) + Len(part)
        BY <4>1
      <4>3. \A i \in 1 .. Len(d) : (d \o part)[i] = d[i]
        BY <4>1
      <4>4. \A i \in 1 .. Len(part) : (d \o part)[Len(d) + i] = part[i]
        BY <4>1, SMTT(30)
      <4>5. QED
        BY <4>2, <4>3, <4>4
    <3>3. QED
      BY <3>2, Zenon DEF d
  <2>2. \A i \in 1 .. len : bs.data[i] = i - 1
    BY <1>1, SMTT(30) DEF StreamOK
  <2> HIDE DEF all, len
  <2>3. ASSUME NEW i \in 1 .. len + k PROVE all[i] = i - 1
    <3>1. CASE i =< len
      BY <1>1, <2>1, <2>2, <2>3, <3>1, SMTT(30)
    <3>2. CASE i > len
      <4>1. i - len \in 1 .. k /\ i = len + (i - len)
        BY <1>1, <1>3, <2>3, <3>2
      <4>2. all[i] = part[i - len]
        BY <1>5, <2>1, <4>1, Zenon
      <4>3. QED
        BY <1>1, <1>5, <4>1, <4>2, SMTT(30)
    <3>3. QED
      BY <1>1, <1>3, <2>3, <3>1, <3>2, SMTT(30)
  <2>4. QED
    BY <1>5, <2>1, <2>3
<1>7. w = [bs EXCEPT !.data = all]
  BY Zenon DEF Written, part, k
<1> HIDE DEF all
<1>8. /\ w = [capacity |-> bs.capacity, data |-> all, popped |-> bs.popped,
              input_ended |-> bs.input_ended, error |-> bs.error]
  BY <1>7, ZenonT(40) DEF StreamOK
<1> HIDE DEF w
<1>9. /\ w.capacity = bs.capacity /\ w.data = all /\ w.popped = bs.popped
      /\ w.input_ended = bs.input_ended /\ w.error = bs.error
  BY <1>8
<1>10. /\ bs.popped \in 0 .. len /\ bs.capacity \in Nat /\ bs.input_ended \in BOOLEAN
  BY DEF StreamOK
<1>11. bs.popped \in 0 .. Len(all) /\ Len(all) - bs.popped =< bs.capacity /\ Len(all) =< StreamLen
  BY <1>1, <1>3, <1>6, <1>10, Widths, SMTT(30)
<1>12. StreamOK(w)
  BY <1>6, <1>8, <1>9, <1>10, <1>11, ZenonT(40) DEF StreamOK
<1>13. QED
  BY <1>9, <1>12 DEF w, more, bytes_written

\* A call that is not an acknowledgment keeps the invariants.
LEMMA CallKeeps ==
    ASSUME SenderInv, Called(s, s'), UNCHANGED <<network, acks, peer_next, peer_edge>>, now' \in Nat
    PROVE  SenderInv' /\ (TightInv => TightInv')
<1>1. s.next_seqno \in Nat /\ s'.next_seqno \in Nat /\ SenderOK(s')
  BY Bounds, Widths DEF SenderInv, Called
<1>2. peer_next =< s'.next_seqno
  BY <1>1 DEF SenderInv, PeerOK, Called
<1>3. PeerOK'
  BY <1>2, Zenon DEF SenderInv, PeerOK, Called
<1>4. TightInv => TightInv'
  BY Zenon DEF TightInv, Called
<1>5. QED
  BY <1>1, <1>3, <1>4 DEF SenderInv

\* The application writes, and the sender keeps its numbers.
LEMMA WriteStep ==
    ASSUME SenderInv, NEW n \in 1 .. StreamLen, Write(n)
    PROVE  Called(s, s') /\ UNCHANGED <<network, acks, peer_next, peer_edge>> /\ now' \in Nat
<1> DEFINE bs == s.stream
           w == Written(bs, [i \in 1 .. n |-> bytes_written(bs) + i - 1])
           d == Drained
           y == [d EXCEPT !.stream = w]
<1>1. SenderOK(s) /\ n \in Nat /\ StreamOK(bs) /\ Len(bs.data) + n =< StreamLen /\ ~bs.input_ended
  BY Widths DEF SenderInv, SenderOK, Write, bytes_written
<1>2. StreamOK(w) /\ w.popped = bs.popped
  BY <1>1, WriteKeepsStream, Zenon
<1>3. SenderOK(d) /\ Called(s, d) /\ d.stream = bs /\ d.fin = s.fin
  BY <1>1, DrainKeeps, CalledFurther
<1>4. ~d.fin
  BY <1>1, <1>3, ZenonT(40) DEF SenderOK, SentOK
<1>5. s' = y
  BY <1>3, Zenon DEF Write
<1> HIDE DEF w, d
<1>6. Called(d, y)
  BY <1>2, <1>3, <1>4, StreamKeeps, CalledFurther
<1>7. Called(s, y)
  BY <1>1, <1>3, <1>6, CalledOn
<1>8. QED
  BY <1>5, <1>7, Zenon DEF Write, SenderInv

\* The application ends its stream: end_input.
LEMMA EndInputStep ==
    ASSUME SenderInv, EndInput
    PROVE  Called(s, s') /\ UNCHANGED <<network, acks, peer_next, peer_edge>> /\ now' \in Nat
<1> DEFINE bs == s.stream
           w == Ended(bs)
           d == Drained
           y == [d EXCEPT !.stream = w]
           t == TRUE
<1>1. SenderOK(s) /\ StreamOK(bs)
  BY DEF SenderInv, SenderOK
<1>a. w = [bs EXCEPT !.input_ended = t]
  BY Zenon DEF Ended
<1>b. t \in BOOLEAN
  OBVIOUS
<1> HIDE DEF t
<1>2. /\ w = [capacity |-> bs.capacity, data |-> bs.data, popped |-> bs.popped,
              input_ended |-> t, error |-> bs.error]
  BY <1>1, <1>a, SMTT(30) DEF StreamOK
<1>3. SenderOK(d) /\ Called(s, d) /\ d.stream = bs /\ d.fin = s.fin
  BY <1>1, DrainKeeps, CalledFurther
<1>4. s' = y
  BY <1>3, Zenon DEF EndInput
<1> HIDE DEF w, d
<1>5. /\ w.capacity = bs.capacity /\ w.data = bs.data /\ w.popped = bs.popped
      /\ w.input_ended = t /\ w.error = bs.error
  BY <1>2
<1>6. StreamOK(w)
  BY <1>1, <1>2, <1>5, <1>b, Zenon DEF StreamOK
<1>7. d.fin => w.input_ended /\ w.popped = Len(w.data)
  BY <1>1, <1>3, <1>5, Zenon DEF SenderOK, SentOK, t
<1>8. Called(d, y)
  BY <1>3, <1>5, <1>6, <1>7, StreamKeeps, CalledFurther, ZenonT(40)
<1>9. Called(s, y)
  BY <1>1, <1>3, <1>8, CalledOn
<1>10. QED
  BY <1>4, <1>9, Zenon DEF EndInput, SenderInv

\* fill_window sends as far as the window goes.
LEMMA FillWindowStep ==
    ASSUME SenderInv, FillWindow
    PROVE  Called(s, s') /\ UNCHANGED <<network, acks, peer_next, peer_edge>> /\ now' \in Nat
<1> DEFINE d == Drained
<1>1. SenderOK(s) /\ SenderOK(d) /\ Called(s, d)
  BY DrainKeeps, CalledFurther DEF SenderInv
<1>2. s' = fill_window(d)
  BY DEF FillWindow
<1> HIDE DEF d
<1>3. Called(d, s')
  BY <1>1, <1>2, FillKeeps, CalledAdvances, Zenon
<1>4. Called(s, s')
  BY <1>1, <1>3, CalledOn
<1>5. QED
  BY <1>4, Zenon DEF FillWindow, SenderInv

\* send_empty_segment uses no number.
LEMMA SendEmptyStep ==
    ASSUME SenderInv, SendEmpty
    PROVE  Called(s, s') /\ UNCHANGED <<network, acks, peer_next, peer_edge>> /\ now' \in Nat
<1> DEFINE d == Drained
<1>1. SenderOK(s) /\ SenderOK(d) /\ Called(s, d) /\ d.segments_out = <<>>
  BY DrainKeeps, CalledFurther DEF SenderInv
<1>2. s' = send_empty_segment(d)
  BY DEF SendEmpty
<1> HIDE DEF d
<1>3. Called(d, s')
  BY <1>1, <1>2, EmptyKeeps, CalledFurther, Zenon
<1>4. Called(s, s')
  BY <1>1, <1>3, CalledOn
<1>5. QED
  BY <1>4, Zenon DEF SendEmpty, SenderInv

\* The clock, and what it sends.
LEMMA TickStep ==
    ASSUME SenderInv, NEW ms \in 1 .. 2 * Timeout, Tick(ms)
    PROVE  /\ Called(s, s') /\ UNCHANGED <<network, acks, peer_next, peer_edge>> /\ now' \in Nat
           /\ now' - now = ms
           /\ s'.segments_out # <<>> =>
                /\ s.cache # <<>> /\ s'.segments_out = <<s.cache[1].seg>>
                /\ s.cache[1].age + ms >= s.timeout
<1> DEFINE d == Drained
<1>1. /\ SenderOK(s) /\ SenderOK(d) /\ Called(s, d) /\ d.segments_out = <<>>
      /\ d.cache = s.cache /\ d.timeout = s.timeout
  BY DrainKeeps, CalledFurther DEF SenderInv
<1>2. s' = tick(d, ms) /\ now' = now + ms
  BY DEF Tick
<1> HIDE DEF d
<1>3. ms \in Nat /\ now \in Nat
  BY SenderAssumption DEF SenderInv
<1>4. /\ SenderOK(s') /\ Further(d, s', 0) /\ (Tight(d) => Tight(s'))
      /\ s'.segments_out # <<>> =>
             /\ d.cache # <<>> /\ s'.segments_out = <<d.cache[1].seg>>
             /\ d.cache[1].age + ms >= d.timeout
  BY <1>1, <1>2, <1>3, TickKeeps, Zenon
<1>5. Called(d, s')
  BY <1>1, <1>4, CalledFurther
<1>6. Called(s, s')
  BY <1>1, <1>5, CalledOn
<1>7. now' \in Nat /\ now' - now = ms
  BY <1>2, <1>3
<1>8. QED
  BY <1>1, <1>4, <1>6, <1>7, ZenonT(40) DEF Tick

-----------------------------------------------------------------------------
(* The steps of the peer and the network. *)

\* The acknowledgments that are left when the one at place i has arrived.
Without(q, i) == [j \in 1 .. Len(q) - 1 |-> IF j < i THEN q[j] ELSE q[j + 1]]

\* They are those that were there, in the same order.
LEMMA Removed ==
    ASSUME NEW S, NEW q \in Seq(S), NEW i \in 1 .. Len(q)
    PROVE  /\ Without(q, i) \in Seq(S) /\ Len(Without(q, i)) = Len(q) - 1
           /\ \A j \in 1 .. Len(q) - 1 : Without(q, i)[j] = IF j < i THEN q[j] ELSE q[j + 1]
<1> DEFINE n == Len(q) - 1
           f == [j \in 1 .. n |-> IF j < i THEN q[j] ELSE q[j + 1]]
<1>1. n \in Nat /\ \A j \in 1 .. n : j \in 1 .. Len(q) /\ j + 1 \in 1 .. Len(q)
  OBVIOUS
<1>2. \A j \in 1 .. Len(q) : q[j] \in S
  OBVIOUS
<1>3. \A j \in 1 .. n : f[j] = (IF j < i THEN q[j] ELSE q[j + 1]) /\ f[j] \in S
  BY <1>1, <1>2
<1>4. f = [j \in 1 .. n |-> f[j]]
  OBVIOUS
<1>5. Without(q, i) = f
  BY Zenon DEF Without
<1> HIDE DEF n, f
<1>6. f \in Seq(S) /\ Len(f) = n
  BY <1>1, <1>3, <1>4, SMTT(30)
<1>7. QED
  BY <1>3, <1>5, <1>6, Zenon DEF n

\* An acknowledgment that arrives is one of what the peer has taken.
LEMMA AckStep ==
    ASSUME SenderInv, NEW i \in 1 .. Len(acks), i = 1 \/ network.reordering, AckReceived(i)
    PROVE  SenderInv' /\ (TightInv => TightInv')
<1> DEFINE d == Drained
           ackno == acks[i].ackno
           win == acks[i].win
           y == ack_received(d, ackno, win)
           W == network.windows
           entries == [ackno : Raw, win : W]
<1>1. SenderOK(s) /\ SenderOK(d) /\ Called(s, d) /\ Further(s, d, 0)
  BY DrainKeeps, CalledFurther DEF SenderInv
<1>2. s' = fill_window(y)
  BY DEF AckReceived
<1>3. W \subseteq Nat
  BY SenderAssumption DEF SenderInv
<1>4. /\ acks \in Seq(entries) /\ \A j \in DOMAIN acks : At(acks[j].ackno) \in 1 .. peer_next
      /\ peer_next \in Nat /\ peer_edge \in Nat /\ peer_next =< s.next_seqno
      /\ At(s.latest_ackno) =< peer_next
  BY DEF SenderInv, PeerOK
<1>5. acks[i] \in entries /\ i \in DOMAIN acks
  <2> HIDE DEF entries
  <2>1. QED
    BY <1>4
<1>6. ackno \in Raw /\ win \in W /\ win \in Nat
  BY <1>3, <1>5
<1>7. At(ackno) \in 1 .. peer_next
  BY <1>4, <1>5
<1> HIDE DEF d, ackno, win
<1>8. /\ s.next_seqno \in Nat /\ d.next_seqno = s.next_seqno /\ d.latest_ackno = s.latest_ackno
      /\ d.window_size = s.window_size
  <2>1. s.next_seqno \in Nat
    BY <1>1, Bounds, Widths
  <2>2. QED
    BY <1>1, <2>1 DEF Further
<1>9. At(ackno) > 0 /\ At(ackno) =< d.next_seqno
  BY <1>4, <1>7, <1>8, SMTT(30)
<1>10. /\ SenderOK(y) /\ y.next_seqno = d.next_seqno /\ y.latest_ackno \in {d.latest_ackno, ackno}
       /\ Tight(d) /\ win > 0 /\ At(d.latest_ackno) =< At(ackno)
          /\ At(d.latest_ackno) + d.window_size =< At(ackno) + win
          => Tight(y) /\ y.latest_ackno = ackno /\ y.window_size = win
  BY <1>1, <1>6, <1>9, AckKeeps
<1> HIDE DEF y
<1>11. Called(y, s')
  BY <1>2, <1>10, FillKeeps, CalledAdvances, ZenonT(40)
<1>12. SenderOK(s') /\ s'.next_seqno >= s.next_seqno /\ At(s'.latest_ackno) =< peer_next
  <2>1. At(s'.latest_ackno) \in {At(s.latest_ackno), At(ackno)}
    BY <1>8, <1>10, <1>11, Zenon DEF Called
  <2>2. QED
    BY <1>4, <1>7, <1>8, <1>10, <1>11, <2>1, SMTT(30) DEF Called
<1>13. peer_next =< s'.next_seqno
  <2>1. s'.next_seqno \in Nat
    BY <1>12, Bounds, Widths
  <2>2. QED
    BY <1>4, <1>8, <1>12, <2>1, SMTT(30)
<1>14. /\ Without(acks, i) \in Seq(entries) /\ Len(Without(acks, i)) = Len(acks) - 1
       /\ \A j \in 1 .. Len(acks) - 1 :
             Without(acks, i)[j] = IF j < i THEN acks[j] ELSE acks[j + 1]
  <2> HIDE DEF entries
  <2>1. QED
    BY <1>4, Removed
<1>15. acks' = Without(acks, i) \/ (network.reordering /\ acks' = acks)
  BY Zenon DEF AckReceived, Without
<1>16. acks' \in Seq(entries) /\ \A j \in DOMAIN acks' : At(acks'[j].ackno) \in 1 .. peer_next
  <2>1. CASE acks' = acks
    BY <1>4, <2>1, Zenon
  <2>2. CASE acks' = Without(acks, i)
    <3>1. acks' \in Seq(entries)
      BY <1>14, <2>2, Zenon
    <3> HIDE DEF entries
    <3>2. DOMAIN acks' = 1 .. Len(acks) - 1
      BY <1>14, <2>2, <3>1
    <3>3. \A j \in 1 .. Len(acks) - 1 : j \in DOMAIN acks /\ j + 1 \in DOMAIN acks
      BY <1>4
    <3>4. QED
      BY <1>4, <1>14, <2>2, <3>1, <3>2, <3>3, Zenon
  <2>3. QED
    BY <1>15, <2>1, <2>2
<1>17. UNCHANGED <<network, peer_next, peer_edge, now>>
  BY DEF AckReceived
<1>18. SenderInv'
  BY <1>4, <1>12, <1>13, <1>16, <1>17, Zenon DEF SenderInv, PeerOK
<1>19. ASSUME TightInv, ~network.reordering, 0 \notin network.windows
       PROVE  /\ Tight(s')
              /\ At(s'.latest_ackno) + s'.window_size =< GreaterOf(1, peer_edge)
              /\ \A j \in DOMAIN acks' : /\ At(s'.latest_ackno) =< At(acks'[j].ackno)
                                         /\ At(s'.latest_ackno) + s'.window_size =< Edge(acks'[j])
                                         /\ Edge(acks'[j]) =< peer_edge
              /\ \A j \in DOMAIN acks' : \A k \in 1 .. j - 1 :
                     /\ At(acks'[k].ackno) =< At(acks'[j].ackno)
                     /\ Edge(acks'[k]) =< Edge(acks'[j])
  <2>1. /\ Tight(s) /\ At(s.latest_ackno) =< At(ackno)
        /\ At(s.latest_ackno) + s.window_size =< Edge(acks[i])
        /\ Edge(acks[i]) =< peer_edge
    BY <1>5, <1>19, Zenon DEF TightInv, ackno
  <2>2. Edge(acks[i]) = At(ackno) + win
    BY Zenon DEF Edge, ackno, win
  <2>3. win > 0
    BY <1>6, <1>19
  <2>4. Tight(d)
    BY <1>1, <2>1 DEF Called
  <2>5. Tight(y) /\ y.latest_ackno = ackno /\ y.window_size = win
    BY <1>8, <1>10, <2>1, <2>2, <2>3, <2>4, ZenonT(40)
  <2>6. Tight(s') /\ s'.latest_ackno = ackno /\ s'.window_size = win
    BY <1>11, <2>5 DEF Called
  <2>7. At(s'.latest_ackno) = At(acks[1].ackno) /\ At(s'.latest_ackno) + s'.window_size = Edge(acks[1])
    BY <1>19, <2>2, <2>6, ZenonT(40) DEF ackno
  <2>8. At(s'.latest_ackno) + s'.window_size =< GreaterOf(1, peer_edge)
    <3>1. Edge(acks[1]) =< peer_edge /\ Edge(acks[1]) \in Nat
      BY <1>4, <1>6, <1>7, <1>19, <2>1, <2>2, SMTT(30)
    <3>2. QED
      BY <1>4, <2>7, <3>1, SMTT(30) DEF GreaterOf
  <2>9. acks' = Without(acks, i) /\ DOMAIN acks' = 1 .. Len(acks) - 1
    <3> HIDE DEF entries
    <3>1. QED
      BY <1>14, <1>15, <1>19, SMTT(30)
  <2>10. \A j \in DOMAIN acks' : acks'[j] = acks[j + 1] /\ j + 1 \in DOMAIN acks /\ 1 \in 1 .. (j + 1) - 1
    <3> HIDE DEF entries
    <3>1. QED
      BY <1>4, <1>14, <1>19, <2>9, SMTT(30)
  <2>11. \A j \in DOMAIN acks' : \A k \in 1 .. j - 1 :
             k \in DOMAIN acks' /\ k + 1 \in 1 .. (j + 1) - 1
    BY <2>9
  <2>12. \A j \in DOMAIN acks' : /\ At(acks[1].ackno) =< At(acks'[j].ackno)
                                 /\ Edge(acks[1]) =< Edge(acks'[j])
                                 /\ Edge(acks'[j]) =< peer_edge
    BY <1>19, <2>10, Zenon DEF TightInv
  <2>13. \A j \in DOMAIN acks' : \A k \in 1 .. j - 1 :
             /\ At(acks'[k].ackno) =< At(acks'[j].ackno)
             /\ Edge(acks'[k]) =< Edge(acks'[j])
    BY <1>19, <2>10, <2>11, ZenonT(40) DEF TightInv
  <2>14. QED
    BY <2>6, <2>7, <2>8, <2>12, <2>13, ZenonT(40)
<1>20. TightInv => TightInv'
  BY <1>17, <1>19, ZenonT(40) DEF TightInv
<1>21. QED
  BY <1>18, <1>20

\* The peer acknowledges what it has taken, and more than before.
LEMMA PeerStep ==
    ASSUME SenderInv, NEW n \in 1 .. StreamLen + 2, NEW win \in network.windows, PeerAcks(n, win)
    PROVE  SenderInv' /\ (TightInv => TightInv')
<1> DEFINE W == network.windows
           entries == [ackno : Raw, win : W]
           ack == [ackno |-> wrap(n, Isn), win |-> win]
           len == Len(acks)
<1>1. SenderOK(s) /\ n \in Nat /\ win \in Nat /\ s.next_seqno \in Nat /\ s.next_seqno < U32
  <2>1. SenderOK(s) /\ network \in Networks
    BY DEF SenderInv
  <2>2. n \in Nat /\ win \in Nat
    BY <2>1, Widths, SenderAssumption
  <2>3. QED
    BY <2>1, <2>2, Bounds, Widths, SMTT(30)
<1>2. /\ acks \in Seq(entries) /\ \A j \in DOMAIN acks : At(acks[j].ackno) \in 1 .. peer_next
      /\ peer_next \in Nat /\ peer_edge \in Nat /\ At(s.latest_ackno) =< peer_next
  BY DEF SenderInv, PeerOK
<1>3. /\ n >= 1 /\ n >= peer_next /\ n =< s.next_seqno /\ n + win >= peer_edge
      /\ peer_next' = n /\ peer_edge' = n + win /\ acks' = Append(acks, ack)
      /\ UNCHANGED <<network, s, now>>
  BY <1>1, <1>2 DEF PeerAcks, GreaterOf
<1>4. wrap(n, Isn) \in Raw /\ At(wrap(n, Isn)) = n
  <2>1. n \in 0 .. U32 - 1
    BY <1>1, <1>3, Widths, SMTT(30)
  <2>2. QED
    BY <2>1, Places
<1>5. ack \in entries /\ At(ack.ackno) = n /\ Edge(ack) = n + win
  BY <1>4 DEF Edge
<1> HIDE DEF entries, ack
<1>6. /\ acks' \in Seq(entries) /\ len \in Nat /\ DOMAIN acks = 1 .. len /\ DOMAIN acks' = 1 .. len + 1
      /\ \A j \in 1 .. len : acks'[j] = acks[j]
      /\ acks'[len + 1] = ack
  BY <1>2, <1>3, <1>5, SMTT(30)
<1> HIDE DEF len
<1>7. \A j \in DOMAIN acks' : j \in DOMAIN acks \/ j = len + 1
  BY <1>6
<1>8. \A j \in DOMAIN acks' : At(acks'[j].ackno) \in 1 .. n
  <2> TAKE j \in DOMAIN acks'
  <2>1. CASE j \in DOMAIN acks
    <3>1. At(acks'[j].ackno) \in 1 .. peer_next
      BY <1>2, <1>6, <2>1, ZenonT(40)
    <3>2. QED
      BY <1>1, <1>2, <1>3, <3>1, SMTT(30)
  <2>2. CASE j = len + 1
    <3>1. At(acks'[j].ackno) = n
      BY <1>5, <1>6, <2>2, ZenonT(40)
    <3>2. QED
      BY <1>1, <1>3, <3>1, SMTT(30)
  <2>3. QED
    BY <1>7, <2>1, <2>2, ZenonT(40)
<1>9. At(s.latest_ackno) \in Nat /\ At(s.latest_ackno) =< n
  <2>1. s.latest_ackno \in Raw
    BY <1>1 DEF SenderOK, WindowOK
  <2>2. At(s.latest_ackno) \in Nat
    BY <2>1, AtIsSmall
  <2>3. QED
    BY <1>1, <1>2, <1>3, <2>2, SMTT(30)
<1>10. acks' \in Seq([ackno : Raw, win : W])
  BY <1>6, ZenonT(40) DEF entries
<1>11. SenderInv'
  BY <1>1, <1>3, <1>8, <1>9, <1>10, SMTT(30) DEF SenderInv, PeerOK
<1>12. ASSUME TightInv, ~network.reordering, 0 \notin network.windows
       PROVE  /\ At(s.latest_ackno) + s.window_size =< GreaterOf(1, n + win)
              /\ \A j \in DOMAIN acks' : /\ At(s.latest_ackno) =< At(acks'[j].ackno)
                                         /\ At(s.latest_ackno) + s.window_size =< Edge(acks'[j])
                                         /\ Edge(acks'[j]) =< n + win
              /\ \A j \in DOMAIN acks' : \A k \in 1 .. j - 1 :
                     /\ At(acks'[k].ackno) =< At(acks'[j].ackno)
                     /\ Edge(acks'[k]) =< Edge(acks'[j])
  <2> DEFINE edge == At(s.latest_ackno) + s.window_size
  <2>1. edge \in Nat /\ edge =< GreaterOf(1, peer_edge)
    <3>1. s.window_size \in Nat
      BY <1>1, Bounds, ZenonT(40)
    <3>2. QED
      BY <1>9, <1>12, <3>1, SMTT(30) DEF TightInv
  <2>2. edge =< n + win /\ edge =< GreaterOf(1, n + win)
    <3> HIDE DEF edge
    <3>1. QED
      BY <1>1, <1>2, <1>3, <2>1, SMTT(30) DEF GreaterOf
  <2>3. \A j \in DOMAIN acks : Edge(acks[j]) \in Nat
    <3> TAKE j \in DOMAIN acks
    <3>1. acks[j] \in entries
      BY <1>2
    <3>2. acks[j].win \in Nat
      BY <3>1, SenderAssumption DEF entries, SenderInv
    <3>3. At(acks[j].ackno) \in Nat
      BY <1>2
    <3>4. QED
      BY <3>2, <3>3 DEF Edge
  <2>4. \A j \in DOMAIN acks : /\ At(s.latest_ackno) =< At(acks[j].ackno)
                               /\ edge =< Edge(acks[j]) /\ Edge(acks[j]) =< peer_edge
    BY <1>12, Zenon DEF TightInv
  <2> HIDE DEF edge
  <2>5. \A j \in DOMAIN acks : Edge(acks[j]) =< n + win
    <3> TAKE j \in DOMAIN acks
    <3> DEFINE e == Edge(acks[j])
    <3>1. e \in Nat /\ e =< peer_edge
      BY <2>3, <2>4, ZenonT(40)
    <3> HIDE DEF e
    <3>2. e =< n + win
      BY <1>1, <1>2, <1>3, <3>1, SMTT(30)
    <3>3. QED
      BY <3>2 DEF e
  <2>6. \A j \in DOMAIN acks' : /\ At(s.latest_ackno) =< At(acks'[j].ackno)
                                /\ edge =< Edge(acks'[j])
                                /\ Edge(acks'[j]) =< n + win
    <3> TAKE j \in DOMAIN acks'
    <3>1. CASE j \in DOMAIN acks
      BY <1>6, <2>4, <2>5, <3>1, ZenonT(40)
    <3>2. CASE j = len + 1
      <4>1. At(acks'[j].ackno) = n /\ Edge(acks'[j]) = n + win
        BY <1>5, <1>6, <3>2, ZenonT(40)
      <4>2. QED
        BY <1>1, <1>9, <2>1, <2>2, <4>1, SMTT(30)
    <3>3. QED
      BY <1>7, <3>1, <3>2, ZenonT(40)
  <2>7. \A j \in DOMAIN acks' : \A k \in 1 .. j - 1 :
             /\ At(acks'[k].ackno) =< At(acks'[j].ackno)
             /\ Edge(acks'[k]) =< Edge(acks'[j])
    <3> TAKE j \in DOMAIN acks'
    <3> TAKE k \in 1 .. j - 1
    <3>1. k \in DOMAIN acks /\ k \in DOMAIN acks' /\ acks'[k] = acks[k]
      BY <1>6
    <3>2. CASE j \in DOMAIN acks
      BY <1>6, <1>12, <3>1, <3>2, ZenonT(40) DEF TightInv
    <3>3. CASE j = len + 1
      <4>1. At(acks'[j].ackno) = n /\ Edge(acks'[j]) = n + win
        BY <1>5, <1>6, <3>3, ZenonT(40)
      <4>2. At(acks'[k].ackno) \in 1 .. n
        BY <1>8, <3>1
      <4>3. Edge(acks'[k]) =< n + win
        BY <2>5, <3>1, Zenon
      <4>4. QED
        BY <1>1, <4>1, <4>2, <4>3
    <3>4. QED
      BY <1>7, <3>2, <3>3, ZenonT(40)
  <2>8. QED
    BY <2>2, <2>6, <2>7, ZenonT(40) DEF edge
<1>13. TightInv => TightInv'
  BY <1>3, <1>12, Zenon DEF TightInv
<1>14. QED
  BY <1>11, <1>13

\* A lost acknowledgment.
LEMMA LoseStep ==
    ASSUME SenderInv, LoseAck
    PROVE  SenderInv' /\ (TightInv => TightInv')
<1> DEFINE entries == [ackno : Raw, win : network.windows]
<1>1. /\ acks \in Seq(entries) /\ acks # <<>> /\ acks' = Tail(acks)
      /\ UNCHANGED <<network, s, peer_next, peer_edge, now>>
  BY DEF SenderInv, PeerOK, LoseAck
<1> HIDE DEF entries
<1>2. /\ acks' \in Seq(entries)
      /\ \A j \in DOMAIN acks' : j + 1 \in DOMAIN acks /\ acks'[j] = acks[j + 1]
  BY <1>1
<1>3. \A j \in DOMAIN acks' : \A k \in 1 .. j - 1 : k \in DOMAIN acks' /\ k + 1 \in 1 .. (j + 1) - 1
  BY <1>2
<1>4. \A j \in DOMAIN acks' : At(acks'[j].ackno) \in 1 .. peer_next
  BY <1>2, Zenon DEF SenderInv, PeerOK
<1>5. acks' \in Seq([ackno : Raw, win : network.windows])
  BY <1>2 DEF entries
<1>6. SenderInv'
  BY <1>1, <1>4, <1>5, ZenonT(40) DEF SenderInv, PeerOK
<1>7. ASSUME TightInv, ~network.reordering, 0 \notin network.windows
      PROVE  /\ \A j \in DOMAIN acks' : /\ At(s.latest_ackno) =< At(acks'[j].ackno)
                                        /\ At(s.latest_ackno) + s.window_size =< Edge(acks'[j])
                                        /\ Edge(acks'[j]) =< peer_edge
             /\ \A j \in DOMAIN acks' : \A k \in 1 .. j - 1 :
                    /\ At(acks'[k].ackno) =< At(acks'[j].ackno)
                    /\ Edge(acks'[k]) =< Edge(acks'[j])
  <2>1. \A j \in DOMAIN acks' : /\ At(s.latest_ackno) =< At(acks'[j].ackno)
                                /\ At(s.latest_ackno) + s.window_size =< Edge(acks'[j])
                                /\ Edge(acks'[j]) =< peer_edge
    BY <1>2, <1>7, Zenon DEF TightInv
  <2>2. \A j \in DOMAIN acks' : \A k \in 1 .. j - 1 :
            /\ At(acks'[k].ackno) =< At(acks'[j].ackno)
            /\ Edge(acks'[k]) =< Edge(acks'[j])
    BY <1>2, <1>3, <1>7, Zenon DEF TightInv
  <2>3. QED
    BY <2>1, <2>2
<1>8. TightInv => TightInv'
  BY <1>1, <1>7, Zenon DEF TightInv
<1>9. QED
  BY <1>6, <1>8

-----------------------------------------------------------------------------
(* The invariants hold. *)

\* A new sender, before it has sent anything.
LEMMA InitSender == Init => SenderInv /\ TightInv
<1> SUFFICES ASSUME Init PROVE SenderInv /\ TightInv
  BY ZenonT(40)
<1> DEFINE no == FALSE
           bs == NewStream(SendCapacity)
<1>1. /\ s = [isn |-> Isn, segments_out |-> <<>>, stream |-> bs, next_seqno |-> 0,
              window_size |-> 1, window_used |-> 0, cache |-> <<>>, initial_timeout |-> Timeout,
              timeout |-> Timeout, latest_ackno |-> Isn, syned |-> no, fin |-> no,
              retransmissions |-> 0]
      /\ bs = [capacity |-> SendCapacity, data |-> <<>>, popped |-> 0,
               input_ended |-> no, error |-> no]
      /\ no \in BOOLEAN /\ ~no /\ One(no) = 0
  BY DEF Init, NewSender, NewStream, One
<1> HIDE DEF no
<1>2. /\ bs.capacity = SendCapacity /\ bs.data = <<>> /\ bs.popped = 0 /\ bs.input_ended = no
      /\ bs.error = no
  BY <1>1, SMTT(30)
<1> HIDE DEF bs
<1>3. /\ s.isn = Isn /\ s.segments_out = <<>> /\ s.stream = bs /\ s.next_seqno = 0
      /\ s.window_size = 1 /\ s.window_used = 0 /\ s.cache = <<>> /\ s.initial_timeout = Timeout
      /\ s.timeout = Timeout /\ s.latest_ackno = Isn /\ s.syned = no /\ s.fin = no
      /\ s.retransmissions = 0
  BY <1>1, ZenonT(40)
<1>4. At(Isn) = 0 /\ Isn \in Raw /\ StreamLen \in Nat /\ SendCapacity \in Nat /\ Timeout \in Nat
  BY Places, SenderAssumption
<1>5. IsSender(s)
  BY <1>1, <1>3, Zenon DEF IsSender
<1>6. StreamOK(bs)
  <2>1. bs = [capacity |-> bs.capacity, data |-> bs.data, popped |-> bs.popped,
              input_ended |-> bs.input_ended, error |-> bs.error]
    BY <1>1, <1>2, ZenonT(40)
  <2>2. /\ bs.data \in Seq(Nat) /\ Len(bs.data) =< StreamLen /\ DOMAIN bs.data = {}
        /\ bs.popped \in 0 .. Len(bs.data) /\ bs.capacity \in Nat
        /\ Len(bs.data) - bs.popped =< bs.capacity
    BY <1>2, <1>4
  <2>3. bs.input_ended \in BOOLEAN
    BY <1>1, <1>2, Zenon
  <2>4. QED
    BY <2>1, <2>2, <2>3, Zenon DEF StreamOK
<1>7. SentOK(s)
  <2>1. One(s.syned) = 0 /\ One(s.fin) = 0 /\ s.stream.popped = 0 /\ 0 = 0 + 0 + 0
    BY <1>1, <1>2, <1>3
  <2>2. s.syned \in BOOLEAN /\ s.fin \in BOOLEAN /\ ~s.fin
    BY <1>1, <1>3, ZenonT(40)
  <2>3. QED
    BY <1>3, <2>1, <2>2, ZenonT(40) DEF SentOK
<1>8. WindowOK(s)
  BY <1>3, <1>4 DEF WindowOK
<1>9. CacheOK(s.cache, At(s.latest_ackno), s.next_seqno)
  <2> DEFINE entries == [age : Nat, seg : Segments]
             c == s.cache
  <2> HIDE DEF entries
  <2>1. c \in Seq(entries) /\ DOMAIN c = {} /\ 1 .. Len(c) - 1 = {} /\ c = <<>>
    BY <1>3
  <2> HIDE DEF c
  <2>2. CacheOK(c, 0, 0)
    BY <2>1, Zenon DEF CacheOK, entries
  <2>3. QED
    BY <1>3, <1>4, <2>2, ZenonT(40) DEF c
<1>10. s.segments_out \in Seq(Segments) /\ DOMAIN s.segments_out = {} /\ 0 \in Nat
  BY <1>3
<1>11. SenderOK(s)
  BY <1>3, <1>4, <1>5, <1>6, <1>7, <1>8, <1>9, <1>10, ZenonT(40) DEF SenderOK
<1>12. PeerOK
  <2> DEFINE entries == [ackno : Raw, win : network.windows]
  <2> HIDE DEF entries
  <2>1. acks \in Seq(entries) /\ DOMAIN acks = {}
    BY DEF Init
  <2>2. peer_next \in Nat /\ peer_edge \in Nat /\ peer_next =< s.next_seqno /\ At(s.latest_ackno) =< peer_next
    BY <1>3, <1>4 DEF Init
  <2>3. QED
    BY <2>1, <2>2, Zenon DEF PeerOK, entries
<1>13. SenderInv
  BY <1>11, <1>12, ZenonT(40) DEF SenderInv, Init
<1>14. Tight(s) /\ At(s.latest_ackno) + s.window_size =< GreaterOf(1, peer_edge)
  BY <1>3, <1>4 DEF Tight, GreaterOf, Init
<1>15. DOMAIN acks = {}
  BY DEF Init
<1>16. TightInv
  BY <1>14, <1>15, Zenon DEF TightInv
<1>17. QED
  BY <1>13, <1>16

\* Every step keeps the invariants.
LEMMA NextSender ==
    ASSUME SenderInv, [Next]_vars
    PROVE  SenderInv' /\ (TightInv => TightInv')
<1>1. ASSUME NEW n \in 1 .. StreamLen, Write(n) PROVE SenderInv' /\ (TightInv => TightInv')
  BY <1>1, WriteStep, CallKeeps
<1>2. CASE EndInput
  BY <1>2, EndInputStep, CallKeeps
<1>3. CASE FillWindow
  BY <1>3, FillWindowStep, CallKeeps, ZenonT(40)
<1>4. CASE SendEmpty
  BY <1>4, SendEmptyStep, CallKeeps
<1>5. ASSUME NEW ms \in 1 .. 2 * Timeout, Tick(ms) PROVE SenderInv' /\ (TightInv => TightInv')
  BY <1>5, TickStep, CallKeeps
<1>6. ASSUME NEW i \in 1 .. Len(acks), i = 1 \/ network.reordering, AckReceived(i)
      PROVE  SenderInv' /\ (TightInv => TightInv')
  BY <1>6, AckStep
<1>7. ASSUME NEW n \in 1 .. StreamLen + 2, NEW win \in network.windows, PeerAcks(n, win)
      PROVE  SenderInv' /\ (TightInv => TightInv')
  BY <1>7, PeerStep
<1>8. CASE LoseAck
  BY <1>8, LoseStep
<1>9. CASE UNCHANGED vars
  BY <1>9, Zenon DEF vars, SenderInv, PeerOK, TightInv
<1>10. QED
  BY <1>1, <1>2, <1>3, <1>4, <1>5, <1>6, <1>7, <1>8, <1>9, ZenonT(40) DEF Next

\* The sender and what it keeps stay in order, and in-order acknowledgments keep
\* its count of the window exact.
LEMMA AlwaysSender == Spec => [](SenderInv /\ TightInv)
<1>1. Init => SenderInv /\ TightInv
  BY InitSender
<1>2. SenderInv /\ TightInv /\ [Next]_vars => (SenderInv /\ TightInv)'
  BY NextSender
<1>3. QED
  BY <1>1, <1>2, PTL DEF Spec

-----------------------------------------------------------------------------
(* What the runs check. *)

\* The sender never believes more acknowledged than the peer has taken, whatever
\* becomes of the acknowledgments on their way (ack_received).
THEOREM AckedOnlyTaken == Spec => []AckedWasTaken
<1>1. SenderInv => AckedWasTaken
  <2> SUFFICES ASSUME SenderInv PROVE AckedWasTaken
    BY ZenonT(40)
  <2>1. SenderOK(s) /\ At(s.latest_ackno) =< peer_next /\ s.latest_ackno \in Raw /\ s.isn = Isn
    BY DEF SenderInv, PeerOK, SenderOK, WindowOK
  <2>2. s.next_seqno \in 0 .. StreamLen + 2 /\ At(s.latest_ackno) =< StreamLen + 2
    BY <2>1, Bounds, Widths
  <2>3. AbsoluteOf(s, s.latest_ackno) = At(s.latest_ackno)
    BY <2>1, <2>2, Unwrapped, ZenonT(40)
  <2>4. QED
    BY <2>1, <2>3 DEF AckedWasTaken
<1>2. QED
  BY <1>1, AlwaysSender, PTL

\* Nothing that was sent and not acknowledged is forgotten: what the sender keeps
\* for retransmission reaches without a gap from the latest acknowledgment to the
\* next number (fill_window, remove_acked_seg).
THEOREM FlightIsKept == Spec => []CacheCoversFlight
<1>1. SenderInv => CacheCoversFlight
  <2> SUFFICES ASSUME SenderInv PROVE CacheCoversFlight
    OBVIOUS
  <2> DEFINE next == s.next_seqno
             una == At(s.latest_ackno)
             c == s.cache
             len == Len(c)
             entries == [age : Nat, seg : Segments]
  <2>1. SenderOK(s) /\ s.latest_ackno \in Raw /\ s.isn = Isn /\ CacheOK(c, una, next)
    BY DEF SenderInv, SenderOK, WindowOK
  <2>2. /\ next \in 0 .. StreamLen + 2 /\ next \in Nat /\ una \in Nat /\ una =< next
        /\ una =< StreamLen + 2 /\ StreamLen \in Nat
    BY <2>1, Bounds, Widths
  <2>3. AbsoluteOf(s, s.latest_ackno) = una
    BY <2>1, <2>2, Unwrapped, ZenonT(40)
  <2>4. c \in Seq(entries) /\ len \in Nat /\ DOMAIN c = 1 .. len
    BY <2>1, SMTT(30) DEF CacheOK
  <2>5. ASSUME NEW i \in DOMAIN c
        PROVE  /\ FirstOf(i) = At(c[i].seg.seqno) /\ FirstOf(i) \in Nat /\ EndOf(c[i].seg) \in Nat
               /\ LastOf(i) = EndOf(c[i].seg) - 1
    <3> DEFINE seg == c[i].seg
    <3>1. SegmentOK(seg, next)
      BY <2>1 DEF CacheOK
    <3> HIDE DEF seg
    <3>2. seg \in Segments /\ EndOf(seg) =< next /\ seg.seqno \in Raw
      BY <3>1, Zenon DEF SegmentOK, Segments
    <3>3. /\ At(seg.seqno) \in Nat /\ length_in_sequence_space(seg) \in Nat
          /\ EndOf(seg) = At(seg.seqno) + length_in_sequence_space(seg)
      BY <3>2, SegmentNumbers
    <3>4. At(seg.seqno) =< StreamLen + 2
      BY <2>2, <3>2, <3>3, SMTT(30)
    <3>5. AbsoluteOf(s, seg.seqno) = At(seg.seqno)
      BY <2>1, <2>2, <3>2, <3>4, Unwrapped
    <3>6. FirstOf(i) = At(seg.seqno)
      BY <3>5, Zenon DEF FirstOf, seg
    <3>7. LastOf(i) = FirstOf(i) + length_in_sequence_space(seg) - 1
      BY Zenon DEF LastOf, seg
    <3>8. LastOf(i) = EndOf(seg) - 1 /\ EndOf(seg) \in Nat
      BY <3>3, <3>6, <3>7
    <3>9. QED
      BY <3>3, <3>6, <3>8, ZenonT(40) DEF seg
  <2>6. CASE c = <<>>
    <3>1. una = next
      BY <2>1, <2>6 DEF CacheOK
    <3>2. (next - una) % U64 = 0
      <4>1. U64 \in Nat /\ U64 > 0
        BY Widths
      <4>2. next - una = 0
        BY <2>2, <3>1
      <4>3. QED
        BY <4>1, <4>2
    <3>3. QED
      BY <2>3, <2>6, <3>2, ZenonT(40) DEF CacheCoversFlight, bytes_in_flight
  <2>7. CASE c # <<>>
    <3>1. 1 \in DOMAIN c /\ len \in DOMAIN c
      <4> HIDE DEF entries
      <4>1. QED
        BY <2>4, <2>7
    <3>2. /\ At(c[1].seg.seqno) =< una /\ una < EndOf(c[1].seg) /\ EndOf(c[len].seg) = next
          /\ \A i \in 1 .. len - 1 : At(c[i + 1].seg.seqno) = EndOf(c[i].seg)
      BY <2>1, <2>7, ZenonT(40) DEF CacheOK
    <3>3. FirstOf(1) =< una /\ una =< LastOf(1)
      BY <2>2, <2>5, <3>1, <3>2, SMTT(30)
    <3>4. LastOf(len) = next - 1
      BY <2>5, <3>1, <3>2, ZenonT(40)
    <3>5. \A i \in 1 .. len - 1 : FirstOf(i + 1) = LastOf(i) + 1
      <4> TAKE i \in 1 .. len - 1
      <4>1. i \in DOMAIN c /\ i + 1 \in DOMAIN c
        BY <2>4
      <4>2. /\ FirstOf(i + 1) = At(c[i + 1].seg.seqno) /\ LastOf(i) = EndOf(c[i].seg) - 1
            /\ EndOf(c[i].seg) \in Nat
        BY <2>5, <4>1
      <4>3. QED
        BY <3>2, <4>2
    <3>6. QED
      BY <2>3, <2>7, <3>3, <3>4, <3>5, ZenonT(40) DEF CacheCoversFlight
  <2>8. QED
    BY <2>6, <2>7, ZenonT(40)
<1>2. QED
  BY <1>1, AlwaysSender, PTL

\* Every byte is sent under the sequence number of its place in the stream, the
\* first time and every time it is sent again (fill_window, tick).
THEOREM BytesInPlace == Spec => []BytesAreInPlace
<1>1. SenderInv => BytesAreInPlace
  <2> SUFFICES ASSUME SenderInv, NEW i \in 1 .. Len(s.segments_out),
                      NEW k \in 1 .. Len(s.segments_out[i].payload)
               PROVE  LET seg == s.segments_out[i]
                      IN  Plus(seg.seqno, One(seg.syn) + k - 1) = wrap(seg.payload[k] + 1, Isn)
    BY Zenon DEF BytesAreInPlace
  <2> DEFINE seg == s.segments_out[i]
             b == seg.payload[k]
             step == One(seg.syn) + k - 1
  <2>1. SenderOK(s)
    BY DEF SenderInv
  <2>2. s.next_seqno \in Nat /\ s.next_seqno < U32 /\ U32 \in Nat
    BY <2>1, Bounds, Widths, SMTT(30)
  <2>3. SegmentOK(seg, s.next_seqno)
    BY <2>1, SMTT(30) DEF SenderOK
  <2> HIDE DEF seg
  <2>4. /\ seg \in Segments /\ seg.seqno \in Raw /\ seg.payload \in Seq(Nat)
        /\ EndOf(seg) =< s.next_seqno /\ k \in 1 .. Len(seg.payload)
    BY <2>3, Zenon DEF SegmentOK, Segments, seg
  <2>5. b \in Nat /\ At(seg.seqno) + One(seg.syn) + k - 1 = b + 1
    BY <2>3, <2>4, SMTT(30) DEF SegmentOK
  <2>6. /\ At(seg.seqno) \in Nat /\ One(seg.syn) \in {0, 1} /\ One(seg.fin) \in {0, 1}
        /\ EndOf(seg) = At(seg.seqno) + (Len(seg.payload) + One(seg.syn) + One(seg.fin))
    BY <2>4, SegmentNumbers, OneIsSmall, ZenonT(40)
  <2> HIDE DEF b
  <2>7. /\ step \in Nat /\ At(seg.seqno) + step = b + 1 /\ b + 1 < U32
    <3> DEFINE len == Len(seg.payload)
               a == At(seg.seqno)
               o == One(seg.syn)
               f == One(seg.fin)
               next == s.next_seqno
    <3>1. /\ len \in Nat /\ k \in 1 .. len /\ a \in Nat /\ o \in {0, 1} /\ f \in {0, 1}
          /\ a + (len + o + f) =< next /\ next \in Nat /\ next < U32 /\ a + o + k - 1 = b + 1
      BY <2>2, <2>4, <2>5, <2>6, SMTT(30)
    <3> HIDE DEF len, a, o, f, next
    <3>2. o + k - 1 \in Nat /\ a + (o + k - 1) = b + 1 /\ b + 1 < U32
      BY <2>2, <2>5, <3>1
    <3>3. QED
      BY <3>2, ZenonT(40) DEF a, o
  <2> HIDE DEF step
  <2>8. Plus(seg.seqno, step) \in Raw /\ At(Plus(seg.seqno, step)) = b + 1
    BY <2>4, <2>7, Places, ZenonT(40)
  <2>9. wrap(At(Plus(seg.seqno, step)), Isn) = Plus(seg.seqno, step)
    BY <2>8, Places
  <2>10. QED
    BY <2>8, <2>9, Zenon DEF seg, b, step
<1>2. QED
  BY <1>1, AlwaysSender, PTL

\* A sender whose acknowledgments come in order, with windows that are never
\* closed, does not send beyond the largest window the peer has advertised
\* (fill_window, ack_received).
THEOREM WindowKept == Spec => []WindowRespectedInOrder
<1>1. SenderInv /\ TightInv => WindowRespectedInOrder
  <2> SUFFICES ASSUME SenderInv, TightInv, ~network.reordering, 0 \notin network.windows
               PROVE  WindowRespected
    BY DEF WindowRespectedInOrder
  <2>1. /\ s.next_seqno \in Nat /\ At(s.latest_ackno) \in Nat /\ s.window_size \in Nat /\ peer_edge \in Nat
    BY Bounds, Widths, SMTT(30) DEF SenderInv, PeerOK
  <2>2. /\ s.next_seqno =< GreaterOf(2, At(s.latest_ackno) + s.window_size)
        /\ At(s.latest_ackno) + s.window_size =< GreaterOf(1, peer_edge)
    BY DEF TightInv, Tight
  <2>3. QED
    BY <2>1, <2>2 DEF WindowRespected, GreaterOf
<1>2. QED
  BY <1>1, AlwaysSender, PTL

\* A step of the clock sends at most one segment: the oldest that is not
\* acknowledged, when it has waited for the whole timeout (tick).
THEOREM ClockResends == Spec => ClockResendsOldest
<1> DEFINE A == now' # now /\ s'.segments_out # <<>> =>
                  /\ s'.segments_out = <<s.cache[1].seg>>
                  /\ ~IsAcked(s, s.cache[1].seg)
                  /\ s.cache[1].age + (now' - now) >= s.timeout
<1>1. SenderInv /\ [Next]_vars => [A]_vars
  <2> SUFFICES ASSUME SenderInv, Next, now' # now, s'.segments_out # <<>>
               PROVE  /\ s'.segments_out = <<s.cache[1].seg>>
                      /\ ~IsAcked(s, s.cache[1].seg)
                      /\ s.cache[1].age + (now' - now) >= s.timeout
    BY Zenon DEF A
  <2>1. PICK ms \in 1 .. 2 * Timeout : Tick(ms)
    BY Zenon DEF Next, Write, EndInput, FillWindow, SendEmpty, AckReceived, PeerAcks, LoseAck
  <2>2. /\ now' - now = ms /\ s.cache # <<>> /\ s'.segments_out = <<s.cache[1].seg>>
        /\ s.cache[1].age + ms >= s.timeout
    BY <2>1, TickStep, ZenonT(40)
  <2>3. SenderOK(s) /\ s.isn = Isn /\ s.latest_ackno \in Raw
    BY DEF SenderInv, SenderOK, WindowOK
  <2>4. s.next_seqno \in 0 .. StreamLen + 2 /\ At(s.latest_ackno) \in Nat /\ At(s.latest_ackno) =< s.next_seqno
    BY <2>3, Bounds, Widths, SMTT(30)
  <2> DEFINE c == s.cache
             entries == [age : Nat, seg : Segments]
  <2>5. CacheOK(c, At(s.latest_ackno), s.next_seqno)
    BY <2>3 DEF SenderOK
  <2>6. 1 \in DOMAIN c
    <3>1. c \in Seq(entries)
      BY <2>5 DEF CacheOK
    <3> HIDE DEF entries
    <3>2. QED
      BY <2>2, <3>1, SMTT(30)
  <2>7. SegmentOK(c[1].seg, s.next_seqno) /\ At(s.latest_ackno) < EndOf(c[1].seg)
    BY <2>2, <2>5, <2>6, ZenonT(40) DEF CacheOK
  <2>8. IsAcked(s, c[1].seg) <=> At(s.latest_ackno) >= EndOf(c[1].seg)
    BY <2>3, <2>4, <2>7, AckedMeans, ZenonT(40)
  <2>9. EndOf(c[1].seg) \in Nat
    BY <2>7, SegmentNumbers, ZenonT(40) DEF SegmentOK
  <2>10. ~IsAcked(s, c[1].seg)
    BY <2>4, <2>7, <2>8, <2>9
  <2>11. QED
    BY <2>2, <2>10
<1>2. QED
  BY <1>1, AlwaysSender, PTL DEF Spec, ClockResendsOldest
=============================================================================
