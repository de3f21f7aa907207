-------------------------- MODULE TCPSender_proofs --------------------------
(***************************************************************************)
(* What the calls of a TCPSender keep: SenderOK, which says where the      *)
(* numbers of the sender are and that what is kept for retransmission      *)
(* joins what is acknowledged to what was sent.  The numbers of a stream   *)
(* that is shorter than half the raw range are known from its initial      *)
(* sequence number, so unwrap gives what was wrapped (Unwrapped).          *)
(*                                                                         *)
(* fill_window is a loop.  That it keeps what each turn keeps is shown for *)
(* the least number of turns after which it does not (LeastNat): there is  *)
(* none.                                                                   *)
(***************************************************************************)
EXTENDS SenderSpec, TLAPS, WellFoundedInduction

\* The place of a raw number in the stream's sequence space.
At(n) == (n - Isn) % U32

Segments == [seqno : Raw, syn : BOOLEAN, fin : BOOLEAN, rst : {FALSE}, ack : {FALSE},
             ackno : {0}, win : {0}, payload : Seq(Nat)]

EndOf(seg) == At(seg.seqno) + length_in_sequence_space(seg)

\* A segment of what was sent before the number next: its bytes are at their
\* places.
SegmentOK(seg, next) ==
    /\ seg \in Segments
    /\ EndOf(seg) =< next
    /\ \A k \in DOMAIN seg.payload : At(seg.seqno) + One(seg.syn) + k - 1 = seg.payload[k] + 1

\* What is kept for retransmission: the segments from the one that holds the
\* number una to the last, without a gap.
CacheOK(cache, una, next) ==
    /\ cache \in Seq([age : Nat, seg : Segments])
    /\ \A i \in DOMAIN cache : SegmentOK(cache[i].seg, next)
    /\ cache = <<>> => una = next
    /\ cache # <<>> => /\ At(cache[1].seg.seqno) =< una
                       /\ una < EndOf(cache[1].seg)
                       /\ EndOf(cache[Len(cache)].seg) = next
    /\ \A i \in 1 .. Len(cache) - 1 : At(cache[i + 1].seg.seqno) = EndOf(cache[i].seg)

\* The application writes the numbers 0, 1, ...
StreamOK(bs) ==
    /\ bs = [capacity |-> bs.capacity, data |-> bs.data, popped |-> bs.popped,
             input_ended |-> bs.input_ended, error |-> bs.error]
    /\ bs.data \in Seq(Nat)
    /\ Len(bs.data) =< StreamLen
    /\ \A i \in DOMAIN bs.data : bs.data[i] = i - 1
    /\ bs.popped \in 0 .. Len(bs.data)
    /\ bs.capacity \in Nat
    /\ Len(bs.data) - bs.popped =< bs.capacity
    /\ bs.input_ended \in BOOLEAN

\* The members of a TCPSender, and no others.
IsSender(x) ==
    x = [isn |-> x.isn, segments_out |-> x.segments_out, stream |-> x.stream,
         next_seqno |-> x.next_seqno, window_size |-> x.window_size,
         window_used |-> x.window_used, cache |-> x.cache,
         initial_timeout |-> x.initial_timeout, timeout |-> x.timeout,
         latest_ackno |-> x.latest_ackno, syned |-> x.syned, fin |-> x.fin,
         retransmissions |-> x.retransmissions]

\* What has been sent is the SYN, what was read from the stream, and the FIN.
SentOK(x) ==
    /\ x.syned \in BOOLEAN /\ x.fin \in BOOLEAN
    /\ x.next_seqno = One(x.syned) + x.stream.popped + One(x.fin)
    /\ x.fin => x.syned /\ x.stream.input_ended /\ x.stream.popped = Len(x.stream.data)
    /\ ~x.syned => x.stream.popped = 0 /\ x.window_size = 1

WindowOK(x) ==
    /\ x.latest_ackno \in Raw
    /\ x.window_size \in Nat /\ x.window_used \in Nat
    /\ At(x.latest_ackno) + x.window_used =< x.next_seqno

SenderOK(x) ==
    /\ IsSender(x)
    /\ x.isn = Isn
    /\ StreamOK(x.stream)
    /\ SentOK(x)
    /\ WindowOK(x)
    /\ CacheOK(x.cache, At(x.latest_ackno), x.next_seqno)
    /\ x.segments_out \in Seq(Segments)
    /\ \A i \in DOMAIN x.segments_out : SegmentOK(x.segments_out[i], x.next_seqno)
    /\ x.timeout \in Nat /\ x.initial_timeout \in Nat /\ x.retransmissions \in Nat

\* A sender to which acknowledgments come in order knows exactly how much of
\* the window is in use, and has not gone beyond it.
Tight(x) ==
    /\ At(x.latest_ackno) + x.window_used = x.next_seqno
    /\ x.window_size > 0
    /\ x.next_seqno =< GreaterOf(2, At(x.latest_ackno) + x.window_size)

-----------------------------------------------------------------------------
(* Sequences. *)

\* A part of a sequence: a read of a stream, or what is left of a queue when its
\* first elements have been taken.
LEMMA Slice ==
    ASSUME NEW S, NEW q \in Seq(S), NEW a \in 1 .. Len(q) + 1, NEW b \in a - 1 .. Len(q)
    PROVE  /\ SubSeq(q, a, b) \in Seq(S)
           /\ Len(SubSeq(q, a, b)) = b - a + 1
           /\ \A i \in 1 .. b - a + 1 : SubSeq(q, a, b)[i] = q[a + i - 1]
<1>1. SubSeq(q, a, b) \in Seq(S)
  OBVIOUS
<1>2. Len(SubSeq(q, a, b)) = b - a + 1
  OBVIOUS
<1>3. \A i \in 1 .. b - a + 1 : SubSeq(q, a, b)[i] = q[a + i - 1]
  OBVIOUS
<1>4. QED
  BY <1>1, <1>2, <1>3

-----------------------------------------------------------------------------
(* Numbers. *)

\* How many numbers there can be, compared with the raw and the absolute ones.
LEMMA Widths ==
    /\ U32 \in Nat /\ U32 > 0 /\ U64 \in Nat /\ Isn \in 0 .. U32 - 1 /\ Raw = 0 .. U32 - 1
    /\ StreamLen \in Nat /\ StreamLen + 2 =< U32 - (StreamLen + 2)
    /\ U64 = U32 \/ U64 - U32 >= U32
<1>1. U32 \in Nat \ {0} /\ Blocks \in Nat \ {0}
  BY WidthAssumption
<1>2. U64 \in Nat
  BY <1>1 DEF U64
<1>3. CASE Blocks = 1
  BY <1>1, <1>3, SenderAssumption DEF U64, Raw
<1>4. CASE Blocks >= 2
  <2>1. U32 * Blocks >= U32 * 2
    <3> DEFINE b == Blocks - 2
    <3>1. b \in Nat /\ Blocks = b + 2
      BY <1>1, <1>4
    <3>2. U32 * b \in Nat /\ U32 * (b + 2) = U32 * b + U32 * 2
      BY <1>1, <3>1
    <3>3. QED
      BY <1>1, <3>1, <3>2
  <2>2. QED
    BY <1>1, <1>2, <2>1, SenderAssumption DEF U64, Raw
<1>5. QED
  BY <1>1, <1>3, <1>4

\* wrap, and the sum of a raw number and a length, in the range that is used.
LEMMA Places ==
    /\ \A n \in 0 .. U32 - 1 : wrap(n, Isn) \in Raw /\ At(wrap(n, Isn)) = n
    /\ \A r \in Raw : At(r) \in 0 .. U32 - 1 /\ wrap(At(r), Isn) = r
    /\ \A r \in Raw, k \in Nat : At(r) + k < U32 => Plus(r, k) \in Raw /\ At(Plus(r, k)) = At(r) + k
    /\ At(Isn) = 0
<1>1. /\ U32 \in Nat /\ U32 > 0 /\ U64 \in Nat /\ Isn \in 0 .. U32 - 1 /\ Raw = 0 .. U32 - 1
      /\ U64 = U32 \/ U64 - U32 >= U32
  BY Widths
<1>2. \A n \in 0 .. U32 - 1 : wrap(n, Isn) = IF n + Isn < U32 THEN n + Isn ELSE n + Isn - U32
  <2> TAKE n \in 0 .. U32 - 1
  <2> DEFINE m == n + Isn
  <2>1. m \in Nat /\ m < U32 + U32
    BY <1>1
  <2> HIDE DEF m
  <2>2. CASE m < U32
    BY <1>1, <2>1, <2>2 DEF wrap, m
  <2>3. CASE m >= U32
    <3>1. m % U32 = m - U32
      BY <1>1, <2>1, <2>3
    <3>2. (m - U32) % U32 = m - U32
      BY <1>1, <2>1, <2>3
    <3>3. CASE U64 = U32
      BY <3>1, <3>2, <3>3, <2>3, <2>1, <1>1 DEF wrap, m
    <3>4. CASE U64 - U32 >= U32
      <4>1. m % U64 = m
        BY <1>1, <2>1, <3>4
      <4>2. QED
        BY <3>1, <4>1, <2>3, <2>1, <1>1 DEF wrap, m
    <3>5. QED
      BY <1>1, <3>3, <3>4
  <2>4. QED
    BY <1>1, <2>1, <2>2, <2>3
<1>3. \A r \in 0 .. U32 - 1 : At(r) = IF r >= Isn THEN r - Isn ELSE r - Isn + U32
  <2> TAKE r \in 0 .. U32 - 1
  <2>1. CASE r >= Isn
    BY <1>1, <2>1 DEF At
  <2>2. CASE r < Isn
    BY <1>1, <2>2 DEF At
  <2>3. QED
    BY <1>1, <2>1, <2>2
<1>4. \A n \in 0 .. U32 - 1 : wrap(n, Isn) \in Raw /\ At(wrap(n, Isn)) = n
  BY <1>1, <1>2, <1>3, SMTT(30)
<1>5. \A r \in Raw : At(r) \in 0 .. U32 - 1 /\ wrap(At(r), Isn) = r
  BY <1>1, <1>2, <1>3, SMTT(30)
<1>6. \A r \in Raw, k \in Nat : At(r) + k < U32 => Plus(r, k) \in Raw /\ At(Plus(r, k)) = At(r) + k
  <2> SUFFICES ASSUME NEW r \in 0 .. U32 - 1, NEW k \in Nat, At(r) + k < U32
               PROVE  Plus(r, k) \in Raw /\ At(Plus(r, k)) = At(r) + k
    BY <1>1
  <2>1. k < U32 /\ r + k < U32 + U32
    BY <1>1, <1>3, SMTT(30)
  <2>2. Plus(r, k) = IF r + k < U32 THEN r + k ELSE r + k - U32
    BY <1>1, <2>1 DEF Plus
  <2>3. QED
    BY <1>1, <1>3, <2>1, <2>2
<1>7. QED
  BY <1>1, <1>3, <1>4, <1>5, <1>6

\* The place of a raw number is one of the raw numbers.
LEMMA AtIsSmall ==
    ASSUME NEW r \in Raw
    PROVE  At(r) \in Nat /\ At(r) < U32
<1>1. At(r) \in 0 .. U32 - 1 /\ U32 \in Nat
  BY Places, Widths, Zenon
<1>2. QED
  BY <1>1

\* One counts a flag.
LEMMA OneIsSmall == ASSUME NEW flag PROVE One(flag) \in {0, 1}
BY DEF One

\* unwrap finds the place of every number in use.
LEMMA Unwrapped ==
    ASSUME NEW x, x.isn = Isn, x.next_seqno \in 0 .. StreamLen + 2,
           NEW r \in Raw, At(r) =< StreamLen + 2
    PROVE  AbsoluteOf(x, r) = At(r)
<1> DEFINE c == x.next_seqno
           diff == At(r)
           half == StreamLen + 2
<1>1. /\ U32 \in Nat /\ U32 > 0 /\ U64 \in Nat
      /\ U64 = U32 \/ U64 - U32 >= U32
      /\ half \in Nat /\ half =< U32 - half
      /\ c \in 0 .. half /\ diff \in 0 .. half
  BY Widths, Places
<1>2. AbsoluteOf(x, r) = unwrap(r, Isn, c) /\ (r - Isn) % U32 = diff
  BY DEF AbsoluteOf, At
<1> HIDE DEF c, diff, half
<1> DEFINE same == (c % U64) - (c % U32) + diff
           above == ((c + U32) % U64) - ((c + U32) % U32) + diff
           below == ((c - U32) % U64) - ((c - U32) % U32) + diff
<1>3. c < U32 /\ c % U64 = c /\ c % U32 = c /\ (c + U32) % U32 = c /\ (c - U32) % U32 = c
  BY <1>1
<1>4. same = diff
  BY <1>1, <1>3, SMTT(30)
<1>5. CASE U64 = U32
  <2>1. above = diff /\ below = diff
    BY <1>1, <1>3, <1>5
  <2>2. QED
    BY <1>2, <1>4, <2>1 DEF unwrap, Distance, diff
<1>6. CASE U64 - U32 >= U32
  <2>1. above = U32 + diff \/ above = diff
    <3>1. CASE c + U32 < U64
      BY <1>1, <1>3, <3>1
    <3>2. QED
      BY <1>1, <1>3, <1>6, <3>1
  <2>2. below = U64 - U32 + diff
    <3>1. (c - U32) % U64 = c - U32 + U64
      BY <1>1, <1>3, <1>6
    <3>2. QED
      BY <1>1, <1>3, <3>1
  <2>3. Distance(c, same) =< Distance(c, above)
    BY <1>1, <1>4, <2>1 DEF Distance
  <2>4. Distance(c, same) =< Distance(c, below)
    BY <1>1, <1>4, <1>6, <2>2 DEF Distance
  <2>5. unwrap(r, Isn, c) = same
    BY <1>2, <2>3, <2>4 DEF unwrap
  <2>6. QED
    BY <1>2, <1>4, <2>5 DEF diff
<1>7. QED
  BY <1>1, <1>5, <1>6

-----------------------------------------------------------------------------
(* Sending a segment. *)

\* What Send does not change of a sender.
SameRest(x, y) ==
    /\ y.isn = x.isn /\ y.stream = x.stream
    /\ y.window_size = x.window_size /\ y.latest_ackno = x.latest_ackno
    /\ y.syned = x.syned /\ y.fin = x.fin
    /\ y.timeout = x.timeout /\ y.initial_timeout = x.initial_timeout
    /\ y.retransmissions = x.retransmissions

\* What Send changes of a sender.
LEMMA SendEffects ==
    ASSUME NEW x, IsSender(x), NEW seg
    PROVE  LET y == Send(x, seg)
               numbered == [seg EXCEPT !.seqno = wrap(x.next_seqno, x.isn)]
               n == length_in_sequence_space(seg)
           IN  /\ IsSender(y)
               /\ y.segments_out = Append(x.segments_out, numbered)
               /\ y.cache = Append(x.cache, [age |-> 0, seg |-> numbered])
               /\ y.next_seqno = x.next_seqno + n
               /\ y.window_used = x.window_used + n
               /\ SameRest(x, y)
<1> DEFINE y == Send(x, seg)
           numbered == [seg EXCEPT !.seqno = wrap(x.next_seqno, x.isn)]
           n == length_in_sequence_space(seg)
           out == Append(x.segments_out, numbered)
           kept == Append(x.cache, [age |-> 0, seg |-> numbered])
           next == x.next_seqno + n
           used == x.window_used + n
           y1 == [x EXCEPT !.segments_out = out]
           y2 == [y1 EXCEPT !.cache = kept]
           y3 == [y2 EXCEPT !.next_seqno = next]
           y4 == [y3 EXCEPT !.window_used = used]
<1>1. y = [x EXCEPT !.segments_out = out, !.cache = kept, !.next_seqno = next, !.window_used = used]
  BY Zenon DEF Send
<1> HIDE DEF y, out, kept, next, used
<1>2. y = y4
  BY <1>1, Zenon
<1>3. /\ IsSender(y1) /\ y1.segments_out = out /\ y1.cache = x.cache
      /\ y1.next_seqno = x.next_seqno /\ y1.window_used = x.window_used
      /\ SameRest(x, y1)
  BY DEF IsSender, SameRest
<1> HIDE DEF y1
<1>4. /\ IsSender(y2) /\ y2.segments_out = out /\ y2.cache = kept
      /\ y2.next_seqno = x.next_seqno /\ y2.window_used = x.window_used
      /\ SameRest(x, y2)
  BY <1>3 DEF IsSender, SameRest
<1> HIDE DEF y2
<1>5. /\ IsSender(y3) /\ y3.segments_out = out /\ y3.cache = kept
      /\ y3.next_seqno = next /\ y3.window_used = x.window_used
      /\ SameRest(x, y3)
  BY <1>4 DEF IsSender, SameRest
<1> HIDE DEF y3
<1>6. /\ IsSender(y4) /\ y4.segments_out = out /\ y4.cache = kept
      /\ y4.next_seqno = next /\ y4.window_used = used
      /\ SameRest(x, y4)
  BY <1>5 DEF IsSender, SameRest
<1>7. QED
  BY <1>2, <1>6 DEF y, out, kept, next, used

\* The numbers of a sender.
LEMMA Bounds ==
    ASSUME NEW x, SenderOK(x)
    PROVE  /\ x.next_seqno \in 0 .. StreamLen + 2 /\ x.next_seqno < U32
           /\ At(x.latest_ackno) \in 0 .. x.next_seqno
           /\ x.window_used \in Nat /\ x.window_size \in Nat
<1>1. /\ x.stream.popped \in 0 .. Len(x.stream.data) /\ Len(x.stream.data) =< StreamLen
      /\ Len(x.stream.data) \in Nat
      /\ x.next_seqno = One(x.syned) + x.stream.popped + One(x.fin)
      /\ One(x.syned) \in 0 .. 1 /\ One(x.fin) \in 0 .. 1
  BY DEF SenderOK, StreamOK, SentOK, One
<1>2. /\ x.latest_ackno \in Raw /\ x.window_used \in Nat /\ x.window_size \in Nat
      /\ At(x.latest_ackno) + x.window_used =< x.next_seqno
  BY DEF SenderOK, WindowOK
<1>3. At(x.latest_ackno) \in Nat
  BY <1>2, AtIsSmall
<1>4. StreamLen \in Nat /\ U32 \in Nat /\ StreamLen + 2 < U32
  BY Widths
<1>5. x.next_seqno \in 0 .. StreamLen + 2 /\ x.next_seqno < U32
  BY <1>1, <1>4, SMTT(30)
<1>6. QED
  BY <1>2, <1>3, <1>5

\* A segment with the number it is sent under.
LEMMA Numbered ==
    ASSUME NEW seg \in Segments, NEW next \in 0 .. U32 - 1
    PROVE  LET numbered == [seg EXCEPT !.seqno = wrap(next, Isn)]
           IN  /\ numbered \in Segments
               /\ At(numbered.seqno) = next
               /\ EndOf(numbered) = next + length_in_sequence_space(seg)
               /\ numbered.payload = seg.payload /\ numbered.syn = seg.syn
               /\ numbered.fin = seg.fin
<1> DEFINE r == wrap(next, Isn)
           numbered == [seg EXCEPT !.seqno = r]
<1>1. r \in Raw /\ At(r) = next
  BY Places
<1> HIDE DEF r
<1>2. /\ numbered \in Segments /\ numbered.seqno = r /\ numbered.payload = seg.payload
      /\ numbered.syn = seg.syn /\ numbered.fin = seg.fin
  BY <1>1, Zenon DEF Segments
<1> HIDE DEF numbered
<1>3. EndOf(numbered) = next + length_in_sequence_space(seg)
  BY <1>1, <1>2 DEF EndOf, length_in_sequence_space
<1>4. QED
  BY <1>1, <1>2, <1>3 DEF numbered, r

\* The number of sequence numbers a segment takes, and its end.
LEMMA SegmentNumbers ==
    ASSUME NEW seg \in Segments
    PROVE  /\ length_in_sequence_space(seg) \in Nat
           /\ At(seg.seqno) \in Nat /\ EndOf(seg) \in Nat
           /\ EndOf(seg) = At(seg.seqno) + length_in_sequence_space(seg)
           /\ length_in_sequence_space(seg) = Len(seg.payload) + One(seg.syn) + One(seg.fin)
<1>1. seg.seqno \in Raw /\ Len(seg.payload) \in Nat /\ seg.syn \in BOOLEAN /\ seg.fin \in BOOLEAN
  BY DEF Segments
<1>2. At(seg.seqno) \in Nat
  BY <1>1, AtIsSmall
<1>3. length_in_sequence_space(seg) = Len(seg.payload) + One(seg.syn) + One(seg.fin)
  BY DEF length_in_sequence_space, One
<1>4. One(seg.syn) \in {0, 1} /\ One(seg.fin) \in {0, 1}
  BY OneIsSmall
<1>5. length_in_sequence_space(seg) \in Nat
  BY <1>1, <1>3, <1>4
<1>6. QED
  BY <1>2, <1>3, <1>5 DEF EndOf

\* The cache after a segment that follows on has been added.
LEMMA CacheGrows ==
    ASSUME NEW cache, NEW una \in Nat, NEW next \in Nat, CacheOK(cache, una, next),
           NEW seg, NEW more \in Nat, una =< next, more > next, SegmentOK(seg, more),
           At(seg.seqno) = next, EndOf(seg) = more
    PROVE  CacheOK(Append(cache, [age |-> 0, seg |-> seg]), una, more)
<1> DEFINE e == [age |-> 0, seg |-> seg]
           entries == [age : Nat, seg : Segments]
           grown == Append(cache, e)
<1>1. e \in entries /\ e.seg = seg
  BY DEF SegmentOK
<1>2. cache \in Seq(entries) /\ \A i \in DOMAIN cache : cache[i].seg \in Segments
  BY DEF CacheOK, SegmentOK
<1> HIDE DEF e, entries
<1>3. /\ grown \in Seq(entries) /\ Len(grown) = Len(cache) + 1 /\ Len(cache) \in Nat
      /\ DOMAIN cache = 1 .. Len(cache) /\ DOMAIN grown = 1 .. Len(cache) + 1
      /\ \A i \in 1 .. Len(cache) : grown[i] = cache[i]
      /\ grown[Len(cache) + 1] = e
  BY <1>1, <1>2
<1> HIDE DEF grown
<1>4. \A i \in DOMAIN grown : SegmentOK(grown[i].seg, more)
  <2> TAKE i \in DOMAIN grown
  <2>1. CASE i = Len(cache) + 1
    BY <1>1, <1>3, <2>1
  <2>2. CASE i \in DOMAIN cache
    <3>1. SegmentOK(cache[i].seg, next) /\ grown[i] = cache[i]
      BY <1>3, <2>2 DEF CacheOK
    <3>2. EndOf(cache[i].seg) \in Nat
      BY <1>2, <2>2, SegmentNumbers
    <3>3. QED
      BY <3>1, <3>2 DEF SegmentOK
  <2>3. QED
    BY <1>3, <2>1, <2>2
<1>5. grown # <<>>
  BY <1>3
<1>6. EndOf(grown[Len(grown)].seg) = more
  BY <1>1, <1>3
<1>7. At(grown[1].seg.seqno) =< una /\ una < EndOf(grown[1].seg)
  <2>1. CASE cache = <<>>
    <3>1. grown[1] = e /\ una = next
      BY <1>3, <2>1 DEF CacheOK
    <3>2. QED
      BY <1>1, <3>1
  <2>2. CASE cache # <<>>
    <3>1. 1 \in 1 .. Len(cache)
      BY <1>2, <1>3, <2>2
    <3>2. QED
      BY <1>3, <2>2, <3>1 DEF CacheOK
  <2>3. QED
    BY <2>1, <2>2
<1>8. \A i \in 1 .. Len(grown) - 1 : At(grown[i + 1].seg.seqno) = EndOf(grown[i].seg)
  <2> TAKE i \in 1 .. Len(grown) - 1
  <2>1. i \in 1 .. Len(cache) /\ grown[i] = cache[i]
    BY <1>3
  <2>2. CASE i = Len(cache)
    <3>1. EndOf(cache[i].seg) = next /\ grown[i + 1] = e
      BY <1>3, <2>1, <2>2 DEF CacheOK
    <3>2. QED
      BY <1>1, <2>1, <3>1
  <2>3. CASE i # Len(cache)
    <3>1. Len(cache) \in Nat
      BY <1>3
    <3>2. i \in 1 .. Len(cache) - 1 /\ i + 1 \in 1 .. Len(cache)
      BY <2>1, <2>3, <3>1, SMTT(30)
    <3>3. QED
      BY <1>3, <2>1, <3>2, ZenonT(40) DEF CacheOK
  <2>4. QED
    BY <2>2, <2>3
<1>9. QED
  BY <1>3, <1>4, <1>5, <1>6, <1>7, <1>8, ZenonT(40) DEF CacheOK, grown, e, entries

\* A sender that has taken from its stream what it is about to send.
Prepared(x, z) ==
    /\ IsSender(z)
    /\ z.isn = x.isn /\ z.segments_out = x.segments_out /\ z.cache = x.cache
    /\ z.next_seqno = x.next_seqno /\ z.window_size = x.window_size
    /\ z.window_used = x.window_used /\ z.latest_ackno = x.latest_ackno
    /\ z.timeout = x.timeout /\ z.initial_timeout = x.initial_timeout
    /\ z.retransmissions = x.retransmissions

\* y has sent what takes n numbers more than x.
Further(x, y, n) ==
    /\ y.next_seqno = x.next_seqno + n /\ y.window_used = x.window_used + n
    /\ y.latest_ackno = x.latest_ackno /\ y.window_size = x.window_size

\* A segment that holds what was taken from the stream keeps the sender in order.
LEMMA SendKeeps ==
    ASSUME NEW x, SenderOK(x), NEW z, Prepared(x, z), StreamOK(z.stream),
           NEW seg \in Segments, length_in_sequence_space(seg) > 0,
           z.syned = TRUE, z.fin \in BOOLEAN,
           x.next_seqno + length_in_sequence_space(seg) = 1 + z.stream.popped + One(z.fin),
           z.fin => z.stream.input_ended /\ z.stream.popped = Len(z.stream.data),
           \A k \in DOMAIN seg.payload : x.next_seqno + One(seg.syn) + k - 1 = seg.payload[k] + 1
    PROVE  /\ SenderOK(Send(z, seg))
           /\ Further(x, Send(z, seg), length_in_sequence_space(seg))
<1> DEFINE y == Send(z, seg)
           n == length_in_sequence_space(seg)
           numbered == [seg EXCEPT !.seqno = wrap(x.next_seqno, Isn)]
           next == x.next_seqno
           una == At(x.latest_ackno)
<1>1. /\ next \in Nat /\ next \in 0 .. U32 - 1 /\ una \in Nat /\ una =< next
      /\ x.window_used \in Nat
  BY Bounds, Widths
<1>2. n \in Nat /\ n > 0
  BY SegmentNumbers
<1>3. /\ IsSender(y)
      /\ y.segments_out = Append(x.segments_out, numbered)
      /\ y.cache = Append(x.cache, [age |-> 0, seg |-> numbered])
      /\ y.next_seqno = next + n
      /\ y.window_used = x.window_used + n
      /\ SameRest(z, y)
  <2>1. IsSender(z) /\ z.isn = Isn /\ z.next_seqno = next /\ z.window_used = x.window_used
        /\ z.segments_out = x.segments_out /\ z.cache = x.cache
    BY DEF Prepared, SenderOK
  <2>2. /\ IsSender(y)
        /\ y.segments_out = Append(z.segments_out, [seg EXCEPT !.seqno = wrap(z.next_seqno, z.isn)])
        /\ y.cache = Append(z.cache,
                            [age |-> 0, seg |-> [seg EXCEPT !.seqno = wrap(z.next_seqno, z.isn)]])
        /\ y.next_seqno = z.next_seqno + n
        /\ y.window_used = z.window_used + n
        /\ SameRest(z, y)
    BY <2>1, SendEffects, Zenon
  <2>3. QED
    BY <2>1, <2>2, ZenonT(40)
<1>4. /\ numbered \in Segments /\ At(numbered.seqno) = next /\ EndOf(numbered) = next + n
      /\ numbered.payload = seg.payload /\ numbered.syn = seg.syn
  BY <1>1, Numbered, ZenonT(40)
<1> HIDE DEF y, n, numbered
<1>5. /\ y.isn = Isn /\ y.stream = z.stream /\ y.syned = TRUE /\ y.fin = z.fin
      /\ y.window_size = x.window_size /\ y.latest_ackno = x.latest_ackno
      /\ y.timeout = x.timeout /\ y.initial_timeout = x.initial_timeout
      /\ y.retransmissions = x.retransmissions
  BY <1>3 DEF SameRest, Prepared, SenderOK
<1>6. SegmentOK(numbered, next + n)
  BY <1>1, <1>2, <1>4, SMTT(30) DEF SegmentOK
<1>7. CacheOK(y.cache, una, next + n)
  <2>1. CacheOK(x.cache, una, next)
    BY DEF SenderOK
  <2>2. next + n \in Nat /\ next + n > next
    BY <1>1, <1>2, SMTT(30)
  <2> HIDE DEF next, una
  <2>3. QED
    BY <1>1, <1>3, <1>4, <1>6, <2>1, <2>2, CacheGrows, SMTT(30)
<1>8. y.segments_out \in Seq(Segments)
  BY <1>3, <1>4 DEF SenderOK
<1>9. \A i \in DOMAIN y.segments_out : SegmentOK(y.segments_out[i], next + n)
  <2> DEFINE out == x.segments_out
  <2>1. out \in Seq(Segments) /\ \A i \in DOMAIN out : SegmentOK(out[i], next)
    BY DEF SenderOK
  <2>2. y.segments_out = Append(out, numbered)
    BY <1>3
  <2> HIDE DEF out, next
  <2> TAKE i \in DOMAIN y.segments_out
  <2>3. i \in 1 .. Len(out) + 1 /\ Len(out) \in Nat /\ DOMAIN out = 1 .. Len(out)
    BY <1>4, <2>1, <2>2
  <2>4. CASE i = Len(out) + 1
    BY <1>4, <1>6, <2>1, <2>2, <2>4, SMTT(30)
  <2>5. CASE i \in DOMAIN out
    <3>1. y.segments_out[i] = out[i] /\ SegmentOK(out[i], next) /\ out[i] \in Segments
      BY <1>4, <2>1, <2>2, <2>5
    <3>2. EndOf(out[i]) \in Nat
      BY <3>1, SegmentNumbers
    <3>3. QED
      BY <1>1, <1>2, <3>1, <3>2, SMTT(30) DEF SegmentOK
  <2>6. QED
    BY <2>3, <2>4, <2>5, SMTT(30)
<1>10. SentOK(y)
  <2>1. y.next_seqno = 1 + y.stream.popped + One(y.fin)
    BY <1>3, <1>5 DEF n
  <2>2. One(TRUE) = 1
    BY ZenonT(40) DEF One
  <2>3. QED
    BY <1>5, <2>1, <2>2, Zenon DEF SentOK
<1>11. WindowOK(y)
  <2>1. x.latest_ackno \in Raw /\ x.window_size \in Nat /\ una + x.window_used =< next
    BY DEF SenderOK, WindowOK
  <2>2. QED
    BY <1>1, <1>2, <1>3, <1>5, <2>1, SMTT(30) DEF WindowOK
<1>12. SenderOK(y)
  BY <1>3, <1>5, <1>7, <1>8, <1>9, <1>10, <1>11, ZenonT(40) DEF SenderOK
<1>13. QED
  BY <1>3, <1>5, <1>12 DEF Further, y, n

\* The bytes that a read of the stream returns are the next ones.
LEMMA Reading ==
    ASSUME NEW bs, StreamOK(bs), NEW len \in Nat
    PROVE  LET n == LesserOf(Len(bs.data) - bs.popped, len)
           IN  /\ n \in Nat
               /\ Peeked(bs, len) \in Seq(Nat) /\ Len(Peeked(bs, len)) = n
               /\ \A k \in DOMAIN Peeked(bs, len) : Peeked(bs, len)[k] = bs.popped + k - 1
               /\ StreamOK(Popped(bs, len))
               /\ Popped(bs, len).popped = bs.popped + n
               /\ Popped(bs, len).data = bs.data
               /\ Popped(bs, len).input_ended = bs.input_ended
<1> DEFINE n == LesserOf(Len(bs.data) - bs.popped, len)
           from == bs.popped + 1
           to == bs.popped + n
           part == SubSeq(bs.data, from, to)
           later == Popped(bs, len)
<1>1. /\ bs.data \in Seq(Nat) /\ Len(bs.data) \in Nat /\ bs.popped \in 0 .. Len(bs.data)
      /\ \A i \in DOMAIN bs.data : bs.data[i] = i - 1
      /\ Len(bs.data) =< StreamLen /\ bs.capacity \in Nat
      /\ Len(bs.data) - bs.popped =< bs.capacity /\ bs.input_ended \in BOOLEAN
  BY DEF StreamOK
<1>2. n \in Nat /\ bs.popped + n =< Len(bs.data)
  BY <1>1 DEF LesserOf
<1>3. Peeked(bs, len) = part /\ later = [bs EXCEPT !.popped = to]
  BY DEF Peeked, Popped, buffer_size
<1>a. /\ n \in Nat /\ bs.popped \in Nat /\ Len(bs.data) \in Nat
      /\ bs.popped + n =< Len(bs.data)
  BY <1>1, <1>2
<1> HIDE DEF n
<1>4. /\ part \in Seq(Nat) /\ Len(part) = n
      /\ \A i \in 1 .. n : part[i] = bs.data[from + i - 1]
  <2>1. from \in 1 .. Len(bs.data) + 1 /\ to \in from - 1 .. Len(bs.data) /\ to - from + 1 = n
    BY <1>a, SMTT(30)
  <2> HIDE DEF from, to
  <2>2. /\ part \in Seq(Nat) /\ Len(part) = to - from + 1
        /\ \A i \in 1 .. to - from + 1 : part[i] = bs.data[from + i - 1]
    BY <1>1, <2>1, Slice, ZenonT(40)
  <2>3. QED
    BY <2>1, <2>2, Zenon
<1> HIDE DEF part
<1>5. \A k \in DOMAIN part : part[k] = bs.popped + k - 1
  <2> TAKE k \in DOMAIN part
  <2>1. k \in 1 .. n
    BY <1>4
  <2> DEFINE m == from + k - 1
  <2>2. m \in 1 .. Len(bs.data) /\ m - 1 = bs.popped + k - 1
    BY <1>a, <2>1, SMTT(30)
  <2> HIDE DEF from
  <2>3. part[k] = bs.data[m]
    BY <1>4, <2>1
  <2> HIDE DEF m
  <2>5. bs.data[m] = m - 1
    BY <1>1, <2>2
  <2>6. QED
    BY <2>2, <2>3, <2>5
<1>6. /\ later = [capacity |-> bs.capacity, data |-> bs.data, popped |-> to,
                  input_ended |-> bs.input_ended, error |-> bs.error]
  BY <1>3 DEF StreamOK
<1> HIDE DEF later, to
<1>7. /\ later.capacity = bs.capacity /\ later.data = bs.data /\ later.popped = to
      /\ later.input_ended = bs.input_ended /\ later.error = bs.error
  BY <1>6
<1>8. StreamOK(later)
  <2>1. to \in 0 .. Len(bs.data) /\ Len(bs.data) - to =< bs.capacity
    BY <1>1, <1>2, SMTT(30) DEF to
  <2>2. QED
    BY <1>1, <1>6, <1>7, <2>1 DEF StreamOK
<1>9. QED
  BY <1>2, <1>3, <1>4, <1>5, <1>7, <1>8, ZenonT(40) DEF to, later, n, part

-----------------------------------------------------------------------------
(* Filling the window. *)

\* A new segment with its content and its flags.
IsNew(seg, c, syn, fin) ==
    /\ seg \in Segments
    /\ seg.payload = c /\ seg.syn = syn /\ seg.fin = fin

\* The segments that fill_window makes.
LEMMA NewSegments ==
    ASSUME NEW c \in Seq(Nat), NEW syn \in BOOLEAN, NEW fin \in BOOLEAN
    PROVE  /\ IsNew([NewSegment EXCEPT !.payload = c, !.syn = syn, !.fin = fin], c, syn, fin)
           /\ IsNew([NewSegment EXCEPT !.payload = c], c, FALSE, FALSE)
           /\ IsNew([NewSegment EXCEPT !.fin = TRUE], <<>>, FALSE, TRUE)
<1> DEFINE g == NewSegment
           g1 == [g EXCEPT !.payload = c]
           g2 == [g1 EXCEPT !.syn = syn]
           g3 == [g2 EXCEPT !.fin = fin]
<1>1. 0 \in Raw /\ <<>> \in Seq(Nat)
  BY Widths
<1>2. IsNew(g, <<>>, FALSE, FALSE)
  BY <1>1 DEF Segments, NewSegment, IsNew
<1>3. [NewSegment EXCEPT !.payload = c, !.syn = syn, !.fin = fin] = g3
  BY Zenon
<1> HIDE DEF g
<1>4. IsNew([g EXCEPT !.fin = TRUE], <<>>, FALSE, TRUE)
  BY <1>2, Zenon DEF Segments, IsNew
<1>5. IsNew(g1, c, FALSE, FALSE)
  BY <1>2, Zenon DEF Segments, IsNew
<1> HIDE DEF g1
<1>6. IsNew(g2, c, syn, FALSE)
  BY <1>5, Zenon DEF Segments, IsNew
<1> HIDE DEF g2
<1>7. IsNew(g3, c, syn, fin)
  BY <1>6, Zenon DEF Segments, IsNew
<1>8. QED
  BY <1>3, <1>4, <1>5, <1>7, Zenon DEF g, g1

\* A sender that takes bytes, and the end of input, from its stream.
Taken(x, bs, syned, fin) == [x EXCEPT !.stream = bs, !.syned = syned, !.fin = fin]

\* Nothing else of the sender changes by that.
LEMMA Taking ==
    ASSUME NEW x, IsSender(x), NEW bs, NEW syned, NEW fin
    PROVE  LET z == Taken(x, bs, syned, fin)
           IN  Prepared(x, z) /\ z.stream = bs /\ z.syned = syned /\ z.fin = fin
<1> DEFINE z1 == [x EXCEPT !.stream = bs]
           z2 == [z1 EXCEPT !.syned = syned]
           z3 == [z2 EXCEPT !.fin = fin]
<1>1. Taken(x, bs, syned, fin) = z3
  BY Zenon DEF Taken
<1>2. Prepared(x, z1) /\ z1.stream = bs
  BY DEF Prepared, IsSender
<1> HIDE DEF z1
<1>3. Prepared(x, z2) /\ z2.stream = bs /\ z2.syned = syned
  BY <1>2 DEF Prepared, IsSender
<1> HIDE DEF z2
<1>4. Prepared(x, z3) /\ z3.stream = bs /\ z3.syned = syned /\ z3.fin = fin
  BY <1>3 DEF Prepared, IsSender
<1>5. QED
  BY <1>1, <1>4, Zenon

\* y is x, having sent some more within the window.
Advances(x, y) ==
    /\ SenderOK(y)
    /\ \E n \in Nat : Further(x, y, n)
    /\ Tight(x) => Tight(y)

\* It may be none,
LEMMA NoAdvance == ASSUME NEW x, SenderOK(x) PROVE Advances(x, x)
<1>1. x.next_seqno \in Nat /\ x.window_used \in Nat
  BY Bounds, Widths
<1>2. Further(x, x, 0)
  BY <1>1 DEF Further
<1>3. QED
  BY <1>2 DEF Advances

\* and turns of the loop add up.
LEMMA AdvancesOn ==
    ASSUME NEW x, SenderOK(x), NEW y, NEW z, Advances(x, y), Advances(y, z)
    PROVE  Advances(x, z)
<1>1. x.next_seqno \in Nat /\ x.window_used \in Nat
  BY Bounds, Widths
<1>2. PICK n \in Nat : Further(x, y, n)
  BY DEF Advances
<1>3. PICK m \in Nat : Further(y, z, m)
  BY DEF Advances
<1>4. n + m \in Nat /\ Further(x, z, n + m)
  BY <1>1, <1>2, <1>3, SMTT(30) DEF Further
<1>5. QED
  BY <1>4 DEF Advances

\* What one turn of the loop puts into a segment, and the room for it.
Unused(x) == window_unused_size(x)
PayloadSize(x) == GreaterOf(1, LesserOf(Unused(x) - One(~x.syned), MAX_PAYLOAD_SIZE))
Content(x) == Peeked(x.stream, PayloadSize(x))
Rest(x) == Popped(x.stream, PayloadSize(x))
Ends(x) == FinFits(x, Rest(x), Content(x), Unused(x))

\* The content of the next segment: the next bytes of the stream, as many as
\* the window has room for.
LEMMA ContentFits ==
    ASSUME NEW x, SenderOK(x), Unused(x) # 0
    PROVE  /\ Content(x) \in Seq(Nat) /\ Len(Content(x)) \in Nat
           /\ \A k \in DOMAIN Content(x) : Content(x)[k] = x.stream.popped + k - 1
           /\ StreamOK(Rest(x)) /\ Rest(x).popped = x.stream.popped + Len(Content(x))
           /\ Rest(x).data = x.stream.data /\ Rest(x).input_ended = x.stream.input_ended
           /\ Ends(x) \in BOOLEAN
           /\ Ends(x) => ~x.fin /\ Rest(x).input_ended /\ Rest(x).popped = Len(Rest(x).data)
           /\ Unused(x) \in Nat /\ Unused(x) = x.window_size - x.window_used
           /\ Len(Content(x)) + One(Ends(x)) =< (IF x.syned THEN Unused(x) ELSE 1)
<1> DEFINE p == PayloadSize(x)
           u == Unused(x)
<1>1. /\ x.window_size \in Nat /\ x.window_used \in Nat /\ x.syned \in BOOLEAN /\ x.fin \in BOOLEAN
      /\ ~x.syned => x.window_size = 1
      /\ StreamOK(x.stream)
  BY DEF SenderOK, WindowOK, SentOK
<1>2. u \in Nat /\ u > 0 /\ u = x.window_size - x.window_used
  BY <1>1 DEF window_unused_size, Unused
<1>3. p \in Nat /\ p =< (IF x.syned THEN u ELSE 1)
  <2>1. MAX_PAYLOAD_SIZE \in Nat
    BY SenderAssumption
  <2>2. CASE x.syned
    BY <1>2, <2>1, <2>2 DEF PayloadSize, GreaterOf, LesserOf, One
  <2>3. CASE ~x.syned
    <3>1. u = 1
      BY <1>1, <1>2, <2>3
    <3>2. QED
      BY <3>1, <2>1, <2>3 DEF PayloadSize, GreaterOf, LesserOf, One
  <2>4. QED
    BY <2>2, <2>3
<1> DEFINE n == LesserOf(Len(x.stream.data) - x.stream.popped, p)
<1>4. /\ n \in Nat
      /\ Content(x) \in Seq(Nat) /\ Len(Content(x)) = n
      /\ \A k \in DOMAIN Content(x) : Content(x)[k] = x.stream.popped + k - 1
      /\ StreamOK(Rest(x)) /\ Rest(x).popped = x.stream.popped + n
      /\ Rest(x).data = x.stream.data /\ Rest(x).input_ended = x.stream.input_ended
  <2> HIDE DEF p
  <2>1. QED
    BY <1>1, <1>3, Reading, Zenon DEF Content, Rest, p
<1>5. n =< p
  <2>1. Len(x.stream.data) - x.stream.popped \in Nat
    BY <1>1 DEF StreamOK
  <2> HIDE DEF p
  <2>2. QED
    BY <1>3, <2>1 DEF LesserOf
<1>6. Ends(x) = (eof(Rest(x)) /\ ~x.fin /\ n + One(~x.syned) < u)
  BY <1>4 DEF Ends, FinFits
<1>7. Ends(x) \in BOOLEAN
  BY <1>6
<1>a. ASSUME Ends(x)
      PROVE  eof(Rest(x)) /\ ~x.fin /\ n + One(~x.syned) < u
  BY <1>6, <1>a, Zenon
<1> HIDE DEF n, p, u
<1>8. Ends(x) => ~x.fin /\ Rest(x).input_ended /\ Rest(x).popped = Len(Rest(x).data)
  <2>1. Rest(x).popped \in Nat /\ Len(Rest(x).data) \in Nat
    BY <1>4 DEF StreamOK
  <2> SUFFICES ASSUME Ends(x)
               PROVE  ~x.fin /\ Rest(x).input_ended /\ Rest(x).popped = Len(Rest(x).data)
    OBVIOUS
  <2>2. eof(Rest(x)) /\ ~x.fin
    BY <1>a
  <2>3. QED
    BY <2>1, <2>2 DEF eof, buffer_empty, buffer_size
<1>9. n + One(Ends(x)) =< (IF x.syned THEN u ELSE 1)
  <2>1. CASE ~Ends(x)
    <3>1. One(Ends(x)) = 0
      BY <2>1 DEF One
    <3>2. QED
      BY <1>2, <1>3, <1>4, <1>5, <3>1
  <2>2. CASE Ends(x) /\ x.syned
    <3>1. n + One(~x.syned) < u
      BY <1>a, <2>2
    <3>2. One(Ends(x)) = 1 /\ One(~x.syned) = 0
      BY <2>2 DEF One
    <3>3. n + 0 < u
      BY <3>1, <3>2, Zenon
    <3>4. n + 1 =< u
      BY <1>2, <1>4, <3>3
    <3>5. QED
      BY <2>2, <3>2, <3>4, Zenon
  <2>3. CASE Ends(x) /\ ~x.syned
    <3>1. u =< 1
      BY <1>1, <1>2, <2>3
    <3>2. n + 1 < u
      BY <1>a, <2>3 DEF One
    <3>3. QED
      BY <1>2, <1>4, <3>1, <3>2
  <2>4. QED
    BY <2>1, <2>2, <2>3
<1>10. QED
  BY <1>2, <1>4, <1>7, <1>8, <1>9, ZenonT(40) DEF n, u

\* A turn of the loop of fill_window keeps the sender in order and within the
\* window.
LEMMA FillTurn == ASSUME NEW x, SenderOK(x) PROVE Advances(x, FillOnce(x))
<1> DEFINE seg == [NewSegment EXCEPT !.payload = Content(x), !.syn = ~x.syned, !.fin = Ends(x)]
           z == [x EXCEPT !.stream = Rest(x), !.syned = TRUE, !.fin = x.fin \/ Ends(x)]
           len == length_in_sequence_space(seg)
           idle == \/ buffer_empty(x.stream) /\ x.syned /\ x.fin
                   \/ Unused(x) = 0
                   \/ len = 0
           y == Send(z, seg)
<1>1. FillOnce(x) = IF idle THEN x ELSE y
  BY Zenon DEF FillOnce, Unused, PayloadSize, Content, Rest, Ends
<1>2. CASE idle
  <2>1. FillOnce(x) = x
    BY <1>1, <1>2, Zenon
  <2>2. QED
    BY <2>1, NoAdvance, Zenon
<1>3. CASE ~idle
  <2>1. FillOnce(x) = y /\ Unused(x) # 0 /\ len # 0
    BY <1>1, <1>3, Zenon
  <2> DEFINE c == Content(x)
             ends == Ends(x)
             popped == x.stream.popped
             size == Len(c)
  <2>2. /\ c \in Seq(Nat) /\ size \in Nat /\ ends \in BOOLEAN
        /\ \A k \in DOMAIN c : c[k] = popped + k - 1
        /\ StreamOK(Rest(x)) /\ Rest(x).popped = popped + size
        /\ Rest(x).data = x.stream.data /\ Rest(x).input_ended = x.stream.input_ended
        /\ ends => ~x.fin /\ Rest(x).input_ended /\ Rest(x).popped = Len(Rest(x).data)
        /\ Unused(x) \in Nat /\ Unused(x) = x.window_size - x.window_used
        /\ size + One(ends) =< (IF x.syned THEN Unused(x) ELSE 1)
    BY <2>1, ContentFits, ZenonT(40)
  <2>3. /\ x.syned \in BOOLEAN /\ x.fin \in BOOLEAN /\ IsSender(x)
        /\ x.next_seqno = One(x.syned) + popped + One(x.fin)
        /\ x.fin => x.syned /\ x.stream.input_ended /\ popped = Len(x.stream.data)
        /\ ~x.syned => popped = 0 /\ x.window_size = 1
        /\ popped \in Nat /\ Len(x.stream.data) \in Nat
    BY SMTT(30) DEF SenderOK, SentOK, StreamOK
  <2> HIDE DEF c, ends, popped
  <2>4. IsNew(seg, c, ~x.syned, ends)
    BY <2>2, <2>3, NewSegments, Zenon DEF c, ends
  <2>5. Prepared(x, z) /\ z.stream = Rest(x) /\ z.syned = TRUE /\ z.fin = (x.fin \/ ends)
    <3> DEFINE f == x.fin \/ Ends(x)
               t == TRUE
               bs == Rest(x)
               v == Taken(x, bs, t, f)
    <3>1. z = v
      BY Zenon DEF Taken
    <3> HIDE DEF f, t, bs, z
    <3>2. Prepared(x, v) /\ v.stream = bs /\ v.syned = t /\ v.fin = f
      BY <2>3, Taking
    <3>3. QED
      BY <3>1, <3>2, Zenon DEF f, t, bs, ends
  <2> HIDE DEF seg, z, y
  <2>6. seg \in Segments /\ len = size + One(~x.syned) + One(ends) /\ len \in Nat
    BY <2>4, SegmentNumbers DEF IsNew
  <2> HIDE DEF len
  <2>a. One(x.syned) + One(~x.syned) = 1 /\ One(x.fin) \in {0, 1} /\ One(ends) \in {0, 1}
    BY <2>3 DEF One
  <2>b. One(x.fin \/ ends) = One(x.fin) + One(ends)
    BY <2>2, <2>3 DEF One
  <2>7. x.next_seqno + len = 1 + z.stream.popped + One(z.fin)
    <3>1. One(z.fin) = One(x.fin) + One(ends)
      BY <2>5, <2>b, ZenonT(40)
    <3>2. z.stream.popped = popped + size
      BY <2>5, <2>2
    <3>3. One(x.syned) \in {0, 1} /\ One(~x.syned) \in {0, 1}
      BY OneIsSmall, ZenonT(40)
    <3> DEFINE a == One(x.syned)
               b == One(~x.syned)
               d == One(x.fin)
               e == One(ends)
    <3>4. /\ x.next_seqno = a + popped + d /\ len = size + b + e /\ a + b = 1
          /\ a \in Nat /\ b \in Nat /\ d \in Nat /\ e \in Nat /\ popped \in Nat /\ size \in Nat
          /\ One(z.fin) = d + e
      BY <2>2, <2>3, <2>6, <2>a, <3>1, <3>3, SMTT(30)
    <3> HIDE DEF a, b, d, e, size
    <3>5. QED
      BY <3>2, <3>4
  <2>8. z.fin => z.stream.input_ended /\ z.stream.popped = Len(z.stream.data)
    <3>1. CASE ends
      BY <2>2, <2>5, <3>1, ZenonT(40)
    <3>2. CASE x.fin
      <4>1. Rest(x).popped \in 0 .. Len(Rest(x).data)
        BY <2>2 DEF StreamOK
      <4>2. popped + size = popped
        BY <2>2, <2>3, <3>2, <4>1
      <4>3. QED
        BY <2>2, <2>3, <2>5, <3>2, <4>2, ZenonT(40)
    <3>3. QED
      BY <2>5, <3>1, <3>2, Zenon
  <2>9. \A k \in DOMAIN seg.payload : x.next_seqno + One(seg.syn) + k - 1 = seg.payload[k] + 1
    <3>1. seg.payload = c /\ seg.syn = ~x.syned
      BY <2>4 DEF IsNew
    <3> SUFFICES ASSUME NEW k \in DOMAIN c
                 PROVE  x.next_seqno + One(~x.syned) + k - 1 = c[k] + 1
      BY <3>1, Zenon
    <3>2. k \in 1 .. size /\ c[k] = popped + k - 1
      BY <2>2, SMTT(30)
    <3>3. ~x.fin
      <4> SUFFICES ASSUME x.fin PROVE FALSE
        OBVIOUS
      <4>1. Rest(x).popped \in 0 .. Len(Rest(x).data)
        BY <2>2 DEF StreamOK
      <4>2. QED
        BY <2>2, <2>3, <3>2, <4>1, SMTT(30)
    <3>4. One(x.fin) = 0 /\ One(x.syned) \in {0, 1} /\ One(~x.syned) \in {0, 1}
      BY <3>3 DEF One
    <3>5. QED
      BY <2>3, <2>a, <3>2, <3>4
  <2>10. z.fin \in BOOLEAN /\ StreamOK(z.stream) /\ len > 0
    BY <2>1, <2>2, <2>5, <2>6, SMTT(30)
  <2>11. SenderOK(y) /\ Further(x, y, len)
    BY <2>5, <2>6, <2>7, <2>8, <2>9, <2>10, SendKeeps, ZenonT(40) DEF y, len
  <2>12. Tight(x) => Tight(y)
    <3> SUFFICES ASSUME Tight(x) PROVE Tight(y)
      OBVIOUS
    <3> DEFINE una == At(x.latest_ackno)
               used == x.window_used
               room == x.window_size
               next == x.next_seqno
    <3>1. /\ una + used = next /\ room > 0 /\ next =< GreaterOf(2, una + room)
          /\ una \in Nat /\ used \in Nat /\ room \in Nat /\ next \in Nat
      BY Bounds, Widths DEF Tight
    <3>2. /\ At(y.latest_ackno) = una /\ y.window_used = used + len
          /\ y.window_size = room /\ y.next_seqno = next + len
      BY <2>11 DEF Further
    <3>3. next + len =< GreaterOf(2, una + room)
      <4>1. CASE x.syned
        <5>1. One(~x.syned) = 0
          BY <4>1 DEF One
        <5>2. len =< room - used
          BY <2>2, <2>6, <2>a, <4>1, <5>1
        <5>3. QED
          BY <2>6, <3>1, <5>2, SMTT(30) DEF GreaterOf
      <4>2. CASE ~x.syned
        <5>1. One(~x.syned) = 1 /\ One(x.syned) = 0 /\ One(x.fin) = 0
          BY <2>3, <4>2, ZenonT(40) DEF One
        <5>2. next = 0 /\ len =< 2
          BY <2>2, <2>3, <2>6, <2>a, <4>2, <5>1
        <5>3. QED
          BY <2>6, <3>1, <5>2, SMTT(30) DEF GreaterOf
      <4>3. QED
        BY <4>1, <4>2
    <3>4. una + (used + len) = next + len
      BY <2>6, <3>1, SMTT(30)
    <3> HIDE DEF una, used, room, next
    <3>5. QED
      BY <3>1, <3>2, <3>3, <3>4 DEF Tight
  <2>13. QED
    BY <2>1, <2>6, <2>11, <2>12 DEF Advances
<1>4. QED
  BY <1>2, <1>3

\* So does the probe of a window that is closed.
LEMMA ProbeKeeps ==
    ASSUME NEW x, SenderOK(x), x.window_size = 0
    PROVE  Advances(x, ProbeZeroWindow(x))
<1> DEFINE bs == x.stream
           c == Peeked(bs, 1)
           rest == Popped(bs, 1)
           n == LesserOf(Len(bs.data) - bs.popped, 1)
           byte == [NewSegment EXCEPT !.payload = c]
           end == [NewSegment EXCEPT !.fin = TRUE]
           z1 == [x EXCEPT !.stream = rest]
           z2 == [x EXCEPT !.fin = TRUE]
<1>1. ProbeZeroWindow(x) = IF ~buffer_empty(bs) THEN Send(z1, byte)
                           ELSE IF eof(bs) /\ ~x.fin THEN Send(z2, end) ELSE x
  BY ZenonT(40) DEF ProbeZeroWindow
<1>2. /\ StreamOK(bs) /\ IsSender(x) /\ x.syned = TRUE /\ x.fin \in BOOLEAN
      /\ x.next_seqno = 1 + bs.popped + One(x.fin)
      /\ x.fin => bs.input_ended /\ bs.popped = Len(bs.data)
  BY DEF SenderOK, SentOK, One
<1>3. /\ n \in Nat /\ c \in Seq(Nat) /\ Len(c) = n
      /\ \A k \in DOMAIN c : c[k] = bs.popped + k - 1
      /\ StreamOK(rest) /\ rest.popped = bs.popped + n
      /\ rest.data = bs.data /\ rest.input_ended = bs.input_ended
  <2> DEFINE one == 1
  <2>1. one \in Nat
    OBVIOUS
  <2> HIDE DEF one
  <2>2. LET m == LesserOf(Len(bs.data) - bs.popped, one)
        IN  /\ m \in Nat /\ Peeked(bs, one) \in Seq(Nat) /\ Len(Peeked(bs, one)) = m
            /\ \A k \in DOMAIN Peeked(bs, one) : Peeked(bs, one)[k] = bs.popped + k - 1
            /\ StreamOK(Popped(bs, one)) /\ Popped(bs, one).popped = bs.popped + m
            /\ Popped(bs, one).data = bs.data /\ Popped(bs, one).input_ended = bs.input_ended
    BY <1>2, <2>1, Reading, Zenon
  <2>3. QED
    BY <2>2, Zenon DEF one
<1>4. bs.popped \in Nat /\ Len(bs.data) \in Nat /\ bs.popped =< Len(bs.data)
  BY <1>2 DEF StreamOK
<1>a. ~Tight(x)
  BY DEF Tight
<1>5. CASE ~buffer_empty(bs)
  <2>1. n = 1 /\ Len(bs.data) # bs.popped
    BY <1>4, <1>5 DEF buffer_empty, buffer_size, LesserOf
  <2>2. x.fin = FALSE /\ One(FALSE) = 0 /\ x.next_seqno = 1 + bs.popped
    <3>1. x.fin = FALSE
      BY <1>2, <2>1
    <3>2. One(x.fin) = 0 /\ One(FALSE) = 0
      BY <3>1 DEF One
    <3>3. x.next_seqno = 1 + bs.popped
      BY <1>2, <1>4, <3>2
    <3>4. QED
      BY <3>1, <3>2, <3>3, Zenon
  <2>3. Prepared(x, z1) /\ z1.stream = rest /\ z1.syned = TRUE /\ z1.fin = FALSE
    BY <1>2, <2>2, SMTT(30) DEF Prepared, IsSender
  <2>4. IsNew(byte, c, FALSE, FALSE)
    BY <1>3, NewSegments, Zenon
  <2> HIDE DEF n, c, rest, byte, z1, bs
  <2>5. byte \in Segments /\ length_in_sequence_space(byte) = 1
    <3>1. byte \in Segments /\ byte.payload = c /\ byte.syn = FALSE /\ byte.fin = FALSE
      BY <2>4 DEF IsNew
    <3>2. length_in_sequence_space(byte) = Len(byte.payload) + One(byte.syn) + One(byte.fin)
      BY <3>1, SegmentNumbers
    <3>3. Len(byte.payload) = 1 /\ One(byte.syn) = 0 /\ One(byte.fin) = 0
      BY <1>3, <2>1, <2>2, <3>1, ZenonT(40)
    <3>4. QED
      BY <3>1, <3>2, <3>3
  <2>6. x.next_seqno + 1 = 1 + z1.stream.popped + One(z1.fin)
    <3>1. One(z1.fin) = 0
      BY <2>2, <2>3, Zenon
    <3>2. QED
      BY <1>3, <1>4, <2>1, <2>2, <2>3, <3>1
  <2>7. \A k \in DOMAIN byte.payload : x.next_seqno + One(byte.syn) + k - 1 = byte.payload[k] + 1
    <3>1. byte.payload = c /\ byte.syn = FALSE
      BY <2>4 DEF IsNew
    <3> SUFFICES ASSUME NEW k \in DOMAIN c
                 PROVE  x.next_seqno + 0 + k - 1 = c[k] + 1
      BY <2>2, <3>1, Zenon
    <3>2. k \in Nat /\ c[k] = bs.popped + k - 1
      BY <1>3
    <3>3. QED
      BY <1>4, <2>2, <3>2
  <2>8. SenderOK(Send(z1, byte)) /\ Further(x, Send(z1, byte), 1)
    <3>a. length_in_sequence_space(byte) > 0
      BY <2>5
    <3>1. /\ StreamOK(z1.stream) /\ z1.fin \in BOOLEAN /\ ~z1.fin
          /\ x.next_seqno + length_in_sequence_space(byte) = 1 + z1.stream.popped + One(z1.fin)
      BY <1>3, <2>3, <2>5, <2>6, Zenon
    <3>2. /\ SenderOK(Send(z1, byte))
          /\ Further(x, Send(z1, byte), length_in_sequence_space(byte))
      BY <2>3, <2>5, <2>7, <3>a, <3>1, SendKeeps, Zenon
    <3>3. QED
      BY <2>5, <3>2, Zenon
  <2>9. QED
    BY <1>1, <1>5, <1>a, <2>8 DEF Advances
<1>6. CASE buffer_empty(bs) /\ eof(bs) /\ ~x.fin
  <2>1. bs.popped = Len(bs.data) /\ bs.input_ended /\ One(TRUE) = 1
    BY <1>4, <1>6 DEF eof, buffer_empty, buffer_size, One
  <2>a. x.next_seqno = 1 + bs.popped
    <3>1. One(x.fin) = 0
      BY <1>6 DEF One
    <3>2. QED
      BY <1>2, <1>4, <3>1
  <2>2. Prepared(x, z2) /\ z2.stream = bs /\ z2.syned = TRUE /\ z2.fin = TRUE
    <3> DEFINE t == TRUE
               v == [x EXCEPT !.fin = t]
    <3>1. z2 = v
      BY Zenon
    <3> HIDE DEF t, z2
    <3>2. Prepared(x, v) /\ v.stream = bs /\ v.syned = TRUE /\ v.fin = t
      BY <1>2, SMTT(30) DEF Prepared, IsSender
    <3>3. QED
      BY <3>1, <3>2, Zenon DEF t
  <2>3. IsNew(end, <<>>, FALSE, TRUE)
    BY <1>3, NewSegments, Zenon
  <2> HIDE DEF end, z2, bs
  <2>4. end \in Segments /\ length_in_sequence_space(end) = 1 /\ end.payload = <<>>
    <3>1. length_in_sequence_space(end) = Len(<<>>) + One(FALSE) + One(TRUE)
      BY <2>3, SegmentNumbers, Zenon DEF IsNew
    <3>2. QED
      BY <2>3, <3>1 DEF One, IsNew
  <2>5. x.next_seqno + 1 = 1 + z2.stream.popped + One(z2.fin)
    <3>1. One(z2.fin) = 1
      BY <2>1, <2>2, Zenon
    <3>2. QED
      BY <1>4, <2>2, <2>a, <3>1
  <2>6. SenderOK(Send(z2, end)) /\ Further(x, Send(z2, end), 1)
    <3>a. length_in_sequence_space(end) > 0
      BY <2>4
    <3>1. /\ StreamOK(z2.stream) /\ z2.fin \in BOOLEAN
          /\ z2.stream.input_ended /\ z2.stream.popped = Len(z2.stream.data)
          /\ x.next_seqno + length_in_sequence_space(end) = 1 + z2.stream.popped + One(z2.fin)
      BY <1>2, <2>1, <2>2, <2>4, <2>5, Zenon
    <3>2. \A k \in DOMAIN end.payload : x.next_seqno + One(end.syn) + k - 1 = end.payload[k] + 1
      BY <2>4
    <3>3. /\ SenderOK(Send(z2, end))
          /\ Further(x, Send(z2, end), length_in_sequence_space(end))
      BY <2>2, <2>4, <3>a, <3>1, <3>2, SendKeeps, Zenon
    <3>4. QED
      BY <2>4, <3>3, Zenon
  <2>7. QED
    BY <1>1, <1>6, <1>a, <2>6 DEF Advances
<1>7. CASE buffer_empty(bs) /\ ~(eof(bs) /\ ~x.fin)
  <2>1. ProbeZeroWindow(x) = x
    BY <1>1, <1>7, Zenon
  <2>2. QED
    BY <2>1, NoAdvance, Zenon
<1>8. QED
  BY <1>5, <1>6, <1>7

\* A set of numbers that is not empty has a least one: induction over the turns
\* of the loop, and over the cache.
LEMMA LeastNat ==
    ASSUME NEW T \in SUBSET Nat, T # {}
    PROVE  \E x \in T : \A y \in T : x =< y
<1> DEFINE R == OpToRel(<, Nat)
<1>1. IsWellFoundedOn(R, Nat)
  BY NatLessThanWellFounded, Zenon
<1>2. R = {ss \in Nat \X Nat : ss[1] < ss[2]}
  BY DEF OpToRel
<1> HIDE DEF R
<1>3. PICK x \in T : \A y \in T : ~(<<y, x>> \in R)
  BY <1>1, WFMin, Zenon
<1>4. \A y \in T : x =< y
  <2> TAKE y \in T
  <2>1. x \in Nat /\ y \in Nat /\ <<y, x>> \notin R
    BY <1>3
  <2>2. ~(y < x)
    BY <1>2, <2>1
  <2>3. QED
    BY <2>1, <2>2
<1>5. QED
  BY <1>4

\* What the loop of fill_window computes in n turns.
IsLoop(x, n, f) == f = [i \in 0 .. n |-> IF i = 0 THEN x ELSE FillOnce(f[i - 1])]

\* The loop can be unfolded any number of times.
LEMMA LoopExists == ASSUME NEW x, NEW n \in Nat PROVE \E f : IsLoop(x, n, f)
<1> DEFINE T == {m \in Nat : ~\E f : IsLoop(x, m, f)}
<1> SUFFICES ASSUME T # {} PROVE FALSE
  BY Zenon
<1>1. PICK m \in T : \A k \in T : m =< k
  <2> HIDE DEF T
  <2>1. T \in SUBSET Nat
    BY DEF T
  <2>2. QED
    BY <2>1, LeastNat
<1>2. m \in Nat /\ ~\E f : IsLoop(x, m, f)
  BY <1>1, Zenon
<1>3. CASE m = 0
  <2> DEFINE g == [i \in 0 .. 0 |-> x]
  <2>1. g = [i \in 0 .. 0 |-> IF i = 0 THEN x ELSE FillOnce(g[i - 1])]
    <3>1. \A i \in 0 .. 0 : i = 0
      OBVIOUS
    <3>2. QED
      BY <3>1, Zenon
  <2>2. IsLoop(x, m, g)
    BY <1>3, <2>1, Zenon DEF IsLoop
  <2>3. QED
    BY <1>2, <2>2, Zenon
<1>4. CASE m # 0
  <2>1. m - 1 \in Nat /\ ~(m =< m - 1)
    BY <1>2, <1>4
  <2>2. PICK f : IsLoop(x, m - 1, f)
    BY <1>1, <2>1, Zenon
  <2> DEFINE g == [i \in 0 .. m |-> IF i = m THEN FillOnce(f[m - 1]) ELSE f[i]]
  <2>3. \A i \in 0 .. m : g[i] = IF i = 0 THEN x ELSE FillOnce(g[i - 1])
    <3> TAKE i \in 0 .. m
    <3>1. CASE i = 0
      <4>1. 0 \in 0 .. m - 1 /\ 0 # m
        BY <1>2, <1>4
      <4>2. f[0] = x
        BY <2>2, <4>1, Zenon DEF IsLoop
      <4>3. QED
        BY <3>1, <4>1, <4>2, Zenon
    <3>2. CASE i = m
      <4>1. m - 1 \in 0 .. m /\ m - 1 # m
        BY <1>2, <1>4
      <4>2. g[m - 1] = f[m - 1]
        BY <4>1, Zenon
      <4>3. QED
        BY <1>4, <3>2, <4>2, Zenon
    <3>3. CASE i # 0 /\ i # m
      <4>1. i \in 0 .. m - 1 /\ i - 1 \in 0 .. m /\ i - 1 # m
        BY <1>2, <3>3
      <4>2. f[i] = FillOnce(f[i - 1])
        BY <2>2, <3>3, <4>1, Zenon DEF IsLoop
      <4>3. g[i - 1] = f[i - 1] /\ g[i] = f[i]
        BY <3>3, <4>1, Zenon
      <4>4. QED
        BY <3>3, <4>2, <4>3, Zenon
    <3>4. QED
      BY <3>1, <3>2, <3>3
  <2>4. IsLoop(x, m, g)
    BY <2>3, Zenon DEF IsLoop
  <2>5. QED
    BY <1>2, <2>4, Zenon
<1>5. QED
  BY <1>3, <1>4

\* So fill_window as a whole keeps the sender in order and within the window.
LEMMA FillKeeps == ASSUME NEW x, SenderOK(x) PROVE Advances(x, fill_window(x))
<1> DEFINE n == x.window_size
           after[turns \in 0 .. x.window_size] ==
               IF turns = 0 THEN x ELSE FillOnce(after[turns - 1])
<1>1. n \in Nat
  BY Bounds
<1>2. after = CHOOSE f : f = [turns \in 0 .. x.window_size |->
                                 IF turns = 0 THEN x ELSE FillOnce(f[turns - 1])]
  BY DEF after
<1>3. PICK f : f = [turns \in 0 .. x.window_size |->
                       IF turns = 0 THEN x ELSE FillOnce(f[turns - 1])]
  BY <1>1, LoopExists, Zenon DEF IsLoop
<1>4. after = [turns \in 0 .. x.window_size |->
                  IF turns = 0 THEN x ELSE FillOnce(after[turns - 1])]
  BY <1>2, <1>3, Zenon
<1>5. fill_window(x) = IF x.window_size = 0 /\ x.window_used = 0 THEN ProbeZeroWindow(x)
                       ELSE after[x.window_size]
  BY Zenon DEF fill_window
<1> HIDE DEF after
<1>6. CASE x.window_size = 0 /\ x.window_used = 0
  <2>1. fill_window(x) = ProbeZeroWindow(x)
    BY <1>5, <1>6, Zenon
  <2>2. QED
    BY <1>6, <2>1, ProbeKeeps, Zenon
<1>7. \A i \in 0 .. n : Advances(x, after[i])
  <2> DEFINE T == {i \in 0 .. n : ~Advances(x, after[i])}
  <2> SUFFICES ASSUME T # {} PROVE FALSE
    BY Zenon
  <2>1. PICK m \in T : \A k \in T : m =< k
    <3>1. T \in SUBSET Nat
      BY <1>1
    <3> HIDE DEF T
    <3>2. QED
      BY <3>1, LeastNat
  <2>2. m \in 0 .. n /\ ~Advances(x, after[m])
    BY <2>1, Zenon
  <2>3. CASE m = 0
    <3>1. after[m] = x
      BY <1>4, <2>2, <2>3, Zenon
    <3>2. QED
      BY <2>2, <3>1, NoAdvance, Zenon
  <2>4. CASE m # 0
    <3>1. m - 1 \in 0 .. n /\ ~(m =< m - 1)
      BY <1>1, <2>2, <2>4
    <3>2. Advances(x, after[m - 1])
      BY <2>1, <3>1, Zenon
    <3>3. after[m] = FillOnce(after[m - 1])
      BY <1>4, <2>2, <2>4, Zenon
    <3>4. Advances(after[m - 1], after[m])
      BY <3>2, <3>3, FillTurn, Zenon DEF Advances
    <3>5. QED
      BY <2>2, <3>2, <3>4, AdvancesOn, Zenon
  <2>5. QED
    BY <2>3, <2>4
<1>8. CASE ~(x.window_size = 0 /\ x.window_used = 0)
  <2>1. n \in 0 .. n
    BY <1>1
  <2>2. QED
    BY <1>5, <1>7, <1>8, <2>1, Zenon
<1>9. QED
  BY <1>6, <1>8

-----------------------------------------------------------------------------
(* Acknowledgments. *)

\* A segment counts as acknowledged once its last number is.
LEMMA AckedMeans ==
    ASSUME NEW x, x.isn = Isn, x.next_seqno \in 0 .. StreamLen + 2,
           x.latest_ackno \in Raw, At(x.latest_ackno) =< x.next_seqno,
           NEW seg, SegmentOK(seg, x.next_seqno)
    PROVE  IsAcked(x, seg) <=> At(x.latest_ackno) >= EndOf(seg)
<1> DEFINE r == Plus(seg.seqno, length_in_sequence_space(seg))
           len == length_in_sequence_space(seg)
<1>1. /\ seg \in Segments /\ EndOf(seg) =< x.next_seqno /\ seg.seqno \in Raw
      /\ len \in Nat /\ EndOf(seg) = At(seg.seqno) + len /\ EndOf(seg) \in Nat
  BY SegmentNumbers, Zenon DEF SegmentOK, Segments
<1>2. StreamLen \in Nat /\ StreamLen + 2 < U32 /\ U32 \in Nat
  BY Widths
<1>3. EndOf(seg) < U32 /\ EndOf(seg) =< StreamLen + 2
  BY <1>1, <1>2, SMTT(30)
<1> HIDE DEF len
<1>4. Plus(seg.seqno, len) \in Raw /\ At(Plus(seg.seqno, len)) = At(seg.seqno) + len
  BY <1>1, <1>3, Places
<1>5. r \in Raw /\ At(r) = EndOf(seg)
  BY <1>1, <1>4, Zenon DEF len
<1>6. At(x.latest_ackno) =< StreamLen + 2
  <2>1. At(x.latest_ackno) \in Nat
    BY AtIsSmall
  <2>2. QED
    BY <1>2, <2>1
<1>7. AbsoluteOf(x, x.latest_ackno) = At(x.latest_ackno)
  BY <1>6, Unwrapped
<1> HIDE DEF r
<1>8. AbsoluteOf(x, r) = At(r)
  BY <1>3, <1>5, Unwrapped
<1>9. IsAcked(x, seg) <=> AbsoluteOf(x, x.latest_ackno) >= AbsoluteOf(x, r)
  BY Zenon DEF IsAcked, r
<1>10. QED
  BY <1>5, <1>7, <1>8, <1>9, Zenon

\* What is left of a cache when its first m segments are dropped.
LEMMA CacheShrinks ==
    ASSUME NEW cache, NEW una \in Nat, NEW next \in Nat, CacheOK(cache, una, next),
           NEW later \in Nat, una =< later, later =< next, NEW m \in 0 .. Len(cache),
           \A i \in 1 .. m : later >= EndOf(cache[i].seg),
           m < Len(cache) => ~(later >= EndOf(cache[m + 1].seg))
    PROVE  CacheOK(SubSeq(cache, m + 1, Len(cache)), later, next)
<1> DEFINE entries == [age : Nat, seg : Segments]
           left == SubSeq(cache, m + 1, Len(cache))
           len == Len(cache)
<1>1. /\ cache \in Seq(entries) /\ len \in Nat /\ DOMAIN cache = 1 .. len
      /\ \A i \in 1 .. len : cache[i] \in entries /\ SegmentOK(cache[i].seg, next)
                             /\ cache[i].seg \in Segments
  <2>1. cache \in Seq(entries) /\ \A i \in DOMAIN cache : SegmentOK(cache[i].seg, next)
    BY DEF CacheOK
  <2> HIDE DEF entries
  <2>2. len \in Nat /\ DOMAIN cache = 1 .. len /\ \A i \in 1 .. len : cache[i] \in entries
    BY <2>1
  <2>3. \A i \in 1 .. len : cache[i].seg \in Segments
    BY <2>1, <2>2, Zenon DEF SegmentOK
  <2>4. QED
    BY <2>1, <2>2, <2>3, Zenon
<1>2. \A i \in 1 .. len : EndOf(cache[i].seg) \in Nat /\ At(cache[i].seg.seqno) \in Nat
  BY <1>1, SegmentNumbers, ZenonT(40)
<1>3. /\ len > 0 => /\ At(cache[1].seg.seqno) =< una
                    /\ EndOf(cache[len].seg) = next
      /\ len = 0 => una = next
      /\ \A i \in 1 .. len - 1 : At(cache[i + 1].seg.seqno) = EndOf(cache[i].seg)
  <2>1. cache = <<>> <=> len = 0
    BY <1>1
  <2>2. len > 0 => cache # <<>>
    BY <2>1
  <2>3. QED
    BY <2>1, <2>2 DEF CacheOK
<1> HIDE DEF entries
<1>4. /\ left \in Seq(entries) /\ Len(left) = len - m /\ DOMAIN left = 1 .. len - m
      /\ \A i \in 1 .. len - m : left[i] = cache[m + i]
  <2> DEFINE from == m + 1
             part == SubSeq(cache, from, len)
  <2>1. from \in 1 .. len + 1 /\ len \in from - 1 .. len /\ len - from + 1 = len - m
    BY <1>1
  <2> HIDE DEF from
  <2>a. /\ part \in Seq(entries) /\ Len(part) = len - from + 1
        /\ \A i \in 1 .. len - from + 1 : part[i] = cache[from + i - 1]
    <3>1. cache \in Seq(entries)
      BY <1>1
    <3>2. QED
      BY <2>1, <3>1, Slice, SMTT(30)
  <2>2. /\ part \in Seq(entries) /\ Len(part) = len - m
        /\ \A i \in 1 .. len - m : part[i] = cache[from + i - 1]
    BY <2>1, <2>a, Zenon
  <2>3. part = left
    BY Zenon DEF from
  <2> HIDE DEF part, left
  <2>4. \A i \in 1 .. len - m : from + i - 1 = m + i
    BY <1>1 DEF from
  <2>5. DOMAIN part = 1 .. len - m
    BY <2>2
  <2>6. QED
    BY <2>2, <2>3, <2>4, <2>5, Zenon
<1>a. m \in Nat /\ m =< len /\ len \in Nat
  BY <1>1
<1> HIDE DEF left, len
<1>5. \A i \in 1 .. len - m : m + i \in 1 .. len
  BY <1>1 DEF len
<1>6. \A i \in DOMAIN left : SegmentOK(left[i].seg, next)
  BY <1>1, <1>4, <1>5, SMTT(30)
<1>7. left = <<>> => later = next
  <2> SUFFICES ASSUME left = <<>> PROVE later = next
    OBVIOUS
  <2>1. m = len
    <3>1. Len(left) = 0
      OBVIOUS
    <3>2. QED
      BY <1>a, <1>4, <3>1
  <2>2. CASE len = 0
    BY <1>3, <2>2
  <2>3. CASE len > 0
    <3>1. len \in 1 .. m
      BY <1>1, <2>1, <2>3, SMTT(30)
    <3>2. QED
      BY <1>3, <2>3, <3>1
  <2>4. QED
    BY <1>1, <2>2, <2>3
<1>8. ASSUME left # <<>>
      PROVE  /\ At(left[1].seg.seqno) =< later /\ later < EndOf(left[1].seg)
             /\ EndOf(left[Len(left)].seg) = next
  <2>1. m < len /\ len > 0 /\ m \in Nat
    <3>1. Len(left) # 0
      BY <1>4, <1>8
    <3>2. QED
      BY <1>a, <1>4, <3>1
  <2>2. m + 1 \in 1 .. len /\ 1 \in 1 .. len - m /\ Len(left) \in 1 .. len - m
    BY <1>1, <1>4, <2>1, SMTT(30)
  <2>3. left[1] = cache[m + 1] /\ left[Len(left)] = cache[len]
    <3>1. m + Len(left) = len
      BY <1>1, <1>4, <2>1
    <3>2. QED
      BY <1>4, <2>2, <3>1, ZenonT(40)
  <2>4. later < EndOf(cache[m + 1].seg)
    BY <1>2, <2>1, <2>2 DEF len
  <2>5. At(cache[m + 1].seg.seqno) =< later
    <3>1. CASE m = 0
      <4>1. At(cache[1].seg.seqno) \in Nat /\ At(cache[1].seg.seqno) =< una
        BY <1>2, <1>3, <2>1, <2>2, <3>1
      <4>2. QED
        BY <3>1, <4>1
    <3>2. CASE m > 0
      <4>1. m \in 1 .. len - 1 /\ m \in 1 .. m
        BY <1>1, <2>1, <3>2, SMTT(30)
      <4>2. At(cache[m + 1].seg.seqno) = EndOf(cache[m].seg) /\ later >= EndOf(cache[m].seg)
        BY <1>3, <4>1
      <4>3. EndOf(cache[m].seg) \in Nat
        <5>1. m \in 1 .. len
          BY <1>a, <3>2
        <5>2. QED
          BY <1>2, <5>1
      <4>4. QED
        BY <4>2, <4>3
    <3>3. QED
      BY <2>1, <3>1, <3>2
  <2>6. QED
    BY <1>3, <2>1, <2>3, <2>4, <2>5
<1>9. \A i \in 1 .. Len(left) - 1 : At(left[i + 1].seg.seqno) = EndOf(left[i].seg)
  <2> TAKE i \in 1 .. Len(left) - 1
  <2>1. i \in 1 .. len - m /\ i + 1 \in 1 .. len - m /\ m + i \in 1 .. len - 1
        /\ m + (i + 1) = (m + i) + 1
    BY <1>1, <1>4 DEF len
  <2>2. left[i] = cache[m + i] /\ left[i + 1] = cache[(m + i) + 1]
    BY <1>4, <2>1, Zenon
  <2>3. QED
    BY <1>3, <2>1, <2>2, Zenon
<1>10. QED
  BY <1>4, <1>6, <1>7, <1>8, <1>9, Zenon DEF CacheOK, left, entries, len

\* The number of segments that remove_acked_seg drops: as many of the first as
\* are in the set A.
LEMMA FrontExists ==
    ASSUME NEW len \in Nat, NEW A
    PROVE  \E n \in 0 .. len : (\A i \in 1 .. n : i \in A) /\ (n < len => n + 1 \notin A)
<1> DEFINE T == {n \in 0 .. len : n < len => n + 1 \notin A}
<1>1. len \in T /\ T \in SUBSET Nat
  OBVIOUS
<1>2. PICK n \in T : \A k \in T : n =< k
  <2> HIDE DEF T
  <2>1. QED
    BY <1>1, LeastNat
<1>3. n \in 0 .. len /\ (n < len => n + 1 \notin A)
  BY <1>2
<1>4. \A i \in 1 .. n : i \in A
  <2> SUFFICES ASSUME NEW i \in 1 .. n, i \notin A PROVE FALSE
    OBVIOUS
  <2>1. i - 1 \in 0 .. len /\ (i - 1) + 1 = i /\ ~(n =< i - 1)
    BY <1>3
  <2>2. i - 1 \in T
    BY <2>1
  <2>3. QED
    BY <1>2, <2>1, <2>2
<1>5. QED
  BY <1>3, <1>4

\* remove_acked_seg leaves what is not acknowledged; nothing is dropped if the
\* latest acknowledgment has not changed.
LEMMA Removing ==
    ASSUME NEW x, x.isn = Isn, x.next_seqno \in 0 .. StreamLen + 2,
           x.latest_ackno \in Raw, At(x.latest_ackno) =< x.next_seqno,
           NEW una \in Nat, una =< At(x.latest_ackno), CacheOK(x.cache, una, x.next_seqno)
    PROVE  \E c : /\ remove_acked_seg(x) = [x EXCEPT !.cache = c]
                  /\ CacheOK(c, At(x.latest_ackno), x.next_seqno)
                  /\ una = At(x.latest_ackno) => c = x.cache
<1> DEFINE cache == x.cache
           acked(i) == IsAcked(x, cache[i].seg)
           P(n) == (\A i \in 1 .. n : acked(i)) /\ (n < Len(cache) => ~acked(n + 1))
           front == CHOOSE n \in 0 .. Len(cache) : P(n)
           left == SubSeq(cache, front + 1, Len(cache))
           later == At(x.latest_ackno)
<1>1. remove_acked_seg(x) = [x EXCEPT !.cache = left]
  BY Zenon DEF remove_acked_seg
<1>2. /\ Len(cache) \in Nat /\ DOMAIN cache = 1 .. Len(cache)
      /\ cache \in Seq([age : Nat, seg : Segments])
      /\ \A i \in 1 .. Len(cache) : SegmentOK(cache[i].seg, x.next_seqno)
  BY DEF CacheOK
<1>3. \A i \in 1 .. Len(cache) : acked(i) <=> later >= EndOf(cache[i].seg)
  <2> TAKE i \in 1 .. Len(cache)
  <2>1. SegmentOK(cache[i].seg, x.next_seqno)
    BY <1>2
  <2>2. QED
    BY <2>1, AckedMeans
<1>4. \E n \in 0 .. Len(cache) : P(n)
  <2> DEFINE A == {i \in 1 .. Len(cache) : acked(i)}
             len == Len(cache)
  <2> HIDE DEF A, len
  <2>1. PICK n \in 0 .. len : (\A i \in 1 .. n : i \in A) /\ (n < len => n + 1 \notin A)
    BY <1>2, FrontExists, Zenon DEF len
  <2>2. n < len => n + 1 \in 1 .. len
    BY <1>2 DEF len
  <2>3. P(n)
    BY <2>1, <2>2, Zenon DEF A, len
  <2>4. QED
    BY <2>1, <2>3, Zenon DEF len
<1>5. front \in 0 .. Len(cache) /\ P(front)
  BY <1>4, Zenon
<1> HIDE DEF front
<1>6. later \in Nat /\ x.next_seqno \in Nat
  BY AtIsSmall, Widths, SMTT(30)
<1>7. /\ \A i \in 1 .. front : later >= EndOf(cache[i].seg)
      /\ front < Len(cache) => ~(later >= EndOf(cache[front + 1].seg))
  <2>1. \A i \in 1 .. front : i \in 1 .. Len(cache)
    BY <1>2, <1>5
  <2>2. front < Len(cache) => front + 1 \in 1 .. Len(cache)
    BY <1>2, <1>5, SMTT(30)
  <2> HIDE DEF cache
  <2>3. QED
    BY <1>3, <1>5, <2>1, <2>2, Zenon
<1>8. CacheOK(left, later, x.next_seqno)
  <2> HIDE DEF later, cache
  <2>1. CacheOK(cache, una, x.next_seqno) /\ una =< later /\ later =< x.next_seqno
    BY DEF later, cache
  <2>2. QED
    BY <1>5, <1>6, <1>7, <2>1, CacheShrinks, ZenonT(40)
<1>9. ASSUME una = later PROVE left = cache
  <2>1. front = 0
    <3> SUFFICES ASSUME front # 0 PROVE FALSE
      OBVIOUS
    <3>1. 1 \in 1 .. front /\ cache # <<>> /\ 1 \in 1 .. Len(cache)
      BY <1>2, <1>5, SMTT(30)
    <3>2. later >= EndOf(cache[1].seg) /\ una < EndOf(cache[1].seg)
      BY <1>7, <3>1, SMTT(30) DEF CacheOK
    <3>3. EndOf(cache[1].seg) \in Nat
      BY <1>2, <3>1, SegmentNumbers, Zenon DEF SegmentOK
    <3>4. QED
      BY <1>6, <1>9, <3>2, <3>3
  <2>2. left = SubSeq(cache, 1, Len(cache))
    BY <2>1
  <2> DEFINE entries == [age : Nat, seg : Segments]
  <2>3. cache \in Seq(entries)
    BY <1>2
  <2> HIDE DEF cache, entries
  <2>4. SubSeq(cache, 1, Len(cache)) = cache
    BY <2>3
  <2>5. QED
    BY <2>2, <2>4, Zenon
<1>10. QED
  BY <1>1, <1>8, <1>9, Zenon
=============================================================================
