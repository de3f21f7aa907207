------------------------ MODULE SeqnoTracking_proofs ------------------------
(***************************************************************************)
(* Proofs about wrap and unwrap for every width of the wire and of the     *)
(* absolute sequence numbers: unwrap undoes wrap for a number less than    *)
(* half the wire's range away from the checkpoint, and the window and the  *)
(* lifetime of packets keep all numbers that can arrive that close to both *)
(* endpoints' checkpoints, for the whole 64-bit range.                     *)
(***************************************************************************)
EXTENDS SeqnoTracking, TLAPS

\* Close enough for the low half to be unambiguous.
Near(a, b) == 2 * Distance(a, b) < U32

\* Euclid's division, with the quotient named.
LEMMA DivMod ==
    ASSUME NEW m \in Nat \ {0}, NEW a \in Int
    PROVE  \E q \in Int : a = m * q + (a % m) /\ (a % m) \in 0 .. m - 1
<1>1. a = m * (a \div m) + (a % m) /\ (a % m) \in 0 .. m - 1 /\ a \div m \in Int
  OBVIOUS
<1>2. QED
  BY <1>1

\* The only multiple of m strictly between -m and m is zero.
LEMMA SmallMultiple ==
    ASSUME NEW m \in Nat \ {0}, NEW k \in Int, m * k < m, m * k > -m
    PROVE  k = 0
<1>1. k >= 1 => m * k >= m
  OBVIOUS
<1>2. k =< -1 => m * k =< -m
  OBVIOUS
<1>3. QED
  BY <1>1, <1>2

\* The remainder is unique.
LEMMA ModUnique ==
    ASSUME NEW m \in Nat \ {0}, NEW q \in Int, NEW r \in 0 .. m - 1
    PROVE  (m * q + r) % m = r
<1> DEFINE s == (m * q + r) % m
<1>1. PICK k \in Int : m * q + r = m * k + s /\ s \in 0 .. m - 1
  <2>1. m * q + r \in Int
    OBVIOUS
  <2>2. QED
    BY <2>1, DivMod
<1> HIDE DEF s
<1>2. m * (q - k) = s - r
  BY <1>1
<1>3. q - k = 0
  BY <1>1, <1>2, SmallMultiple
<1>4. s = r
  BY <1>1, <1>2, <1>3
<1>5. QED
  BY <1>4 DEF s

-----------------------------------------------------------------------------
\* A 64-bit number is a block number and a place in the block.
LEMMA BlockAndPlace ==
    ASSUME NEW a \in Absolute
    PROVE  \E q \in 0 .. Blocks - 1 : a = U32 * q + (a % U32) /\ (a % U32) \in 0 .. U32 - 1
<1>1. a \in Int /\ 0 =< a /\ a < U32 * Blocks
  BY WidthAssumption DEF Absolute, U64
<1>2. PICK q \in Int : a = U32 * q + (a % U32) /\ (a % U32) \in 0 .. U32 - 1
  BY <1>1, DivMod, WidthAssumption
<1>3. q >= 0
  <2>1. q =< -1 => U32 * q =< -U32
    BY WidthAssumption
  <2>2. QED
    BY <1>1, <1>2, <2>1, WidthAssumption
<1>4. q < Blocks
  <2>1. q >= Blocks => U32 * q >= U32 * Blocks
    BY WidthAssumption
  <2>2. QED
    BY <1>1, <1>2, <2>1, WidthAssumption
<1>5. q \in 0 .. Blocks - 1
  BY <1>3, <1>4, WidthAssumption
<1>6. QED
  BY <1>2, <1>5, Zenon

\* Reducing modulo 2^64 first does not change the low half.
LEMMA LowHalf ==
    ASSUME NEW a \in Int
    PROVE  (a % U64) % U32 = a % U32 /\ a % U64 \in Absolute
<1>1. U64 \in Nat \ {0}
  BY WidthAssumption DEF U64
<1>2. PICK j \in Int : a = U64 * j + (a % U64) /\ (a % U64) \in 0 .. U64 - 1
  BY <1>1, DivMod
<1> DEFINE t == a % U64
<1>3. t \in Int
  BY <1>2
<1>4. PICK k \in Int : t = U32 * k + (t % U32) /\ (t % U32) \in 0 .. U32 - 1
  BY <1>3, DivMod, WidthAssumption
<1> DEFINE w == t % U32
<1> HIDE DEF t, w
<1>5. a = U32 * (Blocks * j + k) + w
  <2>1. a = (U32 * Blocks) * j + (U32 * k + w)
    BY <1>2, <1>4 DEF U64, t, w
  <2>2. QED
    BY <2>1, <1>4, WidthAssumption DEF w
<1>6. a % U32 = w
  <2>1. U32 \in Nat \ {0} /\ Blocks * j + k \in Int /\ w \in 0 .. U32 - 1
    BY <1>4, WidthAssumption DEF w
  <2>2. (U32 * (Blocks * j + k) + w) % U32 = w
    BY <2>1, ModUnique, Zenon
  <2>3. QED
    BY <1>5, <2>2, Zenon
<1>7. QED
  BY <1>2, <1>6 DEF w, t, Absolute

\* What unwrap subtracts out of a wrapped number is its low half.
LEMMA WrapDiff ==
    ASSUME NEW base \in Raw, NEW a \in Absolute
    PROVE  (wrap(a, base) - base) % U32 = a % U32 /\ wrap(a, base) \in Raw
<1>1. base \in Int /\ a \in Int
  BY WidthAssumption DEF Raw, Absolute, U64
<1>2. wrap(a, base) = (a + base) % U32
  BY <1>1, LowHalf DEF wrap
<1>3. PICK k \in Int : a + base = U32 * k + ((a + base) % U32)
                          /\ ((a + base) % U32) \in 0 .. U32 - 1
  <2>1. U32 \in Nat \ {0} /\ a + base \in Int
    BY <1>1, WidthAssumption
  <2>2. QED
    BY <2>1, DivMod, Zenon
<1>4. PICK q \in Int : a = U32 * q + (a % U32) /\ (a % U32) \in 0 .. U32 - 1
  BY <1>1, DivMod, WidthAssumption
<1> DEFINE w == (a + base) % U32
           r == a % U32
<1>5. w - base = U32 * (q - k) + r
  <2> HIDE DEF w, r
  <2>1. a + base = U32 * k + w /\ a = U32 * q + r /\ w \in Int /\ r \in Int
    BY <1>3, <1>4, WidthAssumption DEF w, r
  <2>2. QED
    BY <1>1, <2>1, WidthAssumption
<1>6. (w - base) % U32 = r
  <2>1. U32 \in Nat \ {0} /\ q - k \in Int /\ r \in 0 .. U32 - 1
    BY <1>4, WidthAssumption
  <2> HIDE DEF w, r
  <2>2. (U32 * (q - k) + r) % U32 = r
    BY <2>1, ModUnique, Zenon
  <2>3. QED
    BY <1>5, <2>2, Zenon
<1>7. QED
  BY <1>2, <1>3, <1>6 DEF Raw

-----------------------------------------------------------------------------
\* Each candidate of unwrap is a place in some block.
LEMMA CandidateInBlock ==
    ASSUME NEW c \in Int
    PROVE  \E k \in 0 .. Blocks - 1 : (c % U64) - (c % U32) = U32 * k
<1>1. (c % U64) % U32 = c % U32 /\ c % U64 \in Absolute
  BY LowHalf
<1>2. PICK k \in 0 .. Blocks - 1 : c % U64 = U32 * k + ((c % U64) % U32)
                                    /\ ((c % U64) % U32) \in 0 .. U32 - 1
  BY <1>1, BlockAndPlace, Zenon
<1> DEFINE t == c % U64
           w == c % U32
<1> HIDE DEF t, w
<1>3. t = U32 * k + w /\ w \in 0 .. U32 - 1
  BY <1>1, <1>2 DEF t, w
<1>4. t - w = U32 * k
  BY <1>3, WidthAssumption
<1>5. QED
  BY <1>4, Zenon DEF t, w

\* A number that is not reduced modulo 2^64 keeps its block.
LEMMA CandidateNoWrap ==
    ASSUME NEW c \in Absolute, NEW q \in Int, NEW r \in 0 .. U32 - 1, c = U32 * q + r
    PROVE  (c % U64) - (c % U32) = U32 * q
<1>1. c \in Int /\ U64 \in Nat \ {0} /\ c \in 0 .. U64 - 1
  BY WidthAssumption DEF Absolute, U64
<1>2. c % U64 = c
  BY <1>1
<1>3. c % U32 = r
  <2>1. (U32 * q + r) % U32 = r
    BY ModUnique, WidthAssumption
  <2>2. QED
    BY <2>1
<1>4. c - r = U32 * q
  <2> DEFINE m == U32 * q
  <2>1. m \in Int /\ c = m + r /\ r \in Int
    BY WidthAssumption
  <2> HIDE DEF m
  <2>2. c - r = m
    BY <2>1
  <2>3. QED
    BY <2>2 DEF m
<1>5. QED
  BY <1>2, <1>3, <1>4

\* Two different numbers with the same low half are a whole block apart, so
\* only one of them can be less than half a block from the checkpoint.
LEMMA OthersAreFarther ==
    ASSUME NEW cp \in Int, NEW r \in Int, NEW q \in Int, NEW k \in Int, k # q,
           Near(cp, U32 * q + r)
    PROVE  Distance(cp, U32 * q + r) < Distance(cp, U32 * k + r)
<1> DEFINE a == U32 * q + r
           x == U32 * k + r
<1>1. a \in Int /\ x \in Int /\ (x - a >= U32 \/ a - x >= U32)
  <2>1. k - q >= 1 => U32 * (k - q) >= U32
    BY WidthAssumption
  <2>2. q - k >= 1 => U32 * (q - k) >= U32
    BY WidthAssumption
  <2>3. U32 * (k - q) = x - a /\ U32 * (q - k) = a - x
    BY WidthAssumption
  <2>4. QED
    BY <2>1, <2>2, <2>3, WidthAssumption
<1>2. 2 * Distance(cp, a) < U32
  BY DEF Near
<1> HIDE DEF a, x
<1>3. Distance(cp, a) < Distance(cp, x)
  BY <1>1, <1>2, WidthAssumption DEF Distance
<1>4. QED
  BY <1>3 DEF a, x

\* unwrap undoes wrap: a sequence number less than half the wire's range
\* away from the checkpoint, before or after it, is recovered exactly.
THEOREM UnwrapOfWrap ==
    ASSUME NEW base \in Raw, NEW a \in Absolute, NEW cp \in Absolute, Near(cp, a)
    PROVE  unwrap(wrap(a, base), base, cp) = a
<1> DEFINE diff == (wrap(a, base) - base) % U32
           InBlock(c) == (c % U64) - (c % U32) + diff
           same == InBlock(cp)
           above == InBlock(cp + U32)
           below == InBlock(cp - U32)
           d(c) == Distance(cp, c)
<1>1. PICK q \in 0 .. Blocks - 1 : a = U32 * q + (a % U32) /\ (a % U32) \in 0 .. U32 - 1
  BY BlockAndPlace
<1>2. PICK p \in 0 .. Blocks - 1 : cp = U32 * p + (cp % U32) /\ (cp % U32) \in 0 .. U32 - 1
  BY BlockAndPlace
<1>3. diff = a % U32
  BY WrapDiff
<1>4. cp \in Int /\ cp + U32 \in Int /\ cp - U32 \in Int /\ U32 \in Nat \ {0}
      /\ Blocks \in Nat \ {0} /\ p \in Int /\ q \in Int
  BY WidthAssumption DEF Absolute, U64
<1>5. unwrap(wrap(a, base), base, cp)
        = IF d(same) =< d(above) /\ d(same) =< d(below) THEN same
          ELSE IF d(above) =< d(below) THEN above ELSE below
  BY DEF unwrap
<1>6. ASSUME NEW c \in Int
      PROVE  InBlock(c) \in Int /\ (InBlock(c) = a \/ d(a) < d(InBlock(c)))
  <2>1. PICK k \in 0 .. Blocks - 1 : (c % U64) - (c % U32) = U32 * k
    BY CandidateInBlock
  <2> DEFINE r == a % U32
  <2> HIDE DEF r
  <2>2. InBlock(c) = U32 * k + r /\ a = U32 * q + r /\ r \in Int /\ k \in Int
    BY <1>1, <1>3, <2>1, WidthAssumption DEF r
  <2> HIDE DEF InBlock
  <2>3. CASE k = q
    BY <1>4, <2>2, <2>3
  <2>4. CASE k # q
    <3>1. Distance(cp, U32 * q + r) < Distance(cp, U32 * k + r)
      BY <1>4, <2>2, <2>4, OthersAreFarther
    <3>2. QED
      BY <1>4, <2>2, <3>1
  <2>5. QED
    BY <2>3, <2>4
<1>7. same = a \/ above = a \/ below = a
  <2> DEFINE r == a % U32
             s == cp % U32
  <2> HIDE DEF r, s
  <2>1. a = U32 * q + r /\ cp = U32 * p + s /\ r \in 0 .. U32 - 1 /\ s \in 0 .. U32 - 1
    BY <1>1, <1>2 DEF r, s
  <2>2. q = p \/ q = p + 1 \/ q = p - 1
    <3>1. q - p >= 2 => U32 * (q - p) >= U32 + U32
      BY <1>4
    <3>2. p - q >= 2 => U32 * (p - q) >= U32 + U32
      BY <1>4
    <3>3. U32 * (q - p) = (a - r) - (cp - s) /\ U32 * (p - q) = (cp - s) - (a - r)
      BY <1>4, <2>1
    <3>4. 2 * Distance(cp, a) < U32 /\ a \in Int
      BY <1>4, <2>1 DEF Near
    <3>5. (a - r) - (cp - s) < U32 + U32 /\ (cp - s) - (a - r) < U32 + U32
      BY <1>4, <2>1, <3>4 DEF Distance
    <3>6. QED
      BY <1>4, <3>1, <3>2, <3>3, <3>5
  <2>3. CASE q = p
    <3>1. (cp % U64) - (cp % U32) = U32 * p
      BY <1>4, <2>1, CandidateNoWrap
    <3>2. same = U32 * p + r
      BY <1>3, <3>1 DEF r
    <3>3. QED
      BY <2>1, <2>3, <3>2
  <2>4. CASE q = p + 1
    <3>1. cp + U32 = U32 * q + s /\ cp + U32 \in Absolute
      <4>1. U32 * q + s < U32 * Blocks
        <5>1. U32 * q + U32 =< U32 * Blocks
          BY <1>4
        <5>2. QED
          BY <1>4, <2>1, <5>1
      <4>2. cp + U32 = U32 * q + s
        BY <1>4, <2>1, <2>4
      <4>3. cp >= 0
        BY DEF Absolute
      <4>4. QED
        BY <1>4, <4>1, <4>2, <4>3 DEF Absolute, U64
    <3>2. ((cp + U32) % U64) - ((cp + U32) % U32) = U32 * q
      BY <1>4, <2>1, <3>1, CandidateNoWrap
    <3>3. QED
      BY <1>3, <2>1, <3>2 DEF r
  <2>5. CASE q = p - 1
    <3>1. cp - U32 = U32 * q + s /\ cp - U32 \in Absolute
      <4>1. U32 * q >= 0
        BY <1>4
      <4>2. cp - U32 = U32 * q + s
        BY <1>4, <2>1, <2>5
      <4>3. cp < U32 * Blocks
        BY <1>4 DEF Absolute, U64
      <4>4. QED
        BY <1>4, <2>1, <4>1, <4>2, <4>3 DEF Absolute, U64
    <3>2. ((cp - U32) % U64) - ((cp - U32) % U32) = U32 * q
      BY <1>4, <2>1, <3>1, CandidateNoWrap
    <3>3. QED
      BY <1>3, <2>1, <3>2 DEF r
  <2>6. QED
    BY <2>2, <2>3, <2>4, <2>5
<1>8. /\ same \in Int /\ (same = a \/ d(a) < d(same))
      /\ above \in Int /\ (above = a \/ d(a) < d(above))
      /\ below \in Int /\ (below = a \/ d(a) < d(below))
  BY <1>4, <1>6
<1>9. a \in Int
  BY <1>1, <1>4
<1> HIDE DEF same, above, below
<1>10. QED
  BY <1>4, <1>5, <1>7, <1>8, <1>9 DEF Distance

-----------------------------------------------------------------------------
\* A candidate of unwrap has the low half it was asked for.
LEMMA CandidateWraps ==
    ASSUME NEW base \in Raw, NEW n \in Raw, NEW k \in 0 .. Blocks - 1
    PROVE  LET u == U32 * k + ((n - base) % U32) IN u \in Absolute /\ wrap(u, base) = n
<1> DEFINE diff == (n - base) % U32
           u == U32 * k + diff
<1>1. /\ U32 \in Nat \ {0} /\ Blocks \in Nat \ {0} /\ k \in Int /\ 0 =< k /\ k + 1 =< Blocks
      /\ base \in Int /\ n \in Int /\ 0 =< n /\ n < U32
  BY WidthAssumption DEF Raw
<1>2. PICK j \in Int : n - base = U32 * j + diff /\ diff \in 0 .. U32 - 1
  <2>1. n - base \in Int
    BY <1>1
  <2>2. QED
    BY <1>1, <2>1, DivMod
<1> HIDE DEF diff
<1>3. u \in Absolute /\ u \in Int
  <2>1. U32 * k >= 0 /\ U32 * (k + 1) =< U32 * Blocks /\ U32 * (k + 1) = U32 * k + U32
    BY <1>1
  <2> DEFINE m == U32 * k
             b == U32 * Blocks
  <2>2. m \in Int /\ m >= 0 /\ m + U32 =< b /\ b \in Int
    BY <1>1, <2>1
  <2> HIDE DEF m, b
  <2>3. m + diff \in 0 .. b - 1
    BY <1>1, <1>2, <2>2
  <2>4. QED
    BY <2>3 DEF m, b, Absolute, U64
<1>4. wrap(u, base) = (u + base) % U32
  <2>1. u + base \in Int
    BY <1>1, <1>3
  <2>2. QED
    BY <2>1, LowHalf DEF wrap
<1>5. u + base = U32 * (k - j) + n
  BY <1>1, <1>2
<1>6. (U32 * (k - j) + n) % U32 = n
  <2>1. k - j \in Int /\ n \in 0 .. U32 - 1
    BY <1>1
  <2>2. QED
    BY <1>1, <2>1, ModUnique, Zenon
<1>7. wrap(u, base) = n
  BY <1>4, <1>5, <1>6, Zenon
<1>8. QED
  BY <1>3, <1>7 DEF diff

\* unwrap does what its comment promises, for every width and at both ends of
\* the 64-bit range: the number it returns wraps to the one it was given, and
\* no number that does is closer to the checkpoint.
THEOREM ClosestCandidate ==
    ASSUME NEW base \in Raw, NEW n \in Raw, NEW cp \in Absolute
    PROVE  LET u == unwrap(n, base, cp)
           IN  /\ u \in Absolute
               /\ wrap(u, base) = n
               /\ \A a \in Absolute : wrap(a, base) = n => Distance(cp, u) =< Distance(cp, a)
<1> DEFINE diff == (n - base) % U32
           InBlock(c) == (c % U64) - (c % U32) + diff
           same == InBlock(cp)
           above == InBlock(cp + U32)
           below == InBlock(cp - U32)
           d(c) == Distance(cp, c)
           u == unwrap(n, base, cp)
<1>1. /\ U32 \in Nat \ {0} /\ Blocks \in Nat \ {0}
      /\ cp \in Int /\ cp + U32 \in Int /\ cp - U32 \in Int
  BY WidthAssumption DEF Absolute, U64
<1>2. u = IF d(same) =< d(above) /\ d(same) =< d(below) THEN same
          ELSE IF d(above) =< d(below) THEN above ELSE below
  BY DEF unwrap
<1>3. ASSUME NEW c \in Int
      PROVE  InBlock(c) \in Absolute /\ wrap(InBlock(c), base) = n
  <2>1. PICK k \in 0 .. Blocks - 1 : (c % U64) - (c % U32) = U32 * k
    BY CandidateInBlock
  <2>2. InBlock(c) = U32 * k + diff
    BY <2>1
  <2>3. QED
    BY <2>2, CandidateWraps
<1>4. PICK p \in 0 .. Blocks - 1 : cp = U32 * p + (cp % U32) /\ (cp % U32) \in 0 .. U32 - 1
  BY BlockAndPlace
<1> DEFINE s == cp % U32
<1>5. /\ same = U32 * p + diff
      /\ p + 1 =< Blocks - 1 => above = U32 * (p + 1) + diff
      /\ p - 1 >= 0 => below = U32 * (p - 1) + diff
  <2>1. ASSUME NEW k \in 0 .. Blocks - 1, NEW c \in Int, c = U32 * k + s
        PROVE  InBlock(c) = U32 * k + diff
    <3> HIDE DEF diff
    <3>1. s \in 0 .. U32 - 1 /\ k \in Int
      BY <1>4
    <3> HIDE DEF s
    <3>2. c \in Absolute
      <4>1. U32 * k >= 0 /\ U32 * (k + 1) =< U32 * Blocks /\ U32 * (k + 1) = U32 * k + U32
        BY <1>1
      <4> DEFINE m == U32 * k
                 b == U32 * Blocks
      <4>2. m \in Int /\ m >= 0 /\ m + U32 =< b /\ b \in Int /\ c = m + s
        BY <1>1, <2>1, <4>1
      <4> HIDE DEF m, b
      <4>3. c \in 0 .. b - 1
        BY <1>1, <3>1, <4>2
      <4>4. QED
        BY <4>3 DEF b, Absolute, U64
    <3>3. (c % U64) - (c % U32) = U32 * k
      BY <2>1, <3>1, <3>2, CandidateNoWrap
    <3>4. QED
      BY <3>3
  <2>2. cp = U32 * p + s /\ cp + U32 = U32 * (p + 1) + s /\ cp - U32 = U32 * (p - 1) + s
    <3>1. cp = U32 * p + s /\ s \in Int /\ p \in Int
      BY <1>1, <1>4
    <3> HIDE DEF s
    <3>2. QED
      BY <1>1, <3>1
  <2> HIDE DEF s, InBlock
  <2>3. same = U32 * p + diff
    BY <1>1, <2>1, <2>2
  <2>4. p + 1 =< Blocks - 1 => above = U32 * (p + 1) + diff
    <3>1. p + 1 =< Blocks - 1 => p + 1 \in 0 .. Blocks - 1
      BY <1>1
    <3>2. QED
      BY <1>1, <2>1, <2>2, <3>1
  <2>5. p - 1 >= 0 => below = U32 * (p - 1) + diff
    <3>1. p - 1 >= 0 => p - 1 \in 0 .. Blocks - 1
      BY <1>1
    <3>2. QED
      BY <1>1, <2>1, <2>2, <3>1
  <2>6. QED
    BY <2>3, <2>4, <2>5
<1>6. /\ same \in Absolute /\ wrap(same, base) = n
      /\ above \in Absolute /\ wrap(above, base) = n
      /\ below \in Absolute /\ wrap(below, base) = n
  BY <1>1, <1>3
<1>7. same \in Int /\ above \in Int /\ below \in Int
  BY <1>6, WidthAssumption DEF Absolute, U64
<1> HIDE DEF same, above, below
<1>8. /\ u \in {same, above, below}
      /\ d(u) =< d(same) /\ d(u) =< d(above) /\ d(u) =< d(below)
  <2>1. d(same) \in Int /\ d(above) \in Int /\ d(below) \in Int
    BY <1>1, <1>7 DEF Distance
  <2> HIDE DEF d, u
  <2>2. QED
    BY <1>2, <2>1
<1>9. ASSUME NEW a \in Absolute, wrap(a, base) = n PROVE d(u) =< d(a)
  <2>1. diff = a % U32
    BY <1>9, WrapDiff
  <2>2. PICK q \in 0 .. Blocks - 1 : a = U32 * q + (a % U32) /\ (a % U32) \in 0 .. U32 - 1
    BY BlockAndPlace
  <2>3. /\ a = U32 * q + diff /\ diff \in 0 .. U32 - 1 /\ q \in Int /\ p \in Int
        /\ cp = U32 * p + s /\ s \in 0 .. U32 - 1
        /\ 0 =< q /\ q =< Blocks - 1 /\ 0 =< p /\ p =< Blocks - 1
    BY <1>1, <1>4, <2>1, <2>2
  <2> HIDE DEF diff, s
  <2>4. CASE q = p
    BY <1>5, <1>8, <2>3, <2>4
  <2>5. CASE q >= p + 1
    <3>1. above = U32 * (p + 1) + diff
      BY <1>1, <1>5, <2>3, <2>5
    <3>2. U32 * q >= U32 * (p + 1) /\ U32 * (p + 1) = U32 * p + U32
      BY <1>1, <2>3, <2>5
    <3>3. a >= above /\ above > cp
      <4> DEFINE x == U32 * q
                 y == U32 * (p + 1)
                 z == U32 * p
      <4>1. x \in Int /\ y \in Int /\ z \in Int /\ x >= y /\ y = z + U32
        BY <1>1, <2>3, <3>2
      <4>2. a = x + diff /\ above = y + diff /\ cp = z + s
        BY <2>3, <3>1
      <4> HIDE DEF x, y, z
      <4>3. QED
        BY <1>1, <2>3, <4>1, <4>2
    <3>4. a \in Int
      BY <1>1, <2>3
    <3>5. d(above) =< d(a)
      BY <1>1, <1>7, <3>3, <3>4 DEF Distance
    <3>6. d(u) \in Int /\ d(above) \in Int /\ d(a) \in Int
      BY <1>1, <1>7, <1>8, <3>4 DEF Distance
    <3> HIDE DEF d, u
    <3>7. QED
      BY <1>8, <3>5, <3>6
  <2>6. CASE q =< p - 1
    <3>1. below = U32 * (p - 1) + diff
      BY <1>1, <1>5, <2>3, <2>6
    <3>2. U32 * q =< U32 * (p - 1) /\ U32 * (p - 1) = U32 * p - U32
      BY <1>1, <2>3, <2>6
    <3>3. a =< below /\ below < cp
      <4> DEFINE x == U32 * q
                 y == U32 * (p - 1)
                 z == U32 * p
      <4>1. x \in Int /\ y \in Int /\ z \in Int /\ x =< y /\ y = z - U32
        BY <1>1, <2>3, <3>2
      <4>2. a = x + diff /\ below = y + diff /\ cp = z + s
        BY <2>3, <3>1
      <4> HIDE DEF x, y, z
      <4>3. QED
        BY <1>1, <2>3, <4>1, <4>2
    <3>4. a \in Int
      BY <1>1, <2>3
    <3>5. d(below) =< d(a)
      BY <1>1, <1>7, <3>3, <3>4 DEF Distance
    <3>6. d(u) \in Int /\ d(below) \in Int /\ d(a) \in Int
      BY <1>1, <1>7, <1>8, <3>4 DEF Distance
    <3> HIDE DEF d, u
    <3>7. QED
      BY <1>8, <3>5, <3>6
  <2>7. QED
    BY <2>3, <2>4, <2>5, <2>6
<1> HIDE DEF u
<1>10. u \in Absolute /\ wrap(u, base) = n
  BY <1>6, <1>8
<1>11. QED
  BY <1>9, <1>10 DEF u

-----------------------------------------------------------------------------
\* The inductive invariant.  What the sender takes for acknowledged is at
\* most what is assembled, and that what was sent; what is under way carries
\* the low half of its number, which the sender has left behind by Lifetime
\* at most.
TrackInv ==
    /\ TypeOK
    /\ latest_ackno = wrap(next_seqno - window_used, isn)
    /\ 1 =< next_seqno - window_used
    /\ next_seqno - window_used =< bytes_written + 1
    /\ bytes_written + 1 =< next_seqno
    /\ \A i \in unassembled : i + 1 < next_seqno
    /\ \A s \in segments : /\ s.seqno = wrap(s.first, isn)
                           /\ 1 =< s.first
                           /\ s.first + s.len =< next_seqno
                           /\ next_seqno =< s.first + Lifetime
    /\ \A m \in acks : /\ m.ackno = wrap(m.at, isn)
                       /\ 1 =< m.at
                       /\ m.at =< bytes_written + 1
                       /\ next_seqno =< m.at + Lifetime

\* Adding on the wire is adding before wrapping: operator+ and wrap agree.
LEMMA PlusOfWrap ==
    ASSUME NEW base \in Raw, NEW a \in Absolute, NEW k \in Nat, a + k \in Absolute
    PROVE  Plus(wrap(a, base), k) = wrap(a + k, base)
<1> DEFINE w == (a + base) % U32
           v == (w + k) % U32
<1>1. /\ U32 \in Nat \ {0} /\ base \in Int /\ a \in Int /\ k \in Int
      /\ a + base \in Int /\ a + k + base \in Int
  BY WidthAssumption DEF Raw, Absolute, U64
<1>2. wrap(a, base) = w /\ wrap(a + k, base) = (a + k + base) % U32
  BY <1>1, LowHalf DEF wrap
<1>3. PICK p \in Int : a + base = U32 * p + w /\ w \in 0 .. U32 - 1
  BY <1>1, DivMod, Zenon
<1> HIDE DEF w
<1>4. w + k \in Int
  BY <1>1, <1>3
<1>5. PICK q \in Int : w + k = U32 * q + v /\ v \in 0 .. U32 - 1
  BY <1>1, <1>4, DivMod, Zenon
<1> HIDE DEF v
<1>6. a + k + base = U32 * (p + q) + v
  BY <1>1, <1>3, <1>5
<1>7. (U32 * (p + q) + v) % U32 = v
  <2>1. p + q \in Int
    BY <1>3, <1>5
  <2>2. QED
    BY <1>1, <1>5, <2>1, ModUnique, Zenon
<1>8. wrap(a + k, base) = v
  BY <1>2, <1>6, <1>7, Zenon
<1>9. QED
  BY <1>2, <1>8 DEF Plus, v

\* In a state of the invariant every number that can arrive is recovered.
LEMMA Recovered ==
    ASSUME TrackInv
    PROVE  /\ \A s \in segments : unwrap(s.seqno, isn, bytes_written) = s.first
           /\ \A m \in acks : unwrap(m.ackno, isn, next_seqno) = m.at
           /\ unwrap(latest_ackno, isn, next_seqno) = next_seqno - window_used
           /\ unwrap(Plus(latest_ackno, window_used), isn, next_seqno) = next_seqno
<1>1. /\ isn \in Raw /\ next_seqno \in Absolute /\ bytes_written \in Absolute
      /\ next_seqno \in Int /\ bytes_written \in Int /\ window_used \in Int
      /\ 0 =< window_used /\ window_used =< Window
      /\ 1 =< next_seqno - window_used
      /\ next_seqno - window_used =< bytes_written + 1
      /\ bytes_written + 1 =< next_seqno
      /\ next_seqno =< U64 - 1 /\ U64 \in Int
      /\ Window \in Int /\ Lifetime \in Int /\ Window =< Lifetime /\ 2 * Lifetime < U32
      /\ U32 \in Int
  BY WidthAssumption, LifetimeAssumption DEF TrackInv, TypeOK, Absolute, U64
<1>2. ASSUME NEW s \in segments
      PROVE  unwrap(s.seqno, isn, bytes_written) = s.first
  <2>1. /\ s.seqno = wrap(s.first, isn) /\ s.first \in Absolute
        /\ s.first \in Int /\ s.len \in Int /\ 1 =< s.len
        /\ s.first + s.len =< next_seqno /\ next_seqno =< s.first + Lifetime
    BY LifetimeAssumption, WidthAssumption DEF TrackInv, TypeOK, Absolute, U64
  <2>2. Near(bytes_written, s.first)
    BY <1>1, <2>1 DEF Near, Distance
  <2>3. QED
    BY <1>1, <2>1, <2>2, UnwrapOfWrap
<1>3. ASSUME NEW m \in acks
      PROVE  unwrap(m.ackno, isn, next_seqno) = m.at
  <2>1. /\ m.ackno = wrap(m.at, isn) /\ m.at \in Absolute /\ m.at \in Int
        /\ m.at =< bytes_written + 1 /\ next_seqno =< m.at + Lifetime
    BY WidthAssumption DEF TrackInv, TypeOK, Absolute, U64
  <2>2. Near(next_seqno, m.at)
    BY <1>1, <2>1 DEF Near, Distance
  <2>3. QED
    BY <1>1, <2>1, <2>2, UnwrapOfWrap
<1> DEFINE acked == next_seqno - window_used
<1>4. acked \in Absolute /\ Near(next_seqno, acked) /\ Near(next_seqno, next_seqno)
  BY <1>1 DEF Absolute, Near, Distance
<1>5. latest_ackno = wrap(acked, isn)
  BY DEF TrackInv
<1>6. unwrap(latest_ackno, isn, next_seqno) = acked
  BY <1>1, <1>4, <1>5, UnwrapOfWrap
<1>7. Plus(latest_ackno, window_used) = wrap(next_seqno, isn)
  <2>1. acked + window_used = next_seqno /\ window_used \in Nat
    BY <1>1
  <2>2. QED
    BY <1>1, <1>4, <1>5, <2>1, PlusOfWrap
<1>8. unwrap(Plus(latest_ackno, window_used), isn, next_seqno) = next_seqno
  BY <1>1, <1>4, <1>7, UnwrapOfWrap
<1>9. QED
  BY <1>2, <1>3, <1>6, <1>8

\* Sending keeps the invariant: the new segment is as long as the window
\* allows, and what it leaves too far behind is gone.
LEMMA FillKeeps ==
    ASSUME TrackInv, NEW n \in 1 .. Window, fill_window(n)
    PROVE  TrackInv'
<1> DEFINE new == [seqno |-> wrap(next_seqno, isn), first |-> next_seqno, len |-> n]
<1>1. /\ isn \in Raw /\ next_seqno \in Absolute /\ latest_ackno \in Raw
      /\ bytes_written \in Absolute /\ unassembled \subseteq Absolute
      /\ segments \subseteq [seqno : Raw, first : Absolute, len : 1 .. Window]
      /\ acks \subseteq [ackno : Raw, at : Absolute]
  BY DEF TrackInv, TypeOK
<1>2. /\ next_seqno \in Int /\ bytes_written \in Int /\ window_used \in Int /\ n \in Int
      /\ 0 =< window_used /\ 1 =< n /\ n =< Window - window_used /\ next_seqno + n < U64
      /\ 1 =< next_seqno - window_used
      /\ next_seqno - window_used =< bytes_written + 1
      /\ bytes_written + 1 =< next_seqno
      /\ U64 \in Int /\ Window \in Int /\ Lifetime \in Int /\ Window =< Lifetime
  BY WidthAssumption, LifetimeAssumption DEF TrackInv, TypeOK, Absolute, U64, fill_window
<1>3. /\ next_seqno' = next_seqno + n /\ window_used' = window_used + n
      /\ segments' = {s \in segments : next_seqno' =< s.first + Lifetime} \cup {new}
      /\ acks' = {a \in acks : next_seqno' =< a.at + Lifetime}
      /\ isn' = isn /\ latest_ackno' = latest_ackno
      /\ bytes_written' = bytes_written /\ unassembled' = unassembled
  BY DEF fill_window, receiver
<1>4. next_seqno' \in Absolute /\ window_used' \in 0 .. Window
  BY <1>2, <1>3 DEF Absolute
<1>5. next_seqno' - window_used' = next_seqno - window_used
  BY <1>2, <1>3
<1>6. wrap(next_seqno, isn) \in Raw
  BY <1>1, WrapDiff
<1>7. new \in [seqno : Raw, first : Absolute, len : 1 .. Window]
  BY <1>1, <1>2, <1>6
<1>8. TypeOK'
  BY <1>1, <1>3, <1>4, <1>7 DEF TypeOK
<1>9. \A i \in unassembled' : i + 1 < next_seqno'
  <2>1. \A i \in unassembled : i \in Int /\ i + 1 < next_seqno
    BY <1>1 DEF TrackInv, Absolute
  <2>2. QED
    BY <1>2, <1>3, <2>1
<1>10. ASSUME NEW s \in segments'
       PROVE  /\ s.seqno = wrap(s.first, isn') /\ 1 =< s.first
              /\ s.first + s.len =< next_seqno' /\ next_seqno' =< s.first + Lifetime
  <2>1. CASE s = new
    BY <1>2, <1>3, <2>1
  <2>2. CASE s \in segments /\ next_seqno' =< s.first + Lifetime
    <3>1. /\ s.seqno = wrap(s.first, isn) /\ 1 =< s.first /\ s.first + s.len =< next_seqno
          /\ s.first \in Int /\ s.len \in Int
      BY <1>1, <2>2 DEF TrackInv, Absolute
    <3>2. QED
      BY <1>2, <1>3, <2>2, <3>1
  <2>3. QED
    BY <1>3, <1>10, <2>1, <2>2
<1>11. ASSUME NEW m \in acks'
       PROVE  /\ m.ackno = wrap(m.at, isn') /\ 1 =< m.at
              /\ m.at =< bytes_written' + 1 /\ next_seqno' =< m.at + Lifetime
  BY <1>3, <1>11 DEF TrackInv
<1>12. latest_ackno' = wrap(next_seqno' - window_used', isn')
  BY <1>3, <1>5 DEF TrackInv
<1>13. /\ 1 =< next_seqno' - window_used' /\ next_seqno' - window_used' =< bytes_written' + 1
       /\ bytes_written' + 1 =< next_seqno'
  BY <1>2, <1>3, <1>5
<1>14. QED
  BY <1>8, <1>9, <1>10, <1>11, <1>12, <1>13 DEF TrackInv

\* Receiving keeps it: the segment's bytes are where they were sent from, so
\* what is assembled is never more than what was sent.
LEMMA ReceiveKeeps ==
    ASSUME TrackInv, NEW s \in segments, segment_received(s)
    PROVE  TrackInv'
<1>1. /\ isn \in Raw /\ next_seqno \in Absolute /\ latest_ackno \in Raw
      /\ window_used \in 0 .. Window
      /\ bytes_written \in Absolute /\ unassembled \subseteq Absolute
      /\ segments \subseteq [seqno : Raw, first : Absolute, len : 1 .. Window]
      /\ acks \subseteq [ackno : Raw, at : Absolute]
  BY DEF TrackInv, TypeOK
<1>2. /\ next_seqno \in Int /\ bytes_written \in Int /\ window_used \in Int
      /\ 0 =< bytes_written /\ window_used =< Window /\ next_seqno < U64
      /\ next_seqno - window_used =< bytes_written + 1
      /\ bytes_written + 1 =< next_seqno
      /\ U64 \in Int /\ Window \in Int /\ Lifetime \in Int /\ Window =< Lifetime
  BY WidthAssumption, LifetimeAssumption DEF TrackInv, TypeOK, Absolute, U64
<1>3. /\ bytes_written' \in bytes_written .. bytes_written + Window
      /\ bytes_written .. bytes_written' - 1 \subseteq Held(s)
      /\ unassembled' = {i \in Held(s) : i > bytes_written'}
      /\ acks' = acks \cup {[ackno |-> wrap(1 + bytes_written', isn), at |-> 1 + bytes_written']}
      /\ isn' = isn /\ next_seqno' = next_seqno /\ latest_ackno' = latest_ackno
      /\ window_used' = window_used /\ segments' = segments
  BY DEF segment_received, sender
<1>4. ASSUME NEW i \in Held(s) PROVE i \in Absolute /\ i \in Int /\ i + 1 < next_seqno
  <2>1. unwrap(s.seqno, isn, bytes_written) = s.first
    BY Recovered
  <2>2. /\ s.first \in Int /\ s.len \in Int /\ 1 =< s.first /\ 1 =< s.len
        /\ s.first + s.len =< next_seqno
    BY LifetimeAssumption DEF TrackInv, TypeOK, Absolute
  <2>3. (s.first - 1) % U64 = s.first - 1
    <3>1. s.first - 1 \in 0 .. U64 - 1 /\ U64 \in Nat \ {0}
      BY <1>2, <2>2
    <3>2. QED
      BY <3>1
  <2>4. CASE i \in unassembled
    BY <1>1, <2>4 DEF TrackInv, Absolute
  <2>5. CASE i \in s.first - 1 .. s.first - 1 + s.len - 1
    BY <1>2, <2>5, <2>2 DEF Absolute
  <2>6. QED
    BY <1>4, <2>1, <2>3, <2>4, <2>5 DEF Held
<1>5. PICK b \in Int : b = bytes_written'
  BY <1>2, <1>3
<1> DEFINE new == [ackno |-> wrap(1 + b, isn), at |-> 1 + b]
<1>6. /\ b \in bytes_written .. bytes_written + Window
      /\ bytes_written .. b - 1 \subseteq Held(s)
      /\ unassembled' = {i \in Held(s) : i > b}
      /\ acks' = acks \cup {new}
  BY <1>3, <1>5, Zenon
<1>7. bytes_written =< b /\ b + 1 =< next_seqno
  <2>1. bytes_written =< b /\ bytes_written .. b - 1 \subseteq Held(s)
    BY <1>2, <1>6
  <2>2. CASE b = bytes_written
    BY <1>2, <2>2
  <2>3. CASE b > bytes_written
    <3>1. b - 1 \in Held(s)
      BY <1>2, <2>1, <2>3
    <3>2. QED
      <4>1. (b - 1) + 1 < next_seqno
        BY <1>4, <3>1
      <4>2. QED
        BY <1>2, <2>1, <4>1
  <2>4. QED
    BY <1>2, <2>1, <2>2, <2>3
<1>8. b \in Absolute /\ 1 + b \in Absolute
  BY <1>2, <1>7 DEF Absolute
<1>9. wrap(1 + b, isn) \in Raw
  BY <1>1, <1>8, WrapDiff
<1>10. new \in [ackno : Raw, at : Absolute]
  BY <1>8, <1>9
<1>11. unassembled' \subseteq Absolute /\ \A i \in unassembled' : i + 1 < next_seqno
  BY <1>3, <1>4
<1>12. TypeOK'
  BY <1>1, <1>3, <1>5, <1>6, <1>8, <1>10, <1>11 DEF TypeOK
<1>13. ASSUME NEW m \in acks'
       PROVE  /\ m.ackno = wrap(m.at, isn) /\ 1 =< m.at
              /\ m.at =< b + 1 /\ next_seqno =< m.at + Lifetime
  <2>1. CASE m = new
    BY <1>2, <1>7, <2>1
  <2>2. CASE m \in acks
    <3>1. /\ m.ackno = wrap(m.at, isn) /\ 1 =< m.at /\ m.at =< bytes_written + 1
          /\ next_seqno =< m.at + Lifetime /\ m.at \in Int
      BY <1>1, <2>2 DEF TrackInv, Absolute
    <3>2. QED
      BY <1>2, <1>7, <3>1
  <2>3. QED
    BY <1>6, <1>13, <2>1, <2>2
<1>14. next_seqno - window_used =< b + 1
  BY <1>2, <1>7
<1>15. QED
  BY <1>3, <1>5, <1>7, <1>11, <1>12, <1>13, <1>14 DEF TrackInv

\* Acknowledgments keep it: one that is taken is for what is assembled.
LEMMA AckKeeps ==
    ASSUME TrackInv, NEW m \in acks, ack_received(m)
    PROVE  TrackInv'
<1>1. /\ unwrap(m.ackno, isn, next_seqno) = m.at
      /\ unwrap(latest_ackno, isn, next_seqno) = next_seqno - window_used
      /\ unwrap(Plus(latest_ackno, window_used), isn, next_seqno) = next_seqno
  BY Recovered
<1>2. /\ m.ackno \in Raw /\ m.ackno = wrap(m.at, isn) /\ m.at \in Int /\ 1 =< m.at
      /\ m.at =< bytes_written + 1
      /\ next_seqno \in Int /\ window_used \in Int /\ bytes_written \in Int
      /\ 0 =< window_used /\ window_used =< Window /\ bytes_written + 1 =< next_seqno
      /\ Window \in Int
  BY WidthAssumption, LifetimeAssumption DEF TrackInv, TypeOK, Absolute, U64
<1>3. /\ next_seqno - window_used =< m.at
      /\ window_used' = LET used == IF next_seqno > m.at THEN next_seqno - m.at ELSE 0
                        IN  IF used > Window THEN Window ELSE used
      /\ latest_ackno' = m.ackno
      /\ isn' = isn /\ next_seqno' = next_seqno /\ bytes_written' = bytes_written
      /\ unassembled' = unassembled /\ segments' = segments /\ acks' = acks
  BY <1>1 DEF ack_received, receiver
<1>4. window_used' = next_seqno - m.at /\ window_used' \in 0 .. Window
  BY <1>2, <1>3
<1>5. next_seqno' - window_used' = m.at
  BY <1>2, <1>3, <1>4
<1>6. TypeOK'
  BY <1>2, <1>3, <1>4 DEF TrackInv, TypeOK
<1>7. latest_ackno' = wrap(next_seqno' - window_used', isn')
  BY <1>2, <1>3, <1>5
<1>8. QED
  BY <1>2, <1>3, <1>5, <1>6, <1>7 DEF TrackInv

\* The invariant holds after the handshake and every step keeps it.
LEMMA TrackInvariant == Spec => []TrackInv
<1>1. Init => TrackInv
  <2> SUFFICES ASSUME Init PROVE TrackInv
    OBVIOUS
  <2>1. /\ 0 \in Absolute /\ 1 \in Absolute /\ 0 \in 0 .. Window
    BY WidthAssumption, LifetimeAssumption DEF Absolute, U64
  <2>2. isn \in Raw /\ wrap(1, isn) \in Raw
    BY <2>1, WrapDiff DEF Init
  <2>3. next_seqno - window_used = 1
    BY DEF Init
  <2>4. QED
    BY <2>1, <2>2, <2>3 DEF Init, TrackInv, TypeOK
<1>2. TrackInv /\ [Next]_vars => TrackInv'
  <2> SUFFICES ASSUME TrackInv, [Next]_vars PROVE TrackInv'
    OBVIOUS
  <2>1. ASSUME NEW n \in 1 .. Window, fill_window(n) PROVE TrackInv'
    BY <2>1, FillKeeps
  <2>2. ASSUME NEW s \in segments, segment_received(s) PROVE TrackInv'
    BY <2>2, ReceiveKeeps
  <2>3. ASSUME NEW m \in acks, ack_received(m) PROVE TrackInv'
    BY <2>3, AckKeeps
  <2>4. CASE UNCHANGED vars
    BY <2>4 DEF vars, sender, receiver, TrackInv, TypeOK
  <2>5. QED
    BY <2>1, <2>2, <2>3, <2>4 DEF Next
<1>3. QED
  BY <1>1, <1>2, PTL DEF Spec

\* Segments and acknowledgments are taken for what they were sent as, with
\* the checkpoints the endpoints really use, for every window and lifetime
\* below half the range of the wire and every number of wrap-arounds.
THEOREM TrackingCorrect == Spec => []NumbersAreRecovered
<1>1. TrackInv => NumbersAreRecovered
  <2> SUFFICES ASSUME TrackInv PROVE NumbersAreRecovered
    OBVIOUS
  <2>1. /\ next_seqno \in Int /\ bytes_written \in Int /\ bytes_written + 1 =< next_seqno
        /\ next_seqno - window_used =< bytes_written + 1
    BY WidthAssumption DEF TrackInv, TypeOK, Absolute, U64
  <2>2. bytes_written < next_seqno
    BY <2>1
  <2>3. QED
    BY <2>1, <2>2, Recovered DEF NumbersAreRecovered
<1>2. QED
  BY <1>1, TrackInvariant, PTL

\* In every state unwrap answers as promised, whatever number comes off the
\* wire, to the receiver and to the sender.
THEOREM ClosestAlways == Spec => []UnwrapIsClosest
<1>1. TrackInv => UnwrapIsClosest
  BY ClosestCandidate DEF TrackInv, TypeOK, UnwrapIsClosest
<1>2. QED
  BY TrackInvariant, <1>1, PTL
=============================================================================
