------------------------- MODULE ByteStream_proofs -------------------------
(***************************************************************************)
(* Proofs about ByteStream, for every capacity, byte alphabet and bound:   *)
(* the type invariant, the ring invariant, that eof is final, and that the *)
(* ring implements the bounded FIFO of module ByteFifo.                    *)
(***************************************************************************)
EXTENDS ByteStream, SequenceTheorems, TLAPS

\* The remainder pop_output computes is the wrap-around of the write loop:
\* rear + n never reaches twice the capacity.
LEMMA ModIsAdvance ==
    ASSUME NEW s \in Slot, NEW n \in 0 .. Capacity
    PROVE  (s + n) % Capacity = Advance(s, n)
BY CapacityAssumption DEF Slot, Advance

\* A slot reached from a slot is a slot.
LEMMA AdvanceIsSlot ==
    ASSUME NEW s \in Slot, NEW n \in 0 .. Capacity
    PROVE  Advance(s, n) \in Slot
BY CapacityAssumption DEF Slot, Advance

\* Strings of the model are sequences of bytes.
LEMMA DataIsSeq ==
    ASSUME NEW data \in Data
    PROVE  data \in Seq(Byte) /\ Len(data) \in Nat
<1>1. PICK n \in 0 .. MaxLen : data \in [1 .. n -> Byte]
  BY DEF Data
<1>2. QED
  BY <1>1, BoundAssumption

\* What a write takes: a number of bytes that fits the ring and the string.
LEMMA WriteLength ==
    ASSUME TypeOK, NEW data \in Data
    PROVE  /\ write_length(data) \in 0 .. Capacity
           /\ cur_size + write_length(data) \in 0 .. Capacity
           /\ write_length(data) =< Len(data)
BY CapacityAssumption, DataIsSeq
   DEF TypeOK, write_length, remaining_capacity, Smaller

\* What a pop takes: no more than there is.
LEMMA PopLength ==
    ASSUME TypeOK, NEW len \in 0 .. MaxLen
    PROVE  /\ Smaller(cur_size, len) \in 0 .. Capacity
           /\ Smaller(cur_size, len) =< cur_size
           /\ Smaller(cur_size, len) =< len
           /\ cur_size - Smaller(cur_size, len) \in 0 .. Capacity
BY CapacityAssumption, BoundAssumption DEF TypeOK, Smaller

-----------------------------------------------------------------------------
\* The ring after a write holds bytes.
LEMMA StoredType ==
    ASSUME TypeOK, NEW data \in Data
    PROVE  Stored(data, write_length(data)) \in [Slot -> Byte]
<1>1. ASSUME NEW k \in Slot, Offset(k, front) < write_length(data)
      PROVE  data[Offset(k, front) + 1] \in Byte
  <2>1. Offset(k, front) + 1 \in 1 .. Len(data)
    BY <1>1, WriteLength, DataIsSeq, CapacityAssumption DEF TypeOK, Slot, Offset
  <2>2. QED
    BY <2>1, DataIsSeq, ElementOfSeq
<1>2. QED
  BY <1>1 DEF Stored, TypeOK

\* What a peek returns is a string of bytes.
LEMMA PeekedType ==
    ASSUME TypeOK, NEW len \in 0 .. MaxLen
    PROVE  Peeked(len) \in Seq(Byte)
<1>1. ASSUME NEW i \in 1 .. Smaller(cur_size, len)
      PROVE  buf[Advance(rear, i - 1)] \in Byte
  BY <1>1, PopLength, AdvanceIsSlot, CapacityAssumption DEF TypeOK
<1>2. Smaller(cur_size, len) \in Nat
  BY PopLength
<1>3. QED
  BY <1>1, <1>2 DEF Peeked

\* The initial prefix of a string, as the history records it.
LEMMA PrefixType ==
    ASSUME TypeOK, NEW data \in Data
    PROVE  LET p == SubSeq(data, 1, write_length(data))
           IN  /\ p \in Seq(Byte)
               /\ Len(p) = write_length(data)
               /\ \A i \in 1 .. write_length(data) : p[i] = data[i]
<1>1. write_length(data) \in Nat /\ write_length(data) =< Len(data)
  BY WriteLength
<1>2. \A i \in 1 .. write_length(data) : data[i] \in Byte
  BY <1>1, DataIsSeq, ElementOfSeq
<1>3. QED
  BY <1>1, <1>2, SubSeqProperties

\* Type correctness: every call of the class, in any order, keeps the ring
\* positions inside the ring and the ring no fuller than its capacity.
THEOREM TypeCorrect == Spec => []TypeOK
<1>1. Init => TypeOK
  <2>1. <<>> \in Seq(Byte)
    BY EmptySeq
  <2>2. 0 \in Slot /\ 0 \in 0 .. Capacity
    BY CapacityAssumption DEF Slot
  <2>3. QED
    BY <2>1, <2>2, BlankAssumption DEF Init, TypeOK
<1>2. TypeOK /\ [Next]_vars => TypeOK'
  <2> SUFFICES ASSUME TypeOK, [Next]_vars PROVE TypeOK'
    OBVIOUS
  <2>1. ASSUME NEW data \in Data, write(data) PROVE TypeOK'
    <3>1. CASE input_ended /\ accepted' = 0
                 /\ UNCHANGED <<buf, front, rear, cur_size, write_count,
                                read_count, input_ended, error, output, written>>
      BY <3>1 DEF TypeOK
    <3>2. CASE ~input_ended
      <4>1. /\ buf' = Stored(data, write_length(data))
            /\ front' = Advance(front, write_length(data))
            /\ cur_size' = cur_size + write_length(data)
            /\ write_count' = write_count + write_length(data)
            /\ accepted' = write_length(data)
            /\ written' = written \o SubSeq(data, 1, write_length(data))
            /\ UNCHANGED <<rear, read_count, input_ended, error, output>>
        BY <2>1, <3>2 DEF write
      <4>2. buf' \in [Slot -> Byte]
        BY <4>1, StoredType
      <4>3. front' \in Slot
        BY <4>1, WriteLength, AdvanceIsSlot DEF TypeOK
      <4>4. written' \in Seq(Byte)
        BY <4>1, PrefixType, ConcatProperties DEF TypeOK
      <4>5. cur_size' \in 0 .. Capacity /\ write_count' \in Nat /\ accepted' \in Nat
        BY <4>1, WriteLength DEF TypeOK
      <4>6. QED
        BY <4>1, <4>2, <4>3, <4>4, <4>5 DEF TypeOK
    <3>3. QED
      BY <2>1, <3>1, <3>2 DEF write
  <2>2. ASSUME NEW len \in 0 .. MaxLen, peek_output(len) PROVE TypeOK'
    BY <2>2, PeekedType DEF peek_output, TypeOK
  <2>3. ASSUME NEW len \in 0 .. MaxLen, Popped(len)
        PROVE  rear' \in Slot /\ cur_size' \in 0 .. Capacity /\ read_count' \in Nat
    <3>1. rear' \in Slot
      BY <2>3, PopLength, ModIsAdvance, AdvanceIsSlot DEF Popped, TypeOK
    <3>2. QED
      BY <2>3, <3>1, PopLength DEF Popped, TypeOK
  <2>4. ASSUME NEW len \in 0 .. MaxLen, pop_output(len) PROVE TypeOK'
    BY <2>3, <2>4 DEF pop_output, TypeOK
  <2>5. ASSUME NEW len \in 0 .. MaxLen, read(len) PROVE TypeOK'
    BY <2>3, <2>5, PeekedType DEF read, TypeOK
  <2>6. CASE end_input
    BY <2>6 DEF end_input, TypeOK
  <2>7. CASE set_error
    BY <2>7 DEF set_error, TypeOK
  <2>8. CASE UNCHANGED vars
    BY <2>8 DEF vars, TypeOK
  <2>9. QED
    BY <2>1, <2>2, <2>4, <2>5, <2>6, <2>7, <2>8 DEF Next
<1>3. QED
  BY <1>1, <1>2, PTL DEF Spec

-----------------------------------------------------------------------------
\* Going round the ring in two moves is going round it in one.
LEMMA AdvanceTwice ==
    ASSUME NEW s \in Slot, NEW m \in 0 .. Capacity, NEW n \in 0 .. Capacity,
           m + n =< Capacity
    PROVE  Advance(Advance(s, m), n) = Advance(s, m + n)
BY CapacityAssumption DEF Slot, Advance

\* How far the slot i places after s lies after the slot m places after s.
LEMMA OffsetOfAdvance ==
    ASSUME NEW s \in Slot, NEW m \in 0 .. Capacity, NEW i \in 0 .. Capacity - 1
    PROVE  Offset(Advance(s, i), Advance(s, m))
             = IF i >= m THEN i - m ELSE i - m + Capacity
BY CapacityAssumption DEF Slot, Advance, Offset

\* A write keeps the ring in step with the history: the unread bytes stay
\* where they are and the new ones follow them.
LEMMA WriteKeepsRing ==
    ASSUME TypeOK, RingHoldsUnreadBytes, NEW data \in Data, ~input_ended, write(data)
    PROVE  RingHoldsUnreadBytes'
<1> DEFINE n == write_length(data)
           p == SubSeq(data, 1, n)
<1>1. /\ buf' = Stored(data, n)
      /\ front' = Advance(front, n)
      /\ cur_size' = cur_size + n
      /\ write_count' = write_count + n
      /\ written' = written \o p
      /\ rear' = rear
      /\ read_count' = read_count
  BY DEF write
<1>2. n \in 0 .. Capacity /\ cur_size + n \in 0 .. Capacity /\ n =< Len(data)
  BY WriteLength
<1>3. p \in Seq(Byte) /\ Len(p) = n /\ \A i \in 1 .. n : p[i] = data[i]
  BY PrefixType
<1> HIDE DEF n, p
<1>4. /\ Len(written') = Len(written) + n
      /\ \A i \in 1 .. Len(written) + n :
            written'[i] = IF i =< Len(written) THEN written[i]
                                               ELSE p[i - Len(written)]
  <2>1. /\ Len(written \o p) = Len(written) + Len(p)
        /\ \A i \in 1 .. Len(written) + Len(p) :
              (written \o p)[i] = IF i =< Len(written) THEN written[i]
                                                       ELSE p[i - Len(written)]
    <3>1. written \in Seq(Byte) /\ p \in Seq(Byte)
      BY <1>3 DEF TypeOK
    <3>2. QED
      BY <3>1, ConcatProperties, Zenon
  <2>2. Len(p) = n /\ written' = written \o p
    BY <1>1, <1>3
  <2>3. QED
    BY <2>1, <2>2, Zenon
<1>5. write_count' = Len(written')
  BY <1>1, <1>4 DEF RingHoldsUnreadBytes
<1>6. cur_size' = write_count' - read_count'
  BY <1>1, <1>2 DEF RingHoldsUnreadBytes, TypeOK
<1>7. front' = Advance(rear', cur_size')
  BY <1>1, <1>2, AdvanceTwice DEF RingHoldsUnreadBytes, TypeOK
<1>8. ASSUME NEW i \in 0 .. cur_size' - 1
      PROVE  buf'[Advance(rear', i)] = written'[read_count' + i + 1]
  <2>1. i \in 0 .. Capacity - 1 /\ i < cur_size + n
    BY <1>1, <1>2, <1>8, CapacityAssumption DEF TypeOK
  <2>2. Advance(rear, i) \in Slot
    BY <2>1, AdvanceIsSlot, CapacityAssumption DEF TypeOK
  <2>3. Offset(Advance(rear, i), front)
          = IF i >= cur_size THEN i - cur_size ELSE i - cur_size + Capacity
    BY <2>1, OffsetOfAdvance DEF RingHoldsUnreadBytes, TypeOK
  <2>4. Len(written) = read_count + cur_size
    BY DEF RingHoldsUnreadBytes, TypeOK
  <2>5. CASE i < cur_size
    <3>1. ~(Offset(Advance(rear, i), front) < n)
      BY <1>2, <2>1, <2>3, <2>5, CapacityAssumption DEF TypeOK
    <3>2. buf'[Advance(rear, i)] = buf[Advance(rear, i)]
      BY <1>1, <2>2, <3>1 DEF Stored
    <3>3. buf[Advance(rear, i)] = written[read_count + i + 1]
      BY <2>1, <2>5 DEF RingHoldsUnreadBytes, TypeOK
    <3>4. written'[read_count + i + 1] = written[read_count + i + 1]
      <4>1. /\ read_count + i + 1 \in 1 .. Len(written) + n
            /\ read_count + i + 1 =< Len(written)
        BY <1>2, <2>1, <2>4, <2>5 DEF TypeOK
      <4>2. QED
        BY <1>4, <4>1
    <3>5. QED
      BY <1>1, <3>2, <3>3, <3>4
  <2>6. CASE i >= cur_size
    <3>1. Offset(Advance(rear, i), front) = i - cur_size /\ i - cur_size < n
      BY <1>2, <2>1, <2>3, <2>6 DEF TypeOK
    <3>2. buf'[Advance(rear, i)] = data[i - cur_size + 1]
      BY <1>1, <2>2, <3>1 DEF Stored
    <3>3. i - cur_size + 1 \in 1 .. n
      BY <1>2, <2>1, <2>6 DEF TypeOK
    <3>4. written'[read_count + i + 1] = p[i - cur_size + 1]
      BY <1>2, <1>4, <2>1, <2>4, <2>6 DEF TypeOK
    <3>5. QED
      BY <1>1, <1>3, <3>2, <3>3, <3>4
  <2>7. QED
    BY <2>1, <2>5, <2>6 DEF TypeOK
<1>9. QED
  BY <1>5, <1>6, <1>7, <1>8 DEF RingHoldsUnreadBytes

\* A pop keeps the ring in step with the history: the reader's position
\* moves over exactly the bytes that were counted as read.
LEMMA PopKeepsRing ==
    ASSUME TypeOK, RingHoldsUnreadBytes, NEW len \in 0 .. MaxLen, Popped(len),
           UNCHANGED <<buf, front, write_count, written>>
    PROVE  RingHoldsUnreadBytes'
<1> DEFINE n == Smaller(cur_size, len)
<1>1. n \in 0 .. Capacity /\ n =< cur_size /\ cur_size - n \in 0 .. Capacity
  BY PopLength
<1>2. rear' = Advance(rear, n) /\ cur_size' = cur_size - n /\ read_count' = read_count + n
  BY <1>1, ModIsAdvance DEF Popped, TypeOK
<1> HIDE DEF n
<1>3. front' = Advance(rear', cur_size')
  BY <1>1, <1>2, AdvanceTwice DEF RingHoldsUnreadBytes, TypeOK
<1>4. write_count' = Len(written') /\ cur_size' = write_count' - read_count'
  BY <1>1, <1>2 DEF RingHoldsUnreadBytes, TypeOK
<1>5. ASSUME NEW i \in 0 .. cur_size' - 1
      PROVE  buf'[Advance(rear', i)] = written'[read_count' + i + 1]
  <2>1. n + i \in 0 .. cur_size - 1 /\ i \in 0 .. Capacity /\ n + i =< Capacity
    BY <1>1, <1>2, <1>5, CapacityAssumption DEF TypeOK
  <2>2. Advance(rear', i) = Advance(rear, n + i)
    BY <1>1, <1>2, <2>1, AdvanceTwice DEF TypeOK
  <2>3. buf[Advance(rear, n + i)] = written[read_count + (n + i) + 1]
    BY <2>1 DEF RingHoldsUnreadBytes
  <2>4. read_count + (n + i) + 1 = read_count' + i + 1
    BY <1>1, <1>2, <2>1 DEF TypeOK
  <2>5. QED
    BY <2>2, <2>3, <2>4
<1>6. QED
  BY <1>3, <1>4, <1>5 DEF RingHoldsUnreadBytes

\* After end_input a write is refused and changes nothing but its result.
LEMMA EndedWriteChangesNothing ==
    ASSUME input_ended, NEW data, write(data)
    PROVE  /\ accepted' = 0
           /\ UNCHANGED <<buf, front, rear, cur_size, write_count, read_count,
                          input_ended, error, output, written>>
BY DEF write

\* RingHoldsUnreadBytes is an invariant: the ring's positions, its size and
\* the two counters always agree, and from rear on the slots hold the unread
\* bytes in the order they were written.
THEOREM RingCorrect == Spec => []RingHoldsUnreadBytes
<1>1. Init => RingHoldsUnreadBytes
  BY CapacityAssumption DEF Init, RingHoldsUnreadBytes, Advance
<1>2. TypeOK /\ RingHoldsUnreadBytes /\ [Next]_vars => RingHoldsUnreadBytes'
  <2> SUFFICES ASSUME TypeOK, RingHoldsUnreadBytes, [Next]_vars
               PROVE  RingHoldsUnreadBytes'
    OBVIOUS
  <2>1. ASSUME NEW data \in Data, write(data) PROVE RingHoldsUnreadBytes'
    <3>1. CASE input_ended
      BY <2>1, <3>1, EndedWriteChangesNothing DEF RingHoldsUnreadBytes
    <3>2. CASE ~input_ended
      BY <2>1, <3>2, WriteKeepsRing
    <3>3. QED
      BY <3>1, <3>2
  <2>2. ASSUME NEW len \in 0 .. MaxLen, peek_output(len) PROVE RingHoldsUnreadBytes'
    BY <2>2 DEF peek_output, RingHoldsUnreadBytes
  <2>3. ASSUME NEW len \in 0 .. MaxLen, pop_output(len) PROVE RingHoldsUnreadBytes'
    BY <2>3, PopKeepsRing DEF pop_output
  <2>4. ASSUME NEW len \in 0 .. MaxLen, read(len) PROVE RingHoldsUnreadBytes'
    BY <2>4, PopKeepsRing DEF read
  <2>5. CASE end_input
    BY <2>5 DEF end_input, RingHoldsUnreadBytes
  <2>6. CASE set_error
    BY <2>6 DEF set_error, RingHoldsUnreadBytes
  <2>7. CASE UNCHANGED vars
    BY <2>7 DEF vars, RingHoldsUnreadBytes
  <2>8. QED
    BY <2>1, <2>2, <2>3, <2>4, <2>5, <2>6, <2>7 DEF Next
<1>3. QED
  BY <1>1, <1>2, TypeCorrect, PTL DEF Spec

\* EofIsFinal: once eof() holds, no call makes it false again and no byte is
\* ever accepted, because write returns early after end_input.
THEOREM EofFinal == Spec => EofIsFinal
<1>1. TypeOK /\ [Next]_vars => [eof => eof' /\ written' = written]_vars
  <2> SUFFICES ASSUME TypeOK, Next, eof PROVE eof' /\ written' = written
    BY DEF vars
  <2>1. input_ended /\ cur_size = 0
    BY DEF eof
  <2>2. ASSUME NEW data \in Data, write(data) PROVE eof' /\ written' = written
    BY <2>1, <2>2, EndedWriteChangesNothing DEF eof
  <2>3. ASSUME NEW len \in 0 .. MaxLen, Popped(len) PROVE cur_size' = 0
    <3>1. Smaller(cur_size, len) = 0
      BY <2>1, BoundAssumption DEF Smaller
    <3>2. cur_size' = cur_size - Smaller(cur_size, len)
      BY <2>3 DEF Popped
    <3>3. QED
      BY <2>1, <3>1, <3>2
  <2>4. ASSUME NEW len \in 0 .. MaxLen, peek_output(len) \/ pop_output(len) \/ read(len)
        PROVE  eof' /\ written' = written
    BY <2>1, <2>3, <2>4 DEF peek_output, pop_output, read, eof
  <2>5. CASE end_input
    BY <2>1, <2>5 DEF end_input, eof
  <2>6. CASE set_error
    BY <2>1, <2>6 DEF set_error, eof
  <2>7. QED
    BY <2>2, <2>4, <2>5, <2>6 DEF Next
<1>2. QED
  BY <1>1, TypeCorrect, PTL DEF Spec, EofIsFinal

-----------------------------------------------------------------------------
\* The n elements of a sequence after its first m.
LEMMA SliceProperties ==
    ASSUME NEW s \in Seq(Byte), NEW m \in Nat, NEW n \in Nat, m + n =< Len(s)
    PROVE  LET t == SubSeq(s, m + 1, m + n)
           IN  /\ t \in Seq(Byte)
               /\ Len(t) = n
               /\ \A i \in 1 .. n : t[i] = s[m + i]
<1>1. \A i \in m + 1 .. m + n : s[i] \in Byte
  BY ElementOfSeq
<1>2. SubSeq(s, m + 1, m + n) \in Seq(Byte)
  BY <1>1, SubSeqProperties
<1>3. Len(SubSeq(s, m + 1, m + n)) = n
  OBVIOUS
<1>4. \A i \in 1 .. n : SubSeq(s, m + 1, m + n)[i] = s[m + i]
  OBVIOUS
<1>5. QED
  BY <1>2, <1>3, <1>4

\* What a peek reads out of the ring is the next stretch of the history.
LEMMA PeekReadsHistory ==
    ASSUME TypeOK, RingHoldsUnreadBytes, NEW len \in 0 .. MaxLen
    PROVE  Peeked(len) = Fifo!NextBytes(Smaller(cur_size, len))
<1> DEFINE n == Smaller(cur_size, len)
           t == SubSeq(written, read_count + 1, read_count + n)
<1>1. n \in Nat /\ n =< cur_size /\ cur_size =< Capacity
  BY PopLength DEF TypeOK
<1>2. Peeked(len) \in Seq(Byte) /\ Len(Peeked(len)) = n
  BY <1>1, PeekedType DEF Peeked
<1>3. \A i \in 1 .. n : Peeked(len)[i] = buf[Advance(rear, i - 1)]
  BY DEF Peeked
<1> HIDE DEF n
<1>4. Len(written) = read_count + cur_size
  BY DEF RingHoldsUnreadBytes, TypeOK
<1>6. /\ t \in Seq(Byte)
      /\ Len(t) = n
      /\ \A i \in 1 .. n : t[i] = written[read_count + i]
  BY <1>1, <1>4, SliceProperties DEF TypeOK
<1> HIDE DEF t
<1>7. ASSUME NEW i \in 1 .. n PROVE Peeked(len)[i] = t[i]
  <2>1. i - 1 \in 0 .. cur_size - 1 /\ read_count + (i - 1) + 1 = read_count + i
    BY <1>1 DEF TypeOK
  <2>2. buf[Advance(rear, i - 1)] = written[read_count + (i - 1) + 1]
    BY <2>1 DEF RingHoldsUnreadBytes
  <2>3. QED
    BY <1>3, <1>6, <2>1, <2>2
<1>8. Peeked(len) = t
  BY <1>2, <1>6, <1>7, SeqEqual
<1>9. QED
  BY <1>8 DEF Fifo!NextBytes, t, n

\* ImplementsFifo: each call of the ring is the call of the same name of the
\* bounded FIFO, with the same result.
THEOREM RingImplementsFifo == Spec => ImplementsFifo
<1>1. Init => Fifo!Init
  BY DEF Init, Fifo!Init
<1>2. TypeOK /\ RingHoldsUnreadBytes /\ [Next]_vars => [Fifo!Next]_(Fifo!vars)
  <2> SUFFICES ASSUME TypeOK, RingHoldsUnreadBytes, [Next]_vars
               PROVE  [Fifo!Next]_(Fifo!vars)
    OBVIOUS
  <2>1. Fifo!Unread = cur_size /\ Len(written) = write_count
    BY DEF Fifo!Unread, RingHoldsUnreadBytes, TypeOK
  <2>2. ASSUME NEW data \in Data, write_count + Len(data) =< MaxBytes, write(data)
        PROVE  Fifo!Next
    <3>1. Fifo!Write(data)
      <4>1. CASE input_ended
        <5>1. SubSeq(data, 1, 0) = <<>>
          BY SubSeqEmpty
        <5>2. written \o <<>> = written
          BY ConcatEmptySeq DEF TypeOK
        <5>3. QED
          BY <2>2, <4>1, <5>1, <5>2, EndedWriteChangesNothing DEF Fifo!Write
      <4>2. CASE ~input_ended
        <5>1. Fifo!Smaller(Capacity - Fifo!Unread, Len(data)) = write_length(data)
          BY <2>1 DEF Fifo!Smaller, Smaller, write_length, remaining_capacity
        <5>2. QED
          BY <2>2, <4>2, <5>1 DEF Fifo!Write, write
      <4>3. QED
        BY <4>1, <4>2
    <3>2. data \in Fifo!Data
      BY DEF Fifo!Data, Data
    <3>3. QED
      BY <2>1, <2>2, <3>1, <3>2 DEF Fifo!Next
  <2>3. ASSUME NEW len \in 0 .. MaxLen
        PROVE  Fifo!Smaller(Fifo!Unread, len) = Smaller(cur_size, len)
    BY <2>1 DEF Fifo!Smaller, Smaller
  <2>4. ASSUME NEW len \in 0 .. MaxLen, peek_output(len) PROVE Fifo!Next
    BY <2>3, <2>4, PeekReadsHistory DEF peek_output, Fifo!Peek, Fifo!Next
  <2>5. ASSUME NEW len \in 0 .. MaxLen, pop_output(len) PROVE Fifo!Next
    BY <2>3, <2>5 DEF pop_output, Popped, Fifo!Pop, Fifo!Next
  <2>6. ASSUME NEW len \in 0 .. MaxLen, read(len) PROVE Fifo!Next
    BY <2>3, <2>6, PeekReadsHistory DEF read, Popped, Fifo!Read, Fifo!Next
  <2>7. CASE end_input
    BY <2>7 DEF end_input, Fifo!End, Fifo!Next
  <2>8. CASE set_error
    BY <2>8 DEF set_error, Fifo!Fail, Fifo!Next
  <2>9. CASE UNCHANGED vars
    BY <2>9 DEF vars, Fifo!vars
  <2>10. QED
    BY <2>2, <2>4, <2>5, <2>6, <2>7, <2>8, <2>9 DEF Next
<1>3. QED
  BY <1>1, <1>2, TypeCorrect, RingCorrect, PTL DEF Spec, ImplementsFifo, Fifo!Spec
=============================================================================
