----------------------------- MODULE ByteStream -----------------------------
(***************************************************************************)
(* class ByteStream: the bounded byte stream between a writer and a        *)
(* reader, a ring of Capacity slots written at front and read at rear.     *)
(*                                                                         *)
(* The loops over the ring are given in closed form: the i-th byte written *)
(* goes to the slot i places after front, the i-th byte peeked comes from  *)
(* the slot i places after rear.                                           *)
(***************************************************************************)
EXTENDS Integers, Sequences

CONSTANTS Byte,       \* the values a byte can take
          Blank,      \* the byte the ring is filled with at construction
          Capacity,   \* the ring's size
          MaxLen,     \* bound: the longest string written, longest read
          MaxBytes    \* bound: bytes offered in one behaviour

\* The ring is indexed modulo its size: pop_output divides by the capacity.
ASSUME CapacityAssumption == Capacity \in Nat \ {0}
ASSUME BoundAssumption == MaxLen \in Nat /\ MaxBytes \in Nat
ASSUME BlankAssumption == Blank \in Byte

VARIABLES buf,          \* the ring, slots 0 .. Capacity-1
          front,        \* the slot the next byte is written to
          rear,         \* the slot the next byte is read from
          cur_size,     \* bytes in the ring
          write_count,  \* bytes ever accepted
          read_count,   \* bytes ever popped
          input_ended,
          error,
          accepted,     \* what the last write returned
          output,       \* what the last peek_output or read returned
          written       \* history: every byte ever accepted, in order

vars == <<buf, front, rear, cur_size, write_count, read_count, input_ended,
          error, accepted, output, written>>

Slot == 0 .. Capacity - 1

Smaller(a, b) == IF a =< b THEN a ELSE b

remaining_capacity == Capacity - cur_size

eof == input_ended /\ cur_size = 0

Init == /\ buf = [k \in Slot |-> Blank]
        /\ front = 0
        /\ rear = 0
        /\ cur_size = 0
        /\ write_count = 0
        /\ read_count = 0
        /\ input_ended = FALSE
        /\ error = FALSE
        /\ accepted = 0
        /\ output = <<>>
        /\ written = <<>>

-----------------------------------------------------------------------------
(* The calls. *)

\* How far slot k lies after slot s, going round the ring.
Offset(k, s) == IF k >= s THEN k - s ELSE k - s + Capacity

\* Mutant: every wrap lands on slot 0.
AdvanceToZero(s, i) == IF s + i < Capacity THEN s + i ELSE 0

\* The slot i places after s (i =< Capacity).
Advance(s, i) == IF s + i < Capacity THEN s + i ELSE s + i - Capacity

\* The ring after the first n bytes of data are written from front on.
Stored(data, n) == [k \in Slot |-> IF Offset(k, front) < n
                                     THEN data[Offset(k, front) + 1]
                                     ELSE buf[k]]

\* Mutant: the whole string is taken, full ring or not.
write_length_unbounded(data) == Len(data)

write_length(data) == Smaller(remaining_capacity, Len(data))

\* Mutant: a write after end_input is accepted.
write_after_end(data) ==
    /\ LET n == write_length(data)
       IN  /\ buf' = Stored(data, n)
           /\ front' = Advance(front, n)
           /\ cur_size' = cur_size + n
           /\ write_count' = write_count + n
           /\ accepted' = n
           /\ written' = written \o SubSeq(data, 1, n)
    /\ UNCHANGED <<rear, read_count, input_ended, error, output>>

write(data) ==
    \/ /\ input_ended
       /\ accepted' = 0
       /\ UNCHANGED <<buf, front, rear, cur_size, write_count, read_count,
                      input_ended, error, output, written>>
    \/ /\ ~input_ended
       /\ LET n == write_length(data)
          IN  /\ buf' = Stored(data, n)
              /\ front' = Advance(front, n)
              /\ cur_size' = cur_size + n
              /\ write_count' = write_count + n
              /\ accepted' = n
              /\ written' = written \o SubSeq(data, 1, n)
       /\ UNCHANGED <<rear, read_count, input_ended, error, output>>

\* The next len bytes, or as many as there are.
Peeked(len) == [i \in 1 .. Smaller(cur_size, len) |-> buf[Advance(rear, i - 1)]]

peek_output(len) ==
    /\ output' = Peeked(len)
    /\ UNCHANGED <<buf, front, rear, cur_size, write_count, read_count,
                   input_ended, error, accepted, written>>

\* The effect of a pop on the reader's side of the ring.
Popped(len) ==
    LET n == Smaller(cur_size, len)
    IN  /\ rear' = (rear + n) % Capacity
        /\ cur_size' = cur_size - n
        /\ read_count' = read_count + n

pop_output(len) ==
    /\ Popped(len)
    /\ UNCHANGED <<buf, front, write_count, input_ended, error, accepted,
                   output, written>>

read(len) ==
    /\ output' = Peeked(len)
    /\ Popped(len)
    /\ UNCHANGED <<buf, front, write_count, input_ended, error, accepted, written>>

end_input ==
    /\ input_ended' = TRUE
    /\ UNCHANGED <<buf, front, rear, cur_size, write_count, read_count, error,
                   accepted, output, written>>

set_error ==
    /\ error' = TRUE
    /\ UNCHANGED <<buf, front, rear, cur_size, write_count, read_count,
                   input_ended, accepted, output, written>>

-----------------------------------------------------------------------------
(* The writer and the reader call in any order, with any argument.         *)

Data == UNION {[1 .. n -> Byte] : n \in 0 .. MaxLen}

Next == \/ \E data \in Data : write_count + Len(data) =< MaxBytes /\ write(data)
        \/ \E len \in 0 .. MaxLen : peek_output(len) \/ pop_output(len) \/ read(len)
        \/ end_input
        \/ set_error

Spec == Init /\ [][Next]_vars

-----------------------------------------------------------------------------
(* Properties. *)

\* Every member of the class holds a value of its C++ type's meaning: ring
\* positions are slots, the ring is never over-full.
TypeOK == /\ buf \in [Slot -> Byte]
          /\ front \in Slot
          /\ rear \in Slot
          /\ cur_size \in 0 .. Capacity
          /\ write_count \in Nat
          /\ read_count \in Nat
          /\ input_ended \in BOOLEAN
          /\ error \in BOOLEAN
          /\ accepted \in Nat
          /\ output \in Seq(Byte)
          /\ written \in Seq(Byte)

\* The three ways the code keeps track of the ring agree (the two positions,
\* the size, the two counters), and the slots from rear on hold exactly the
\* accepted bytes that have not been read, in the order they were written.
RingHoldsUnreadBytes ==
    /\ write_count = Len(written)
    /\ cur_size = write_count - read_count
    /\ front = Advance(rear, cur_size)
    /\ \A i \in 0 .. cur_size - 1 :
          buf[Advance(rear, i)] = written[read_count + i + 1]

\* Reaching end-of-file is final: once eof() holds it holds for ever, and no
\* later write is accepted (write returns 0 after end_input).
EofIsFinal == [][eof => eof' /\ written' = written]_vars

Fifo == INSTANCE ByteFifo WITH stream <- written, nread <- read_count,
                               ended <- input_ended, failed <- error

\* The ring implements the bounded FIFO: every call returns what the FIFO
\* returns, whatever the position of the ring at the time of the call.
ImplementsFifo == Fifo!Spec
=============================================================================
