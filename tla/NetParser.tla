----------------------------- MODULE NetParser -----------------------------
(***************************************************************************)
(* Packets as sequences of bytes: NetParser and NetUnparser, which read    *)
(* and write integers in network byte order, and the InternetChecksum.     *)
(*                                                                         *)
(* A u32 is the pair of its 16-bit halves, an Ethernet address the         *)
(* sequence of its six bytes.  The fields of a header are read at their    *)
(* offsets; what has been read is then removed from the parser at once.    *)
(***************************************************************************)
EXTENDS Buffers

\* Reading at an offset.
u8(b, at) == b[at + 1]
u16(b, at) == 256 * b[at + 1] + b[at + 2]
u32(b, at) == <<u16(b, at), u16(b, at + 2)>>
ethernet(b, at) == SubSeq(b, at + 1, at + 6)

\* Writing.
put8(value) == <<value>>
put16(value) == <<value \div 256, value % 256>>
put32(value) == put16(value[1]) \o put16(value[2])

Zeros(n) == [i \in 1 .. n |-> 0]

NewParser(bytes) == [buffer |-> bytes, error |-> "NoError"]

remove_prefix(p, n) ==
    IF n > Len(p.buffer) \/ p.error # "NoError" THEN [p EXCEPT !.error = "PacketTooShort"]
    ELSE [p EXCEPT !.buffer = discard(@, n)]

-----------------------------------------------------------------------------
(* InternetChecksum *)

\* The sum of the bytes, the odd ones counted as the high halves of 16-bit
\* numbers.  Since add() keeps the parity, adding two strings is adding their
\* concatenation.
SumOf(data) ==
    LET sum[n \in 0 .. Len(data)] ==
            IF n = 0 THEN 0 ELSE sum[n - 1] + data[n] * (IF n % 2 = 1 THEN 256 ELSE 1)
    IN  sum[Len(data)]

\* Folding twice leaves 16 bits of any 32-bit sum.
FoldCarry(sum) == (sum \div 65536) + (sum % 65536)

InternetChecksum(initial_sum, data) == 65535 - FoldCarry(FoldCarry(initial_sum + SumOf(data)))
=============================================================================
