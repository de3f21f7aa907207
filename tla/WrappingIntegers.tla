-------------------------- MODULE WrappingIntegers --------------------------
(***************************************************************************)
(* class WrappingInt32 and the conversions between the 32-bit sequence     *)
(* numbers on the wire and the 64-bit absolute ones kept by the endpoints. *)
(* The two widths are parameters, so that a small instance wraps often.    *)
(***************************************************************************)
EXTENDS Integers

CONSTANTS U32,     \* the number of raw values of a WrappingInt32 (2^32)
          Blocks   \* how many times they fit the absolute range (2^32)

ASSUME WidthAssumption == U32 \in Nat \ {0} /\ Blocks \in Nat \ {0}

\* The number of absolute sequence numbers (2^64).
U64 == U32 * Blocks

Raw == 0 .. U32 - 1
Absolute == 0 .. U64 - 1

\* operator+ : the point b steps past a.
Plus(a, b) == (a + b) % U32

\* operator- : the point b steps before a.
Minus(a, b) == (a - b) % U32

wrap(n, isn) == ((n + isn) % U64) % U32

\* |a - b|, as the comparison of unwrap computes it.
Distance(a, b) == IF a > b THEN a - b ELSE b - a

\* Mutant: the block above the checkpoint is never considered.
unwrap_not_above(n, isn, checkpoint) ==
    LET diff == (n - isn) % U32
        InBlockOf(c) == (c % U64) - (c % U32) + diff
        same == InBlockOf(checkpoint)
        below == InBlockOf(checkpoint - U32)
    IN  IF Distance(checkpoint, same) =< Distance(checkpoint, below) THEN same ELSE below

\* The number that has n's low half and lies in the block of the checkpoint,
\* the next block or the previous one: the first of the three that is at the
\* smallest distance from the checkpoint.
unwrap(n, isn, checkpoint) ==
    LET diff == (n - isn) % U32
        InBlockOf(c) == (c % U64) - (c % U32) + diff
        same == InBlockOf(checkpoint)
        above == InBlockOf(checkpoint + U32)
        below == InBlockOf(checkpoint - U32)
        d(c) == Distance(checkpoint, c)
    IN  IF d(same) =< d(above) /\ d(same) =< d(below) THEN same
        ELSE IF d(above) =< d(below) THEN above
        ELSE below
=============================================================================
