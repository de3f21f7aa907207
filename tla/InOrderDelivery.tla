-------------------------- MODULE InOrderDelivery --------------------------
(***************************************************************************)
(* What a StreamReassembler promises: of a stream of StreamLen bytes, of   *)
(* which excerpts arrive in any order, the reader is given ever longer     *)
(* prefixes, and the end of the stream exactly when all of it is there.    *)
(* Only bytes within Capacity of what the reader has taken are kept.       *)
(***************************************************************************)
EXTENDS Integers, Sequences

CONSTANTS StreamLen,   \* the bytes of the stream are 0 .. StreamLen-1
          Capacity,
          Excerpts     \* the excerpts that may arrive: [from, to, last]

VARIABLES delivered,   \* the bytes given to the output, in order
          taken,       \* how many of them the reader has taken
          held,        \* the bytes kept that are not contiguous yet
          end_known,   \* the end of the stream has been seen
          ended        \* the output has been ended

vars == <<delivered, taken, held, end_known, ended>>

\* The bytes from .. to-1 of the stream; a byte is named by its index.
Bytes(from, to) == [i \in 1 .. to - from |-> from + i - 1]

Init == /\ delivered = <<>>
        /\ taken = 0
        /\ held = {}
        /\ end_known = FALSE
        /\ ended = FALSE

\* An excerpt arrives.  What fits is kept, what has become contiguous is
\* delivered, and the output ends once the whole stream is delivered.
Arrive(e) ==
    LET limit == taken + Capacity
        have == held \cup {k \in e.from .. e.to - 1 : Len(delivered) =< k /\ k < limit}
        upto == CHOOSE k \in Len(delivered) .. StreamLen :
                    k \notin have /\ \A j \in Len(delivered) .. k - 1 : j \in have
    IN  /\ delivered' = delivered \o Bytes(Len(delivered), upto)
        /\ held' = {k \in have : k >= upto}
        /\ end_known' = (end_known \/ (e.last /\ e.to =< limit))
        /\ ended' = (ended \/ (end_known' /\ upto = StreamLen))
        /\ UNCHANGED taken

Take(n) == /\ taken + n =< Len(delivered)
           /\ taken' = taken + n
           /\ UNCHANGED <<delivered, held, end_known, ended>>

Next == \/ \E e \in Excerpts : Arrive(e)
        \/ \E n \in 1 .. Capacity : Take(n)

Spec == Init /\ [][Next]_vars
=============================================================================
