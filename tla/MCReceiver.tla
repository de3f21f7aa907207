----------------------------- MODULE MCReceiver -----------------------------
(* A stream of eight bytes, cut in four or in every way. *)
EXTENDS ReceiverSpec

Sending(from, to, syn, fin) == [from |-> from, to |-> to, syn |-> syn, fin |-> fin]

Cut(k) == <<0, 1, 3, 5, 8>>[k]

\* The segments, the last one with the FIN; and at each cut, and after the
\* FIN, a segment that is a mere ACK.
Body == {Sending(Cut(k), Cut(k + 1), FALSE, k = 4) : k \in 1 .. 4}
          \cup {Sending(Cut(k), Cut(k), FALSE, FALSE) : k \in 1 .. 5}
          \cup {Sending(9, 9, FALSE, FALSE)}

\* The SYN comes alone, or with the first byte.
FinWithData == {Body \cup {Sending(0, 0, TRUE, FALSE)},
                (Body \ {Sending(0, 1, FALSE, FALSE)}) \cup {Sending(0, 1, TRUE, FALSE)}}

\* Every segment with at least one byte; the last byte may bring the FIN.
AnyCut == {x \in [from : 0 .. StreamLen, to : 0 .. StreamLen, syn : {FALSE}, fin : BOOLEAN] :
               x.from < x.to /\ (x.fin => x.to = StreamLen)}
            \cup {Sending(0, 0, TRUE, FALSE)}

AllPlans == FinWithData \cup {AnyCut}

\* The FIN comes in a segment of its own: AcknoIsFirstMissing does not hold for
\* these, since it may come before data.
FinAlone == {{Sending(0, 0, TRUE, FALSE), Sending(8, 8, FALSE, TRUE)}
               \cup {Sending(Cut(k), Cut(k + 1), FALSE, FALSE) : k \in 1 .. 4}}

\* A mere ACK anywhere: CountsEachByteOnce does not hold for these.
AckAnywhere == {AnyCut \cup {Sending(k, k, FALSE, FALSE) : k \in 0 .. StreamLen}}
=============================================================================
