------------------------------ MODULE ByteFifo ------------------------------
(***************************************************************************)
(* What a ByteStream promises its users: a bounded in-order byte channel.  *)
(*                                                                         *)
(* The whole history of accepted bytes is one sequence, the reader owns a  *)
(* position in it, and every call is described by what it returns.  There  *)
(* is no buffer here: module ByteStream implements this with a ring.       *)
(***************************************************************************)
EXTENDS Integers, Sequences

CONSTANTS Byte,       \* the values a byte can take
          Capacity,   \* how many bytes may be written and not yet read
          MaxLen,     \* bound: the longest string written, longest read
          MaxBytes    \* bound: bytes accepted in one behaviour

VARIABLES stream,     \* every byte ever accepted, in order
          nread,      \* how many of them the reader has consumed
          ended,      \* the writer has signalled the end of the input
          failed,     \* the stream suffered an error
          accepted,   \* what the last write returned
          output      \* what the last peek or read returned

vars == <<stream, nread, ended, failed, accepted, output>>

Smaller(a, b) == IF a =< b THEN a ELSE b

Unread == Len(stream) - nread

\* The next k unread bytes.
NextBytes(k) == SubSeq(stream, nread + 1, nread + k)

Init == /\ stream = <<>>
        /\ nread = 0
        /\ ended = FALSE
        /\ failed = FALSE
        /\ accepted = 0
        /\ output = <<>>

\* The longest prefix of data that fits is accepted; nothing after the end.
Write(data) ==
    LET k == IF ended THEN 0 ELSE Smaller(Capacity - Unread, Len(data))
    IN  /\ stream' = stream \o SubSeq(data, 1, k)
        /\ accepted' = k
        /\ UNCHANGED <<nread, ended, failed, output>>

Peek(len) == /\ output' = NextBytes(Smaller(Unread, len))
             /\ UNCHANGED <<stream, nread, ended, failed, accepted>>

Pop(len) == /\ nread' = nread + Smaller(Unread, len)
            /\ UNCHANGED <<stream, ended, failed, accepted, output>>

Read(len) == /\ output' = NextBytes(Smaller(Unread, len))
             /\ nread' = nread + Smaller(Unread, len)
             /\ UNCHANGED <<stream, ended, failed, accepted>>

End == /\ ended' = TRUE
       /\ UNCHANGED <<stream, nread, failed, accepted, output>>

Fail == /\ failed' = TRUE
        /\ UNCHANGED <<stream, nread, ended, accepted, output>>

Data == UNION {[1 .. n -> Byte] : n \in 0 .. MaxLen}

Next == \/ \E data \in Data : Len(stream) + Len(data) =< MaxBytes /\ Write(data)
        \/ \E len \in 0..MaxLen : Peek(len) \/ Pop(len) \/ Read(len)
        \/ End
        \/ Fail

Spec == Init /\ [][Next]_vars
=============================================================================
