------------------------------ MODULE Buffers ------------------------------
(***************************************************************************)
(* Buffer and BufferList.  A Buffer is the string it shows, without the    *)
(* count of the references to it; a BufferList is a sequence of Buffers:   *)
(* the headers of a packet, outermost first, and its payload.              *)
(***************************************************************************)
EXTENDS Integers, Sequences, SequencesExt

\* Buffer::remove_prefix, for n up to its size.
discard(buffer, n) == SubSeq(buffer, n + 1, Len(buffer))

append(list, other) == list \o other

\* The conversion to a Buffer.  A list of several is an exception: no value
\* is defined, so that a run in which it happened could not be completed.
ToBuffer(list) == CASE Len(list) = 0 -> <<>>
                    [] Len(list) = 1 -> list[1]

size(list) == FoldLeft(LAMBDA n, buffer : n + Len(buffer), 0, list)

\* The bytes that a system call gathers from the views of a BufferList.
as_iovecs(list) == FlattenSeq(list)
=============================================================================
