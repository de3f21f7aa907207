------------------------- MODULE StreamReassembler -------------------------
(***************************************************************************)
(* class StreamReassembler: excerpts of a byte stream that arrive in any   *)
(* order are cut to the window, kept in a sorted cache of nodes and        *)
(* written to the output stream as soon as they are contiguous with it.    *)
(*                                                                         *)
(* A state of the class is a record, a method is an operator from a state  *)
(* to the state it leaves.                                                 *)
(***************************************************************************)
EXTENDS ByteStreamOps, FiniteSets, SequencesExt, WrappingIntegers

NewReassembler(capacity) == [unassembled_bytes |-> 0,
                             head_index |-> 0,
                             cache |-> {},       \* the set of nodes
                             eof |-> FALSE,
                             output |-> NewStream(capacity)]

\* A node: the index of its first byte, and its bytes.
NodeOf(first, data) == [first |-> first, data |-> data]
End(node) == node.first + Len(node.data)

\* The order of the std::set of pairs.  Of two excerpts of one stream that
\* begin at the same index the shorter is a prefix of the longer.
Before(a, b) == \/ a.first < b.first
                \/ a.first = b.first /\ Len(a.data) < Len(b.data)

\* The least and the greatest node of a set that is not empty.
Least(nodes) == CHOOSE n \in nodes : \A m \in nodes \ {n} : Before(n, m)
Greatest(nodes) == CHOOSE n \in nodes : \A m \in nodes \ {n} : Before(m, n)

empty(r) == r.unassembled_bytes = 0

\* The index after the last byte there is room for.
WindowEnd(r) == r.head_index + remaining_capacity(r.output)

\* Mutant: a touching excerpt is appended without its first byte.
merge_skips_byte(pa, pb) ==
    IF End(pa) < pb.first THEN [node |-> pa, overlap |-> 0]
    ELSE IF End(pa) >= End(pb) THEN [node |-> pa, overlap |-> Len(pb.data)]
    ELSE LET cut == End(pa) - pb.first + 1
         IN  [node |-> NodeOf(pa.first, pa.data \o SubSeq(pb.data, cut + 1, Len(pb.data))),
              overlap |-> cut]

\* pa extended by what pb, which does not begin before it, has beyond its
\* end; and the number of bytes they share.
merge(pa, pb) ==
    IF End(pa) =< pb.first THEN [node |-> pa, overlap |-> 0]
    ELSE IF End(pa) >= End(pb) THEN [node |-> pa, overlap |-> Len(pb.data)]
    ELSE LET cut == End(pa) - pb.first
         IN  [node |-> NodeOf(pa.first, pa.data \o SubSeq(pb.data, cut + 1, Len(pb.data))),
              overlap |-> cut]

\* The nodes at and after the new one: those that end no later are dropped,
\* up to the first that ends later, which is joined to the new one if the
\* two overlap.  The result is what is left of the cache and the new node.
MergeSuccessors(r, node) ==
    LET after == {n \in r.cache : ~Before(n, node)}
        longer == {n \in after : End(n) > End(node)}
        covered == {n \in after : \A m \in longer : Before(n, m)}
        shed == MapThenSumSet(LAMBDA n : Len(n.data), covered)
        kept == [r EXCEPT !.cache = @ \ covered, !.unassembled_bytes = @ - shed]
    IN  IF longer = {} THEN [rest |-> kept, node |-> node]
        ELSE LET next == Least(longer)
                 joined == merge(node, next)
             IN  [rest |-> [kept EXCEPT
                              !.cache = IF joined.overlap # 0 THEN @ \ {next} ELSE @,
                              !.unassembled_bytes = @ - joined.overlap],
                  node |-> joined.node]

\* The node just before the new one is joined to it if the two overlap.
\* write_len is the length the new node had before it met its successors.
InsertNode(r, node, write_len) ==
    LET preceding == {n \in r.cache : Before(n, node)}
        counted == [r EXCEPT !.unassembled_bytes = @ + write_len]
    IN  IF preceding = {} THEN [counted EXCEPT !.cache = @ \cup {node}]
        ELSE LET pre == Greatest(preceding)
                 joined == merge(pre, node)
             IN  [counted EXCEPT
                    !.cache = IF joined.overlap = 0 THEN @ \cup {node}
                              ELSE (@ \ {pre}) \cup {joined.node},
                    !.unassembled_bytes = @ - joined.overlap]

\* Mutant: a node that is written is still counted as unassembled.
AssembleOne_keeps_count(r) ==
    IF r.cache = {} THEN r
    ELSE LET node == Least(r.cache)
         IN  IF node.first > r.head_index THEN r
             ELSE [r EXCEPT !.cache = @ \ {node},
                            !.head_index = @ + WriteLength(r.output, node.data),
                            !.output = Written(@, node.data)]

\* Mutant: a gap of one byte is not noticed.
AssembleOne_over_gap(r) ==
    IF r.cache = {} THEN r
    ELSE LET node == Least(r.cache)
         IN  IF node.first > r.head_index + 1 THEN r
             ELSE [r EXCEPT !.cache = @ \ {node},
                            !.unassembled_bytes = @ - Len(node.data),
                            !.head_index = @ + WriteLength(r.output, node.data),
                            !.output = Written(@, node.data)]

\* One turn of the loop of assemble_string; no change once it is over.
AssembleOne(r) ==
    IF r.cache = {} THEN r
    ELSE LET node == Least(r.cache)
         IN  IF node.first > r.head_index THEN r
             ELSE [r EXCEPT !.cache = @ \ {node},
                            !.unassembled_bytes = @ - Len(node.data),
                            !.head_index = @ + WriteLength(r.output, node.data),
                            !.output = Written(@, node.data)]

assemble_string(r) ==
    FoldLeft(LAMBDA state, i : AssembleOne(state), r,
             [i \in 1 .. Cardinality(r.cache) |-> i])

EndIfComplete(r) ==
    IF r.eof /\ empty(r) THEN [r EXCEPT !.output = Ended(@)] ELSE r

\* The index after an excerpt, a size_t: an excerpt that begins just below
\* the largest index wraps around.
EndIndex(index, data) == (index + Len(data)) % U64

\* Mutant: an excerpt that brings no new byte is not looked at.
note_eof_if_new(r, data, index, is_last) ==
    [r EXCEPT !.eof = @ \/ (/\ is_last
                            /\ r.head_index < EndIndex(index, data)
                            /\ EndIndex(index, data) =< WindowEnd(r))]

\* The end of the stream is noted if the whole excerpt fits the window.
note_eof(r, data, index, is_last) ==
    [r EXCEPT !.eof = @ \/ (is_last /\ EndIndex(index, data) =< WindowEnd(r))]

\* Mutant: what the window has no room for is stored as well.
Clip_left_only(r, data, index) ==
    LET start == GreaterOf(index, r.head_index)
    IN  NodeOf(start, SubSeq(data, start - index + 1, Len(data)))

\* The part of an excerpt that is new and fits the window.
Clip(r, data, index) ==
    LET start == GreaterOf(index, r.head_index)
        write_len == LesserOf(WindowEnd(r), EndIndex(index, data)) - start
    IN  NodeOf(start, SubSeq(data, start - index + 1, start - index + write_len))

push_substring(before, data, index, is_last) ==
    LET r == note_eof(before, data, index, is_last)
        node == Clip(r, data, index)
        merged == MergeSuccessors(r, node)
    IN  IF index >= WindowEnd(r) \/ EndIndex(index, data) =< r.head_index
        THEN EndIfComplete(r)
        ELSE EndIfComplete(assemble_string(
                 InsertNode(merged.rest, merged.node, Len(node.data))))
=============================================================================
