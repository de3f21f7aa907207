------------------------------- MODULE MCLink -------------------------------
(* A segment without faults, with two senders, and faulty ones. *)
EXTENDS EthernetLink

CleanAndFaulty == {[bound |-> <<2, 1, 0>>, faulty |-> FALSE, replaceable |-> {}],
                   [bound |-> <<2, 0, 0>>, faulty |-> TRUE, replaceable |-> {1}],
                   [bound |-> <<2, 0, 0>>, faulty |-> TRUE, replaceable |-> {2}],
                   [bound |-> <<1, 0, 0>>, faulty |-> TRUE, replaceable |-> {1, 2}]}
=============================================================================
