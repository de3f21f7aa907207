------------------------------ MODULE MCSender ------------------------------
(* The networks between the sender and its peer. *)
EXTENDS SenderSpec

InOrder == [reordering |-> FALSE, windows |-> {1, 2}]
AnyOrder == [reordering |-> TRUE, windows |-> {1, 2, 4}]
AnyOrderClosing == [reordering |-> TRUE, windows |-> {0, 2}]

BothNetworks == {InOrder, AnyOrderClosing}
ReorderingNetwork == {AnyOrder}
=============================================================================
