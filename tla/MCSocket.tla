------------------------------ MODULE MCSocket ------------------------------
(* What is copied each way, and what may go wrong. *)
EXTENDS SocketSystem

Plan(out, in, pipe, resets, unclean) ==
    [input |-> out, incoming |-> in, pipe |-> pipe, resets |-> resets, unclean |-> unclean]

AllPlans == {Plan(3, 0, TRUE, FALSE, FALSE), Plan(0, 3, FALSE, TRUE, FALSE),
             Plan(1, 1, TRUE, FALSE, FALSE), Plan(1, 0, FALSE, TRUE, TRUE)}
=============================================================================
