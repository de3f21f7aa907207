----------------------------- MODULE EventLoop -----------------------------
(***************************************************************************)
(* EventLoop: the rules of a thread, and wait_next_event in its three      *)
(* parts: finding out which rules are interested, poll, and going through  *)
(* its results.  Between the parts, and between two callbacks, other       *)
(* threads may run.                                                        *)
(*                                                                         *)
(* The state st of a thread is a record whose field loop is its EventLoop. *)
(* What depends on the rules comes as operators of st and a rule: Gone     *)
(* says that the rule's descriptor is closed, or at its end if it is read; *)
(* Cancel and Interest are the rule's functions.                           *)
(***************************************************************************)
EXTENDS Integers, FiniteSets, FiniteSetsExt

Rules == 1 .. 4

NewLoop == [rules |-> Rules,     \* not cancelled
            events |-> {},       \* those whose event was asked for
            ready |-> {},        \* those whose callback is still to be called
            defunct |-> {},      \* those still to be cancelled for a hangup
            phase |-> "poll"]

\* Up to the call of poll: rules that are gone are cancelled, the others say
\* whether they are interested.
set_up(st, Gone(_, _), Cancel(_, _), Interest(_, _)) ==
    LET swept[r \in {0} \cup Rules] ==
            IF r = 0 THEN st
            ELSE IF r \in st.loop.rules /\ Gone(swept[r - 1], r)
            THEN [Cancel(swept[r - 1], r) EXCEPT !.loop.rules = @ \ {r}]
            ELSE swept[r - 1]
        rules == swept[4].loop.rules
        interested == {r \in rules : Interest(swept[r], r)}
    IN  [swept[4] EXCEPT !.loop.events = interested,
                         !.loop.phase = IF interested = {} THEN "exit" ELSE "poll"]

\* What poll reports of a rule, of the events that hold for its descriptor:
\* a hangup is reported even if nothing was asked for.
Reported(loop, direction, revents, r) ==
    revents[r] \cap ({"hup"} \cup IF r \in loop.events THEN {direction[r]} ELSE {})

PollReturns(loop, direction, revents) ==
    \E r \in loop.rules : Reported(loop, direction, revents, r) # {}

\* Mutant: a hangup counts even if there is something to read.
Polled_hup_first(loop, direction, revents) ==
    LET reported(r) == Reported(loop, direction, revents, r)
        ready == {r \in loop.events : direction[r] \in reported(r) /\ "hup" \notin reported(r)}
        defunct == {r \in loop.events : "hup" \in reported(r)}
    IN  [loop EXCEPT !.ready = ready, !.defunct = defunct,
                     !.phase = IF ready \cup defunct = {} THEN "returned" ELSE "dispatch"]

\* The descriptors of the rules are a socket pair that is only shut down
\* while a loop runs, unconnected sockets and devices: no error (POLLERR,
\* POLLNVAL), for which the code throws, is among the events, and no signal
\* interrupts poll, for which the code leaves the loop.
Polled(loop, direction, revents) ==
    LET reported(r) == Reported(loop, direction, revents, r)
        ready == {r \in loop.events : direction[r] \in reported(r)}
        defunct == {r \in loop.events : reported(r) = {"hup"}}
    IN  [loop EXCEPT !.ready = ready, !.defunct = defunct,
                     !.phase = IF ready \cup defunct = {} THEN "returned" ELSE "dispatch"]

\* The rule whose turn it is.
Current(loop) == Min(loop.ready \cup loop.defunct)

\* The loop after the rule has had its turn.
Handled(loop, r) ==
    [loop EXCEPT !.ready = @ \ {r}, !.defunct = @ \ {r},
                 !.rules = IF r \in loop.defunct THEN @ \ {r} ELSE @,
                 !.phase = IF loop.ready \cup loop.defunct = {r} THEN "returned" ELSE "dispatch"]

\* A callback that has not served its descriptor, and whose rule is still
\* interested, is an error.
IsBusyWait(served, interested) == ~served /\ interested
=============================================================================
