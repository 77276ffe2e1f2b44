------------------------------- MODULE Epoll -------------------------------
(***************************************************************************)
(* The kernel's event queue as example.rs and minimio use it (external:    *)
(* epoll(7)).  `interest' maps the descriptors added to the queue to the   *)
(* user's token and to whether the interest is armed; EPOLLONESHOT disarms *)
(* it when it is reported and leaves the descriptor in the queue.          *)
(***************************************************************************)
EXTENDS Integers, FiniteSets

NoInterest == << >>

\* EPOLL_CTL_ADD: refused (EEXIST) for a descriptor that is in the queue.
CanAdd(interest, fd) == fd \notin DOMAIN interest
Added(interest, fd, token) ==
    [d \in DOMAIN interest \cup {fd} |->
        IF d = fd THEN [token |-> token, armed |-> TRUE] ELSE interest[d]]

\* The descriptors epoll_wait can report: armed, and with something to read.
Firing(interest, readable) == {fd \in DOMAIN interest \cap readable : interest[fd].armed}

\* The sets epoll_wait may report: all that fire, or as many as there is room
\* for.  It blocks while nothing fires.
Reports(interest, readable, maxevents) ==
    LET F == Firing(interest, readable)
    IN IF Cardinality(F) <= maxevents THEN {F} \ {{}}
       ELSE {S \in SUBSET F : Cardinality(S) = maxevents}

\* Bug: an interest without EPOLLONESHOT.
Bug_Reported(interest, S) == interest

\* EPOLLONESHOT: what is reported is disarmed.
Reported(interest, S) ==
    [fd \in DOMAIN interest |->
        [interest[fd] EXCEPT !.armed = @ /\ fd \notin S]]

Tokens(interest, S) == {interest[fd].token : fd \in S}
=============================================================================
