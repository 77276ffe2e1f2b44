------------------------------ MODULE Minimio ------------------------------
(***************************************************************************)
(* minimio's Selector and Registrator (linux.rs) on one epoll queue, used  *)
(* as lib.rs 21-26 describes: one thread waits in select, another registers*)
(* interest.                                                               *)
(*   pc:  the selector, "new", "idle", "waiting", "failed"                 *)
(*   reg: the registrar, "free" or "panicked"                              *)
(***************************************************************************)
EXTENDS Epoll

CONSTANTS Streams, MAXEVENTS

VARIABLES pc, reg, interest, readable,
          events,               \* the vector the selector filled last
          got,                  \* how often each stream was reported
          results               \* the last result of register per stream

vars == <<pc, reg, interest, readable, events, got, results>>

Init == /\ pc = "new" /\ reg = "free"
        /\ interest = NoInterest /\ readable = {}
        /\ events = {} /\ got = [s \in Streams |-> 0]
        /\ results = [s \in Streams |-> "none"]

\* Selector::new, with the error of epoll_create passed on.
New == /\ pc = "new" /\ pc' \in {"idle", "failed"}
       /\ UNCHANGED <<reg, interest, readable, events, got, results>>

Is(interests, flag) == flag \in interests
is_readable(interests) == Is(interests, "READABLE")
is_writable(interests) == Is(interests, "WRITABLE")

\* register: add with EPOLLIN | EPOLLONESHOT and the caller's token, here the
\* stream itself.  epoll_ctl fails for a stream in the queue, and may fail for
\* any other one; the `?' returns its error at once.  An interest in writing
\* is unimplemented!(); no value of Interests is both.
Register(s, interests) ==
    /\ pc /= "new" /\ pc /= "failed" /\ reg = "free"
    /\ \/ /\ is_readable(interests) /\ CanAdd(interest, s)
          /\ interest' = Added(interest, s, s)
          /\ results' = [results EXCEPT ![s] = "Ok"]
          /\ UNCHANGED reg
       \/ /\ is_readable(interests)
          /\ results' = [results EXCEPT ![s] = "Err"]
          /\ UNCHANGED <<interest, reg>>
       \/ /\ is_writable(interests)
          /\ reg' = "panicked"
          /\ UNCHANGED <<interest, results>>
    /\ UNCHANGED <<pc, readable, events, got>>

\* select: the vector is cleared before the call blocks.
Select == /\ pc = "idle" /\ pc' = "waiting"
          /\ events' = {}
          /\ UNCHANGED <<reg, interest, readable, got, results>>

\* Bug: the length is set to one, whatever epoll_wait returned.
Bug_SelectReturns ==
    /\ pc = "waiting" /\ pc' = "idle"
    /\ \E S \in Reports(interest, readable, MAXEVENTS) : \E fd \in S :
          /\ interest' = Reported(interest, S)
          /\ events' = Tokens(interest, {fd})
          /\ got' = [s \in Streams |-> got[s] + (IF s \in events' THEN 1 ELSE 0)]
    /\ UNCHANGED <<reg, readable, results>>

\* epoll_wait returns events and set_len makes them the vector's elements.
SelectReturns ==
    /\ pc = "waiting" /\ pc' = "idle"
    /\ \E S \in Reports(interest, readable, MAXEVENTS) :
          /\ interest' = Reported(interest, S)
          /\ events' = Tokens(interest, S)
          /\ got' = [s \in Streams |-> got[s] + (IF s \in events' THEN 1 ELSE 0)]
    /\ UNCHANGED <<reg, readable, results>>

\* epoll_wait returns 0 after the timeout, or fails (a signal).  It looks for
\* events before it gives up, and leaves the vector empty.
SelectEmpty == /\ pc = "waiting" /\ pc' = "idle"
               /\ Firing(interest, readable) = {}
               /\ UNCHANGED <<reg, interest, readable, events, got, results>>

Answer(s) == /\ s \in Streams \ readable
             /\ readable' = readable \cup {s}
             /\ UNCHANGED <<pc, reg, interest, events, got, results>>

Poll == New \/ Select \/ SelectReturns

Registrations == \E s \in Streams : \E i \in {{"READABLE"}, {"WRITABLE"}} : Register(s, i)

Next == Poll \/ SelectEmpty \/ Registrations \/ \E s \in Streams : Answer(s)

-----------------------------------------------------------------------------
\* No stream is reported twice, however often its owner registers it again,
\* and none that was not registered: a stream whose registration was accepted
\* is in the queue for good, so that no later one can arm it again.  An error
\* says nothing of whether the stream is in the queue.
OneEventEach == \A s \in Streams :
    /\ got[s] <= 1
    /\ got[s] = 1 => s \in DOMAIN interest
    /\ results[s] = "Ok" => s \in DOMAIN interest
    /\ s \in DOMAIN interest => results[s] # "none"

\* Registered, and something to read.
Expected(s) == s \in DOMAIN interest \cap readable

-----------------------------------------------------------------------------
\* Why OneEventEach holds: a stream that is still armed was never reported.
TypeOK == /\ DOMAIN interest \subseteq Streams
          /\ interest \in [DOMAIN interest -> [token : Streams, armed : BOOLEAN]]
          /\ \A s \in DOMAIN interest : interest[s].token = s
          /\ got \in [Streams -> {0, 1}]
          /\ results \in [Streams -> {"none", "Ok", "Err"}]

ArmedOnce == \A s \in Streams :
    /\ got[s] = 1 => s \in DOMAIN interest /\ ~interest[s].armed
    /\ results[s] = "Ok" => s \in DOMAIN interest
    /\ s \in DOMAIN interest => results[s] # "none"

IInv == TypeOK /\ ArmedOnce
=============================================================================
