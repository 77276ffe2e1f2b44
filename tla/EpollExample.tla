---------------------------- MODULE EpollExample ----------------------------
(***************************************************************************)
(* minimio's example.rs: one thread sends N slow requests, adds each       *)
(* stream to an epoll queue and counts the events down.                    *)
(*   pc: "create", "connect", "add", "wait", "events", "close",            *)
(*       "finished", "panic"                                               *)
(***************************************************************************)
EXTENDS Epoll, Sequences

CONSTANTS N,                    \* requests: `for x in 1..6'
          CAPACITY              \* of the events vector, and maxevents

VARIABLES pc, x, event_counter,
          streams,              \* the open streams; the x-th has descriptor x
          interest, readable,   \* the queue; the streams with an answer
          events,               \* tokens epoll_wait stored and not yet handled
          got                   \* tokens in the order they were handled

vars == <<pc, x, event_counter, streams, interest, readable, events, got>>

Init == /\ pc = "create" /\ x = 1 /\ event_counter = 0
        /\ streams = {} /\ interest = NoInterest /\ readable = {}
        /\ events = {} /\ got = <<>>

Goto(from, to) == pc = from /\ pc' = to

\* Every system call may fail, and every failure panics: the unwrap()s of
\* connect and write_all, and ret < 0 of the calls on the queue.
Panic == /\ \E from \in {"create", "connect", "add", "wait", "close"} : Goto(from, "panic")
         /\ (pc = "connect" => x <= N)
         /\ UNCHANGED <<x, event_counter, streams, interest, readable, events, got>>

EpollCreate == /\ Goto("create", "connect")
               /\ UNCHANGED <<x, event_counter, streams, interest, readable, events, got>>

\* connect and write_all: from here on the server may answer.
Connect == /\ x <= N /\ Goto("connect", "add")
           /\ streams' = streams \cup {x}
           /\ UNCHANGED <<x, event_counter, interest, readable, events, got>>

\* epoll_ctl with token x; the stream is kept so that it stays open.
EpollCtl == /\ Goto("add", "connect")
            /\ CanAdd(interest, x)
            /\ interest' = Added(interest, x, x)
            /\ event_counter' = event_counter + 1
            /\ x' = x + 1
            /\ UNCHANGED <<streams, readable, events, got>>

\* The head of `while event_counter > 0'.
While == /\ \/ pc = "connect" /\ x > N
            \/ pc = "events" /\ events = {}
         /\ pc' = IF event_counter > 0 THEN "wait" ELSE "close"
         /\ UNCHANGED <<x, event_counter, streams, interest, readable, events, got>>

\* epoll_wait without a timeout, and set_len to what it returned.
EpollWait == /\ Goto("wait", "events")
             /\ \E S \in Reports(interest, readable, CAPACITY) :
                   /\ interest' = Reported(interest, S)
                   /\ events' = Tokens(interest, S)
             /\ UNCHANGED <<x, event_counter, streams, readable, got>>

\* Bug: one event is counted per call instead of one per event.
Bug_Receive == /\ pc = "events"
               /\ \E e \in events :
                     /\ events' = events \ {e}
                     /\ got' = Append(got, e)
               /\ event_counter' = event_counter - (IF events' = {} THEN 1 ELSE 0)
               /\ UNCHANGED <<pc, x, streams, interest, readable>>

\* `for event in events': the order is the kernel's.
Receive == /\ pc = "events"
           /\ \E e \in events :
                 /\ events' = events \ {e}
                 /\ got' = Append(got, e)
           /\ event_counter' = event_counter - 1
           /\ UNCHANGED <<pc, x, streams, interest, readable>>

\* close(queue); the streams are closed when main returns.
Close == /\ Goto("close", "finished")
         /\ streams' = {}
         /\ UNCHANGED <<x, event_counter, interest, readable, events, got>>

Main == EpollCreate \/ Connect \/ EpollCtl \/ While \/ EpollWait \/ Receive \/ Close

\* The server's answer, or the end of the connection, makes a stream readable
\* after a delay that nothing bounds.
Answer(s) == /\ s \in streams \ readable
             /\ readable' = readable \cup {s}
             /\ UNCHANGED <<pc, x, event_counter, streams, interest, events, got>>

Next == Main \/ Panic \/ \E s \in 1..N : Answer(s)

-----------------------------------------------------------------------------
\* Each stream is reported at most once, the counter is what is outstanding,
\* what is outstanding is on open streams, and a clean end has heard them all.
OneEventEach == /\ \A i, j \in 1..Len(got) : got[i] = got[j] => i = j
                /\ event_counter = Cardinality(DOMAIN interest) - Len(got)
                /\ pc /= "finished" => DOMAIN interest \subseteq streams
                /\ pc = "finished" => {got[i] : i \in 1..Len(got)} = 1..N

AtEnd == pc \in {"finished", "panic"}

-----------------------------------------------------------------------------
\* Why OneEventEach holds.
TypeOK == /\ pc \in {"create", "connect", "add", "wait", "events", "close", "finished", "panic"}
          /\ x \in 1..N+1 /\ event_counter \in Nat
          /\ streams \subseteq 1..N /\ readable \subseteq 1..N /\ events \subseteq 1..N
          /\ got \in Seq(1..N)
          /\ interest \in [1..x-1 -> [token : 1..N, armed : BOOLEAN]]
          /\ \A s \in 1..x-1 : interest[s].token = s

\* A stream that was added is armed, stored in the vector or handled: one of
\* the three.
Armed == {s \in DOMAIN interest : interest[s].armed}
Handled == {got[k] : k \in 1..Len(got)}
Outstanding == Armed \cup events
Once == /\ DOMAIN interest = Outstanding \cup Handled
        /\ Outstanding \cap Handled = {} /\ Armed \cap events = {}
        /\ \A j, k \in 1..Len(got) : got[j] = got[k] => j = k

\* The loops of main: what is counted, and which streams are open.
Counted == /\ event_counter = Cardinality(Outstanding)
           /\ event_counter = x - 1 - Len(got)
           /\ pc # "events" => events = {}
           /\ pc \in {"wait", "events", "close", "finished"} => x = N + 1
           /\ pc \in {"close", "finished"} => event_counter = 0
           /\ pc = "add" => x \in streams
           /\ pc # "finished" => 1..x-1 \subseteq streams

IInv == TypeOK /\ Once /\ Counted
=============================================================================
