------------------------------- MODULE PcRing -------------------------------
(***************************************************************************)
(* thread-synchronization/pc.cpp: producers put their number into a ring   *)
(* of N cells, consumers print it.  `head' is the oldest full cell and     *)
(* `rear' the first free one; head = rear means empty, so a full ring      *)
(* leaves one cell unused.  std::mutex and std::condition_variable behave  *)
(* like the pthreads they wrap; notify_all is a broadcast.                 *)
(*   "lock"  unique_lock(mtx)    "test" the `while'    "wait" in cv.wait   *)
(*   "use"   buffer[rear] = prod, or cout << buffer[head]                  *)
(*   "move"  rear or head moves  "wake" notify_all     "unlock" unlock()   *)
(* Producer p is its own number prod.                                      *)
(***************************************************************************)
EXTENDS PthreadSync, Sequences

CONSTANTS Producers, Consumers, \* the threads that run Tproducer and Tconsumer
          N,                    \* cells of the ring
          Unwritten             \* the content of a cell nobody wrote yet

ASSUME RingAssumption == /\ Threads = Producers \cup Consumers
                         /\ Producers \cap Consumers = {}
                         /\ N \in Nat \ {0}
                         /\ Unwritten \notin Producers

VARIABLES pc, buffer, head, rear,
          out                   \* the value printed last

vars == <<lk, waiting, spurious, pc, buffer, head, rear, out>>

Init == /\ SyncInit
        /\ pc = [t \in Threads |-> "lock"]
        /\ buffer = [i \in 0 .. N - 1 |-> Unwritten]
        /\ head = 0 /\ rear = 0
        /\ out = Unwritten

Goto(t, label) == pc' = [pc EXCEPT ![t] = label]

\* Bug: the producer does not test for a full ring.
Bug_Blocked(t) == t \in Consumers /\ head = rear

\* The condition under which t waits: full, or empty.
Blocked(t) == \/ t \in Producers /\ (rear + 1) % N = head
              \/ t \in Consumers /\ head = rear

Lock(t) == /\ pc[t] = "lock"
           /\ mutex_lock(t)
           /\ Goto(t, "test")
           /\ UNCHANGED <<waiting, spurious, buffer, head, rear, out>>

Test(t) == /\ pc[t] = "test"
           /\ IF Blocked(t)
                THEN cond_wait(t) /\ Goto(t, "wait")
                ELSE UNCHANGED <<lk, waiting>> /\ Goto(t, "use")
           /\ UNCHANGED <<spurious, buffer, head, rear, out>>

Return(t) == /\ pc[t] = "wait"
             /\ cond_wait_return(t)
             /\ Goto(t, "test")
             /\ UNCHANGED <<waiting, spurious, buffer, head, rear, out>>

Use(t) == /\ pc[t] = "use"
          /\ IF t \in Producers
               THEN buffer' = [buffer EXCEPT ![rear] = t] /\ UNCHANGED out
               ELSE out' = buffer[head] /\ UNCHANGED buffer
          /\ Goto(t, "move")
          /\ UNCHANGED <<lk, waiting, spurious, head, rear>>

\* Bug: the index does not wrap around at the end of the ring.
Bug_Move(t) == /\ pc[t] = "move"
               /\ IF t \in Producers
                    THEN rear' = (rear + 1) % N /\ UNCHANGED head
                    ELSE head' = head + 1 /\ UNCHANGED rear
               /\ Goto(t, "wake")
               /\ UNCHANGED <<lk, waiting, spurious, buffer, out>>

Move(t) == /\ pc[t] = "move"
           /\ IF t \in Producers
                THEN rear' = (rear + 1) % N /\ UNCHANGED head
                ELSE head' = (head + 1) % N /\ UNCHANGED rear
           /\ Goto(t, "wake")
           /\ UNCHANGED <<lk, waiting, spurious, buffer, out>>

Wake(t) == /\ pc[t] = "wake"
           /\ cond_broadcast
           /\ Goto(t, "unlock")
           /\ UNCHANGED <<lk, spurious, buffer, head, rear, out>>

Unlock(t) == /\ pc[t] = "unlock"
             /\ mutex_unlock
             /\ Goto(t, "lock")
             /\ UNCHANGED <<waiting, spurious, buffer, head, rear, out>>

Step(t) == \/ Lock(t) \/ Test(t) \/ Return(t) \/ Use(t)
           \/ Move(t) \/ Wake(t) \/ Unlock(t)

Tproducer(p) == p \in Producers /\ Step(p)

Tconsumer(c) == c \in Consumers /\ Step(c)

Wakeup(t) == SpuriousWakeup(t) /\ UNCHANGED <<pc, buffer, head, rear, out>>

Next == \/ \E p \in Producers : Tproducer(p)
        \/ \E c \in Consumers : Tconsumer(c)
        \/ \E t \in Threads : Wakeup(t)

\* Every thread that can run is run; the mutex is not fair.
Spec == Init /\ [][Next]_vars /\ \A t \in Threads : WF_vars(Step(t))

-----------------------------------------------------------------------------
\* Every variable has the values the code gives it: both indices stay inside
\* the ring.
TypeOK == /\ SyncTypeOK
          /\ pc \in [Threads -> {"lock", "test", "wait", "use", "move", "wake", "unlock"}]
          /\ buffer \in [0 .. N - 1 -> Producers \cup {Unwritten}]
          /\ head \in 0 .. N - 1 /\ rear \in 0 .. N - 1
          /\ out \in Producers \cup {Unwritten}

\* The refinement mapping: the full cells from head on.  A consumer has taken
\* the first one as soon as it has printed it, before it moves head.
Printed == \E c \in Consumers : pc[c] = "move"

Contents == LET taken == IF Printed THEN 1 ELSE 0
                full == (rear - head + N) % N
            IN  [k \in 1 .. full - taken |-> buffer[(head + taken + k - 1) % N]]

\* The ring behaves like a queue of N - 1 places: nothing is overwritten
\* before it is printed, printed twice or out of order, and the threads keep
\* putting and getting for ever (lines 17-22 and 30-35).
Fifo == INSTANCE BoundedFifo WITH Capacity <- N - 1, Values <- Producers,
                                  queue <- Contents
ImplementsFifo == Fifo!Spec

-----------------------------------------------------------------------------
\* Why the safety half of ImplementsFifo holds: the threads between the lock
\* and the unlock exclude each other, so that the tested condition still holds
\* when the cell is used and when the index moves.
MutexHeld == \A t \in Threads : pc[t] \notin {"lock", "wait"} <=> lk = t

InRing == \A t \in Threads :
             /\ pc[t] \in {"use", "move"} => ~Blocked(t)
             /\ t \in Producers /\ pc[t] = "move" => buffer[rear] = t

IInv == TypeOK /\ MutexHeld /\ InRing

\* Why its threads keep putting and getting: no wakeup is lost.  A thread
\* sleeps in cv.wait only while the ring is full or empty for it, except for
\* the moment before the notify_all of the thread that changed that.
NoLostWakeup == \A t \in waiting :
                  /\ pc[t] = "wait"
                  /\ Blocked(t) \/ \E s \in Threads : lk = s /\ pc[s] = "wake"

\* The threads never all sleep, if there is one on each side and a cell that
\* can be used; a ring of one cell is full and empty at the same time.
SomebodyAwake == N > 1 /\ Producers # {} /\ Consumers # {} =>
                   \E t \in Threads : t \notin waiting
=============================================================================
