----------------------------- MODULE BoundedFifo -----------------------------
(***************************************************************************)
(* What the ring buffer of thread-synchronization/pc.cpp promises: a       *)
(* first-in-first-out queue of limited capacity.  Every value that is put  *)
(* in is printed once, in the order in which the values were put in.       *)
(***************************************************************************)
EXTENDS Naturals, Sequences

CONSTANTS Capacity, Values

VARIABLES queue,                \* the values put in and not printed yet
          out                   \* the value printed last

Init == queue = <<>> /\ out \notin Values

Put(v) == /\ Len(queue) < Capacity
          /\ queue' = Append(queue, v)
          /\ UNCHANGED out

Get == /\ queue # <<>>
       /\ out' = Head(queue)
       /\ queue' = Tail(queue)

Next == (\E v \in Values : Put(v)) \/ Get

\* The queue is used for ever.
Spec == Init /\ [][Next]_<<queue, out>> /\ WF_<<queue, out>>(Next)
=============================================================================
