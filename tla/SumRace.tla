------------------------------- MODULE SumRace -------------------------------
(***************************************************************************)
(* why-we-need-locks/sum.cpp: two threads do sum++ N times each without a  *)
(* lock.  The build of the repository (obj.dump, and o1.dump and o2.dump)  *)
(* compiles sum++ to a load, an add and a store, so the data race has the  *)
(* outcomes of interleaving these.                                         *)
(*   main:  "spawn", "join", "print", "exit"                               *)
(*   pc[t]: "new", "test" (i < N), "load", "store", "inc" (i++), "done"    *)
(***************************************************************************)
EXTENDS Integers

CONSTANT N                      \* rounds of each thread, a natural number

Threads == {1, 2}

VARIABLES main, sum, pc, i, reg

vars == <<main, sum, pc, i, reg>>

Init == /\ main = [next |-> "spawn", thread |-> 1]
        /\ sum = 0
        /\ pc = [t \in Threads |-> "new"]
        /\ i = [t \in Threads |-> 0]
        /\ reg = [t \in Threads |-> 0]

\* main's two spawns and two joins, in order, one thread at a time.
Spawn == /\ main.next = "spawn"
         /\ pc' = [pc EXCEPT ![main.thread] = "test"]
         /\ main' = IF main.thread = 1 THEN [main EXCEPT !.thread = 2]
                                       ELSE [next |-> "join", thread |-> 1]
         /\ UNCHANGED <<sum, i, reg>>

\* Bug: the second thread is not joined.
Bug_Join == /\ main.next = "join"
            /\ pc[1] = "done"
            /\ main' = [next |-> "print", thread |-> 1]
            /\ UNCHANGED <<sum, pc, i, reg>>

Join == /\ main.next = "join"
        /\ pc[main.thread] = "done"
        /\ main' = IF main.thread = 1 THEN [main EXCEPT !.thread = 2]
                                      ELSE [next |-> "print", thread |-> 1]
        /\ UNCHANGED <<sum, pc, i, reg>>

Output == /\ main.next = "print"
          /\ main' = [main EXCEPT !.next = "exit"]
          /\ UNCHANGED <<sum, pc, i, reg>>

Goto(t, from, to) == pc[t] = from /\ pc' = [pc EXCEPT ![t] = to]

Test(t) == /\ Goto(t, "test", IF i[t] < N THEN "load" ELSE "done")
           /\ UNCHANGED <<sum, i, reg>>

Load(t) == /\ Goto(t, "load", "store")
           /\ reg' = [reg EXCEPT ![t] = sum]
           /\ UNCHANGED <<sum, i>>

Store(t) == /\ Goto(t, "store", "inc")
            /\ sum' = reg[t] + 1
            /\ UNCHANGED <<i, reg>>

Inc(t) == /\ Goto(t, "inc", "test")
          /\ i' = [i EXCEPT ![t] = @ + 1]
          /\ UNCHANGED <<sum, reg>>

tSum(t) == (Test(t) \/ Load(t) \/ Store(t) \/ Inc(t)) /\ UNCHANGED main

Main == Spawn \/ Join \/ Output

Next == Main \/ \E t \in Threads : tSum(t)

\* All threads are run when they can run.
Spec == Init /\ [][Next]_vars /\ WF_vars(Main) /\ \A t \in Threads : WF_vars(tSum(t))

-----------------------------------------------------------------------------
\* How wrong the printed number can be: it is at most 2N, and however many
\* additions are lost at least two of them survive (one if N = 1).  The
\* numbers the comment on line 18 reports lie in between.
PrintedSum == main.next = "print" =>
                /\ sum <= 2 * N
                /\ sum >= IF N >= 2 THEN 2 ELSE N
-----------------------------------------------------------------------------
\* Why PrintedSum holds.
TypeOK == /\ main \in [next : {"spawn", "join", "print", "exit"}, thread : Threads]
          /\ sum \in Nat
          /\ pc \in [Threads -> {"new", "test", "load", "store", "inc", "done"}]
          /\ i \in [Threads -> 0 .. N]
          /\ reg \in [Threads -> Nat]

\* Stores that t has made.
Stores(t) == i[t] + IF pc[t] = "inc" THEN 1 ELSE 0

\* The loop of each thread, and what main knows about it.
Loops == /\ \A t \in Threads : /\ pc[t] \in {"load", "store", "inc"} => i[t] < N
                               /\ pc[t] = "done" => i[t] = N
         /\ main.next = "spawn" => \A t \in Threads : t >= main.thread => pc[t] = "new"
         /\ main.next = "join" /\ main.thread = 2 => pc[1] = "done"
         /\ main.next \in {"print", "exit"} => \A t \in Threads : pc[t] = "done"

\* No value is larger than the number of stores so far.
AtMost == /\ sum <= Stores(1) + Stores(2)
          /\ \A t \in Threads : pc[t] = "store" => reg[t] <= Stores(1) + Stores(2)

\* After the first store there is no 0 to be read; and a thread's second and
\* later stores write at least 2, so that a smaller sum is some thread's first.
AtLeast == /\ \A t \in Threads : Stores(t) >= 1 => sum >= 1
           /\ \A t \in Threads : pc[t] = "store" /\ i[t] >= 1 => reg[t] >= 1
           /\ (\A t \in Threads : Stores(t) >= 2) => sum >= 2

IInv == TypeOK /\ Loops /\ AtMost /\ AtLeast
=============================================================================
