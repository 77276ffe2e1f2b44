--------------------------- MODULE PhilosopherBad ---------------------------
(***************************************************************************)
(* thread-synchronization/philosopher-bad.c: one binary semaphore per fork *)
(* and every philosopher takes the left fork first.  pc[id] is the next    *)
(* statement of philosopher id:                                            *)
(*   "left"  P(&locks[lhs])        "right"  P(&locks[rhs])                 *)
(*   "vleft" V(&locks[lhs])        "vright" V(&locks[rhs])                 *)
(***************************************************************************)
EXTENDS Integers

CONSTANT N                      \* philosophers and forks

ASSUME PhilAssumption == N \in Nat /\ N >= 2

Ids == 1 .. N                   \* thread.h numbers threads from 1
Forks == 0 .. N - 1

VARIABLES locks, pc

vars == <<locks, pc>>

lhs(id) == (N + id - 1) % N
rhs(id) == id % N

Init == /\ locks = [f \in Forks |-> 1]
        /\ pc = [id \in Ids |-> "left"]

P(f) == locks[f] > 0 /\ locks' = [locks EXCEPT ![f] = @ - 1]
V(f) == locks' = [locks EXCEPT ![f] = @ + 1]

\* One semaphore operation of philosopher id and the statement after it.
Do(id, at, operation, next) == /\ pc[id] = at
                               /\ operation
                               /\ pc' = [pc EXCEPT ![id] = next]

\* Bug: the left fork is put back twice and the right one never.
Bug_PutRight(id) == Do(id, "vright", V(lhs(id)), "left")

\* Bug: the right fork is taken without waiting for it.
Bug_TakeRight(id) == /\ pc[id] = "right"
                     /\ pc' = [pc EXCEPT ![id] = "vleft"]
                     /\ UNCHANGED locks

\* Bug: the left fork is never put back.
Bug_PutLeft(id) == /\ pc[id] = "vleft"
                   /\ pc' = [pc EXCEPT ![id] = "vright"]
                   /\ UNCHANGED locks

TakeLeft(id)  == Do(id, "left",   P(lhs(id)), "right")
TakeRight(id) == Do(id, "right",  P(rhs(id)), "vleft")
PutLeft(id)   == Do(id, "vleft",  V(lhs(id)), "vright")
PutRight(id)  == Do(id, "vright", V(rhs(id)), "left")

Tphilosopher(id) == TakeLeft(id) \/ TakeRight(id) \/ PutLeft(id) \/ PutRight(id)

Next == \E id \in Ids : Tphilosopher(id)

\* Every philosopher that can run is run; the semaphores are not fair.
Spec == Init /\ [][Next]_vars /\ \A id \in Ids : WF_vars(Tphilosopher(id))

-----------------------------------------------------------------------------
\* The forks philosopher id has in the hands.
Holds(id, f) == \/ f = lhs(id) /\ pc[id] \in {"right", "vleft"}
                \/ f = rhs(id) /\ pc[id] \in {"vleft", "vright"}

\* Every variable has the values the code gives it: the semaphores are binary.
TypeOK == /\ locks \in [Forks -> {0, 1}]
          /\ pc \in [Ids -> {"left", "right", "vleft", "vright"}]

\* A fork is never in two hands (concurrency.md 178-179), and its semaphore
\* says 0 exactly while somebody holds it.
ForksConserved ==
  /\ \A i, j \in Ids, f \in Forks : Holds(i, f) /\ Holds(j, f) => i = j
  /\ \A f \in Forks : locks[f] = 0 <=> \E i \in Ids : Holds(i, f)

\* The inductive invariant.
IInv == TypeOK /\ ForksConserved

\* Philosopher id sleeps in P.
Waits(id) == \/ pc[id] = "left" /\ locks[lhs(id)] = 0
             \/ pc[id] = "right" /\ locks[rhs(id)] = 0

\* The deadlock of lines 13-14, and no other: nobody can move exactly when
\* every philosopher holds the left fork and waits for the right one.
StuckIffAllHoldLeft == (\A id \in Ids : Waits(id)) <=> (\A id \in Ids : pc[id] = "right")

\* Short of that deadlock somebody always eats again.
EatsOrDeadlocks == \/ []<>(\E id \in Ids : pc[id] = "vleft")
                   \/ <>[](\A id \in Ids : pc[id] = "right")
=============================================================================
