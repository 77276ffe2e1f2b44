----------------------------- MODULE Philosopher -----------------------------
(***************************************************************************)
(* thread-synchronization/philosopher.c: a mutex, a condition variable and *)
(* a table avail[] of free forks.  pc[id] is the next statement of         *)
(* philosopher id:                                                         *)
(*   "lock"    line 17            "test"    the `if' of lines 18-20        *)
(*   "wait"    in cond_wait       "take"    line 23                        *)
(*   "unlock"  line 24            "eat"     line 26, the second lock       *)
(*   "put"     line 27            "wake"    line 28, cond_broadcast        *)
(*   "unlock2" line 29                                                     *)
(* Line 23 stores true, as line 27 does, where taking a fork should store  *)
(* false.                                                                  *)
(***************************************************************************)
EXTENDS PthreadSync

CONSTANT N                      \* philosophers and forks; Threads is 1 .. N

VARIABLES avail, pc

vars == <<lk, waiting, spurious, avail, pc>>

lhs(id) == (N + id - 1) % N
rhs(id) == id % N

Init == /\ SyncInit
        /\ avail = [f \in 0 .. N - 1 |-> TRUE]
        /\ pc = [id \in Threads |-> "lock"]

Goto(id, from, to) == pc[id] = from /\ pc' = [pc EXCEPT ![id] = to]

SetForks(id, free) == avail' = [avail EXCEPT ![lhs(id)] = free, ![rhs(id)] = free]

Lock(id) == /\ \/ Goto(id, "lock", "test")
               \/ Goto(id, "eat", "put")
            /\ mutex_lock(id)
            /\ UNCHANGED <<waiting, spurious, avail>>

Test(id) == /\ IF ~(avail[lhs(id)] /\ avail[rhs(id)])
                 THEN Goto(id, "test", "wait") /\ cond_wait(id)
                 ELSE Goto(id, "test", "take") /\ UNCHANGED <<lk, waiting>>
            /\ UNCHANGED <<spurious, avail>>

Return(id) == /\ Goto(id, "wait", "take")
              /\ cond_wait_return(id)
              /\ UNCHANGED <<waiting, spurious, avail>>

Take(id) == /\ Goto(id, "take", "unlock")
            /\ SetForks(id, TRUE)
            /\ UNCHANGED <<lk, waiting, spurious>>

Put(id) == /\ Goto(id, "put", "wake")
           /\ SetForks(id, TRUE)
           /\ UNCHANGED <<lk, waiting, spurious>>

Wake(id) == /\ Goto(id, "wake", "unlock2")
            /\ cond_broadcast
            /\ UNCHANGED <<lk, spurious, avail>>

Unlock(id) == /\ \/ Goto(id, "unlock", "eat")
                 \/ Goto(id, "unlock2", "lock")
              /\ mutex_unlock
              /\ UNCHANGED <<waiting, spurious, avail>>

Tphilosopher(id) == \/ Lock(id) \/ Test(id) \/ Return(id) \/ Take(id)
                    \/ Put(id) \/ Wake(id) \/ Unlock(id)

Next == \E id \in Threads : Tphilosopher(id)

Spec == Init /\ [][Next]_vars /\ \A id \in Threads : WF_vars(Tphilosopher(id))

-----------------------------------------------------------------------------
\* Philosopher id has got both forks (the messages of lines 21-22) and has
\* not put them back.
HasForks(id) == pc[id] \in {"unlock", "eat", "put"}

\* The rule of the game in concurrency.md 178-179: whoever eats has both
\* forks, and a taken fork has to be waited for.  So neighbours never have
\* their forks at the same time.
NeighboursExclude == \A i, j \in Threads :
  i # j /\ {lhs(i), rhs(i)} \cap {lhs(j), rhs(j)} # {} => ~(HasForks(i) /\ HasForks(j))
=============================================================================
