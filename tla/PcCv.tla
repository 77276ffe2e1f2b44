-------------------------------- MODULE PcCv --------------------------------
(***************************************************************************)
(* thread-synchronization/pc-cv.c: producers print "(" and consumers print *)
(* ")", with one mutex, one condition variable for both sides, a `while'   *)
(* around the wait and a broadcast after every change of `count'.          *)
(*                                                                         *)
(* pc[t] is the next statement of thread t:                                *)
(*   "lock"   mutex_lock            "test"   the condition of the `while'  *)
(*   "wait"   inside cond_wait      "print"  printf                        *)
(*   "count"  count++ or count--    "wake"   cond_broadcast                *)
(*   "unlock" mutex_unlock                                                 *)
(* main() has no step: a thread that is not created yet looks exactly like *)
(* one that has not taken its first step.                                  *)
(***************************************************************************)
EXTENDS PthreadSync

CONSTANTS Producers, Consumers, \* the threads that run Tproduce and Tconsume
          n                     \* atoi(argv[1])

ASSUME PcAssumption == /\ Threads = Producers \cup Consumers
                       /\ Producers \cap Consumers = {}
                       /\ n \in Nat

VARIABLES pc, count,
          depth                 \* nesting of the text printed so far

vars == <<lk, waiting, spurious, pc, count, depth>>

Init == /\ SyncInit
        /\ pc = [t \in Threads |-> "lock"]
        /\ count = 0
        /\ depth = 0

Goto(t, label) == pc' = [pc EXCEPT ![t] = label]

\* The condition under which t goes (back) to sleep.
Blocked(t) == \/ t \in Producers /\ ~(count # n)
              \/ t \in Consumers /\ count = 0

Lock(t) == /\ pc[t] = "lock"
           /\ mutex_lock(t)
           /\ Goto(t, "test")
           /\ UNCHANGED <<waiting, spurious, count, depth>>

\* One evaluation of the while condition.
Test(t) == /\ pc[t] = "test"
           /\ IF Blocked(t)
                THEN cond_wait(t) /\ Goto(t, "wait")
                ELSE UNCHANGED <<lk, waiting>> /\ Goto(t, "print")
           /\ UNCHANGED <<spurious, count, depth>>

\* Bug: `if' for `while', as in the commented-out lines 11 and 26.
Bug_Return(t) == /\ pc[t] = "wait"
                 /\ cond_wait_return(t)
                 /\ Goto(t, "print")
                 /\ UNCHANGED <<waiting, spurious, count, depth>>

\* cond_wait returns with the mutex held, and the condition is tested again.
Return(t) == /\ pc[t] = "wait"
             /\ cond_wait_return(t)
             /\ Goto(t, "test")
             /\ UNCHANGED <<waiting, spurious, count, depth>>

Printf(t) == /\ pc[t] = "print"
             /\ depth' = IF t \in Producers THEN depth + 1 ELSE depth - 1
             /\ Goto(t, "count")
             /\ UNCHANGED <<lk, waiting, spurious, count>>

Count(t) == /\ pc[t] = "count"
            /\ count' = IF t \in Producers THEN count + 1 ELSE count - 1
            /\ Goto(t, "wake")
            /\ UNCHANGED <<lk, waiting, spurious, depth>>

\* Bug: cond_signal for cond_broadcast, as in the commented-out lines 17 and 31.
Bug_Wake(t) == /\ pc[t] = "wake"
               /\ cond_signal
               /\ Goto(t, "unlock")
               /\ UNCHANGED <<lk, spurious, count, depth>>

Wake(t) == /\ pc[t] = "wake"
           /\ cond_broadcast
           /\ Goto(t, "unlock")
           /\ UNCHANGED <<lk, spurious, count, depth>>

Unlock(t) == /\ pc[t] = "unlock"
             /\ mutex_unlock
             /\ Goto(t, "lock")
             /\ UNCHANGED <<waiting, spurious, count, depth>>

\* The loop body that Tproduce and Tconsume share.
Step(t) == \/ Lock(t) \/ Test(t) \/ Return(t) \/ Printf(t)
           \/ Count(t) \/ Wake(t) \/ Unlock(t)

Tproduce(p) == p \in Producers /\ Step(p)

Tconsume(c) == c \in Consumers /\ Step(c)

Wakeup(t) == SpuriousWakeup(t) /\ UNCHANGED <<pc, count, depth>>

Next == \/ \E p \in Producers : Tproduce(p)
        \/ \E c \in Consumers : Tconsume(c)
        \/ \E t \in Threads : Wakeup(t)

\* The kernel runs every thread that can run.  It promises nothing about who
\* gets a contended mutex, so the fairness is weak.
Fairness == \A t \in Threads : WF_vars(Step(t))

Spec == Init /\ [][Next]_vars /\ Fairness

-----------------------------------------------------------------------------
Labels == {"lock", "test", "wait", "print", "count", "wake", "unlock"}

\* Every variable has the values the code gives it.  In particular no
\* interleaving makes the C counter negative or larger than the buffer, and
\* the assertion of pc-check.py line 9 holds after every printed character.
TypeOK == /\ SyncTypeOK
          /\ pc \in [Threads -> Labels]
          /\ count \in 0 .. n
          /\ depth \in 0 .. n

\* Exactly the holder of the mutex is between a successful lock (or a return
\* from cond_wait) and the unlock (or the next cond_wait), and only threads
\* inside cond_wait are blocked on the condition variable.
MutexHeld == /\ \A t \in Threads : pc[t] \notin {"lock", "wait"} <=> lk = t
             /\ \A t \in waiting : pc[t] = "wait"

\* A thread that left the while loop still finds its condition true when it
\* prints and counts (the assert of line 15; Tconsume has no assert).
AssertHolds == \A t \in Threads : pc[t] \in {"print", "count"} => ~Blocked(t)

\* The text runs ahead of `count' exactly between printf and count++/count--.
TextMatchesCount ==
  /\ \A t \in Threads : pc[t] = "count" =>
       depth = IF t \in Producers THEN count + 1 ELSE count - 1
  /\ (\A t \in Threads : pc[t] # "count") => depth = count

\* No lost wakeup: a thread is blocked on the condition variable only while
\* its condition is false, except for the moment in which the thread that
\* made it true has not yet reached cond_broadcast (lines 16-18, 30-32).
NoLostWakeup == \A t \in waiting :
                  Blocked(t) \/ \E s \in Threads : lk = s /\ pc[s] = "wake"

\* The inductive invariant: the conjunction the critical section of lines
\* 10-19 and 25-33 maintains at every one of its statements.
IInv == TypeOK /\ MutexHeld /\ AssertHolds /\ TextMatchesCount /\ NoLostWakeup

\* Producers and consumers never all sleep on the one condition variable they
\* share; if they did, nobody would be left to call cond_broadcast.  It takes
\* a buffer of at least one slot and a thread on each side.
SomebodyAwake == n > 0 /\ Producers # {} /\ Consumers # {} =>
                   \E t \in Threads : t \notin waiting

\* The output is always a prefix of a balanced string of depth at most n, and
\* it grows for ever (pc.c 1-9, monitored by pc-check.py).
ParenSpec == INSTANCE Parens
ImplementsParens == ParenSpec!Spec
=============================================================================
