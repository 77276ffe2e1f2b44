---------------------------- MODULE RustSpinLock ----------------------------
(***************************************************************************)
(* locks/src/spin_lock.rs: two threads take a spin lock, add 1 to a static *)
(* counter ROUNDS times and release the lock.  lock() is a SeqCst          *)
(* compare-exchange, but un_lock() is a Relaxed store, which does not      *)
(* order the plain writes to the counter before it.  `build' is what the   *)
(* build makes of that:                                                    *)
(*   "inorder" the writes reach memory before the store that releases the  *)
(*             lock (an x86 build that keeps the program order);           *)
(*   "sunk"    any number of the writes may come after it (the compiler    *)
(*             may sink them, a weakly ordered machine may delay them).    *)
(* The next thread's loads and stores then race with them.  A thread sees  *)
(* its own writes in order, so that a delayed write is one that the thread *)
(* makes after it has released the lock.                                   *)
(*   pc[t]: "lock", "load", "store", "unlock", "lateload" and "latestore"  *)
(*          (the loop goes on and the lock is free), "done"                *)
(***************************************************************************)
EXTENDS Integers

CONSTANT ROUNDS                 \* 1000 in the program; at least one

Threads == {1, 2}

VARIABLES build, lock, counter, pc, i, reg,
          joined                \* the threads main has joined

vars == <<build, lock, counter, pc, i, reg, joined>>

Init == /\ build \in {"inorder", "sunk"}
        /\ lock = 0 /\ counter = 0 /\ joined = {}
        /\ pc = [t \in Threads |-> "lock"]
        /\ i = [t \in Threads |-> 0]
        /\ reg = [t \in Threads |-> 0]

Goto(t, from, to) == pc[t] = from /\ pc' = [pc EXCEPT ![t] = to]

\* Bug: a load and a store in place of the compare-exchange.
Bug_Lock(t) == /\ Goto(t, "lock", "load")
               /\ lock' = 1
               /\ UNCHANGED <<build, counter, i, reg, joined>>

\* The compare_exchange that succeeds; one that fails changes nothing.
Lock(t) == /\ Goto(t, "lock", "load")
           /\ lock = 0 /\ lock' = 1
           /\ UNCHANGED <<build, counter, i, reg, joined>>

Load(t) == /\ Goto(t, "load", "store") \/ Goto(t, "lateload", "latestore")
           /\ reg' = [reg EXCEPT ![t] = counter]
           /\ UNCHANGED <<build, lock, counter, i, joined>>

\* counter += 1, and the next round of the loop or what follows it.
Store(t) == /\ \/ Goto(t, "store", IF i[t] + 1 < ROUNDS THEN "load" ELSE "unlock")
               \/ Goto(t, "latestore", IF i[t] + 1 < ROUNDS THEN "lateload" ELSE "done")
            /\ counter' = reg[t] + 1
            /\ i' = [i EXCEPT ![t] = @ + 1]
            /\ UNCHANGED <<build, lock, reg, joined>>

\* Bug: the lock is not released.
Bug_UnLock(t) == /\ Goto(t, "unlock", "done")
                 /\ UNCHANGED <<build, lock, counter, i, reg, joined>>

UnLock(t) == /\ Goto(t, "unlock", "done")
             /\ lock' = 0
             /\ UNCHANGED <<build, counter, i, reg, joined>>

\* The Relaxed store overtakes the writes that are still to come.  They come
\* at the latest with the end of the thread, which join() synchronises with.
UnLockEarly(t) == /\ build = "sunk"
                  /\ Goto(t, "load", "lateload") \/ Goto(t, "store", "latestore")
                  /\ lock' = 0
                  /\ UNCHANGED <<build, counter, i, reg, joined>>

Run(t) == Lock(t) \/ Load(t) \/ Store(t) \/ UnLock(t) \/ UnLockEarly(t)

\* t1.join(), then t2.join().
Join(t) == /\ t = 1 \/ 1 \in joined
           /\ t \notin joined
           /\ pc[t] = "done"
           /\ joined' = joined \cup {t}
           /\ UNCHANGED <<build, lock, counter, pc, i, reg>>

Next == \E t \in Threads : Run(t) \/ Join(t)

\* All threads are run when they can run.
Spec == Init /\ [][Next]_vars /\ \A t \in Threads : WF_vars(Run(t)) /\ WF_vars(Join(t))

-----------------------------------------------------------------------------
\* What main prints: no addition is lost if the release keeps the order of
\* the writes.  If it does not, the lock protects nothing: all but two of the
\* additions can be lost (all but one if ROUNDS = 1), and never more.
PrintedCounter ==
  joined = Threads => /\ build = "inorder" => counter = 2 * ROUNDS
                      /\ counter \in (IF ROUNDS >= 2 THEN 2 ELSE 1) .. 2 * ROUNDS
-----------------------------------------------------------------------------
\* Why PrintedCounter holds.
TypeOK == /\ build \in {"inorder", "sunk"} /\ lock \in {0, 1} /\ counter \in Nat
          /\ pc \in [Threads -> {"lock", "load", "store", "unlock",
                                 "lateload", "latestore", "done"}]
          /\ i \in [Threads -> 0 .. ROUNDS] /\ reg \in [Threads -> Nat]
          /\ joined \subseteq Threads

\* One thread at most is between lock() and un_lock(), with the lock taken.
InCritical(t) == pc[t] \in {"load", "store", "unlock"}
Exclusion == /\ \A t \in Threads : InCritical(t) => lock = 1
             /\ \A t, u \in Threads : InCritical(t) /\ InCritical(u) => t = u

Holds(t) == pc[t] \in {"store", "latestore"}  \* t has a value to write
Late(t) == pc[t] \in {"lateload", "latestore"}

\* The rounds of each thread; only a finished thread is joined.
Rounds == \A t \in Threads :
            /\ pc[t] = "lock" => i[t] = 0
            /\ pc[t] \in {"load", "store"} \/ Late(t) => i[t] < ROUNDS
            /\ Late(t) => build = "sunk"
            /\ pc[t] \in {"unlock", "done"} => i[t] = ROUNDS
            /\ t \in joined => pc[t] = "done"

\* In order the counter counts every round, and what a thread has read is
\* current.
InOrder == build = "inorder" =>
             /\ counter = i[1] + i[2]
             /\ \A t \in Threads : pc[t] = "store" => reg[t] = counter

\* No value is larger than the number of writes so far.
AtMost == /\ counter <= i[1] + i[2]
          /\ \A t \in Threads : Holds(t) => reg[t] <= i[1] + i[2]

\* After the first write there is no 0 to be read; and a thread's second and
\* later writes are at least 2, so that a smaller counter is some thread's
\* first write.
AtLeast == /\ \A t \in Threads : i[t] >= 1 => counter >= 1
           /\ \A t \in Threads : Holds(t) /\ i[t] >= 1 => reg[t] >= 1
           /\ (\A t \in Threads : i[t] >= 2) => counter >= 2

IInv == TypeOK /\ Exclusion /\ Rounds /\ InOrder /\ AtMost /\ AtLeast
=============================================================================
