---------------------------- MODULE PthreadSync ----------------------------
(***************************************************************************)
(* The condition variable of concurrency/thread-sync.h (lines 33-38)       *)
(* beside its mutex, as the programs that include it use them: one of      *)
(* each, shared by all threads.  What pthreads does is taken from POSIX:   *)
(*  - waiting gives up the mutex and blocks in one atomic step, and a      *)
(*    woken thread must get the mutex again before the call returns;       *)
(*  - a broadcast wakes every blocked thread, a signal wakes one if there  *)
(*    is one, and both are forgotten when nobody is blocked;               *)
(*  - a blocked thread may wake up although nobody signalled it.           *)
(***************************************************************************)
EXTENDS Integers, FiniteSets, Mutex

CONSTANT MaxSpurious            \* bound on wakeups without a signal in one run

ASSUME SyncAssumption == MaxSpurious \in Nat

VARIABLES waiting,              \* cond_t: the threads blocked on it
          spurious              \* wakeups without a signal so far

SyncTypeOK == /\ lk \in Threads \cup {NoThread}
              /\ waiting \subseteq Threads
              /\ spurious \in 0 .. MaxSpurious

SyncInit == MutexInit /\ waiting = {} /\ spurious = 0

\* The first half of pthread_cond_wait: release the mutex and block.
cond_wait(t) == mutex_unlock /\ waiting' = waiting \cup {t}

\* The second half: once woken, compete for the mutex and return.
cond_wait_return(t) == t \notin waiting /\ mutex_lock(t)

cond_broadcast == waiting' = {}

cond_signal == waiting' \in IF waiting = {} THEN {{}}
                            ELSE {waiting \ {t} : t \in waiting}

\* A wakeup that no signal caused.
SpuriousWakeup(t) == /\ spurious < MaxSpurious
                     /\ t \in waiting
                     /\ waiting' = waiting \ {t}
                     /\ spurious' = spurious + 1
                     /\ UNCHANGED lk
=============================================================================
