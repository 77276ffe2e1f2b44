----------------------------- MODULE PcCvProofs -----------------------------
(***************************************************************************)
(* Proofs about pc-cv.c for any number of producers and consumers, any     *)
(* buffer size n and any number of spurious wakeups.                       *)
(***************************************************************************)
EXTENDS PcCv, TLAPS

\* The inductive invariant holds initially.
LEMMA InitIInv == Init => IInv
BY MutexAssumption, SyncAssumption, PcAssumption
   DEF Init, SyncInit, MutexInit, IInv, TypeOK, SyncTypeOK, Labels, MutexHeld, AssertHolds,
       TextMatchesCount, NoLostWakeup

\* Mutual exclusion, from the invariant: while s is between lock and unlock,
\* every other thread is outside.
LEMMA Exclusion ==
  ASSUME IInv, NEW s \in Threads, pc[s] \notin {"lock", "wait"}
  PROVE  /\ lk = s
         /\ s \notin waiting
         /\ \A t \in Threads : t # s => pc[t] \in {"lock", "wait"}
BY MutexAssumption DEF IInv, MutexHeld, TypeOK, Labels

\* Taking the mutex, in mutex_lock or in the return from cond_wait.
LEMMA LockIInv ==
  ASSUME IInv, NEW t \in Threads, Lock(t) \/ Return(t)
  PROVE  IInv'
<1>1. /\ lk = NoThread /\ lk' = t /\ pc[t] \in {"lock", "wait"} /\ t \notin waiting
      /\ pc' = [pc EXCEPT ![t] = "test"]
      /\ UNCHANGED <<waiting, spurious, count, depth>>
  BY DEF Lock, Return, mutex_lock, cond_wait_return, Goto, IInv, MutexHeld
<1>2. \A s \in Threads : pc[s] \in {"lock", "wait"}
  BY MutexAssumption, <1>1 DEF IInv, MutexHeld
<1>3. TypeOK' /\ MutexHeld'
  BY MutexAssumption, <1>1, <1>2 DEF IInv, TypeOK, SyncTypeOK, Labels, MutexHeld
<1>4. AssertHolds' /\ TextMatchesCount'
  BY <1>1, <1>2 DEF IInv, TypeOK, AssertHolds, TextMatchesCount, Blocked
<1>5. NoLostWakeup'
  BY MutexAssumption, <1>1, <1>2 DEF IInv, NoLostWakeup, Blocked
<1> QED BY <1>3, <1>4, <1>5 DEF IInv

\* The while condition: sleep, or go on to printf.
LEMMA TestIInv ==
  ASSUME IInv, NEW t \in Threads, Test(t)
  PROVE  IInv'
<1>1. /\ pc[t] = "test" /\ lk = t /\ t \notin waiting
      /\ \A s \in Threads : s # t => pc[s] \in {"lock", "wait"}
  BY Exclusion DEF Test
<1>2. CASE Blocked(t)
  <2>1. /\ lk' = NoThread /\ waiting' = waiting \cup {t}
        /\ pc' = [pc EXCEPT ![t] = "wait"]
        /\ UNCHANGED <<spurious, count, depth>>
    BY <1>2 DEF Test, cond_wait, mutex_unlock, Goto
  <2>2. TypeOK' /\ MutexHeld'
    BY MutexAssumption, <1>1, <2>1 DEF IInv, TypeOK, SyncTypeOK, Labels, MutexHeld
  <2>3. AssertHolds' /\ TextMatchesCount'
    BY <1>1, <2>1 DEF IInv, TypeOK, AssertHolds, TextMatchesCount, Blocked
  <2>4. NoLostWakeup'
    BY <1>1, <1>2, <2>1 DEF IInv, NoLostWakeup, Blocked
  <2> QED BY <2>2, <2>3, <2>4 DEF IInv
<1>3. CASE ~Blocked(t)
  <2>1. /\ pc' = [pc EXCEPT ![t] = "print"]
        /\ UNCHANGED <<lk, waiting, spurious, count, depth>>
    BY <1>3 DEF Test, Goto
  <2>2. TypeOK' /\ MutexHeld'
    BY MutexAssumption, <1>1, <2>1 DEF IInv, TypeOK, SyncTypeOK, Labels, MutexHeld
  <2>3. AssertHolds' /\ TextMatchesCount'
    BY <1>1, <1>3, <2>1 DEF IInv, TypeOK, AssertHolds, TextMatchesCount, Blocked
  <2>4. NoLostWakeup'
    BY <1>1, <2>1 DEF IInv, TypeOK, NoLostWakeup, Blocked
  <2> QED BY <2>2, <2>3, <2>4 DEF IInv
<1> QED BY <1>2, <1>3

\* printf: only the tested condition keeps the nesting within 0 .. n.
LEMMA PrintfIInv ==
  ASSUME IInv, NEW t \in Threads, Printf(t)
  PROVE  IInv'
<1>1. /\ pc[t] = "print" /\ lk = t /\ t \notin waiting
      /\ \A s \in Threads : s # t => pc[s] \in {"lock", "wait"}
      /\ depth' = (IF t \in Producers THEN depth + 1 ELSE depth - 1)
      /\ pc' = [pc EXCEPT ![t] = "count"]
      /\ UNCHANGED <<lk, waiting, spurious, count>>
  BY Exclusion DEF Printf, Goto
<1>2. depth = count /\ ~Blocked(t)
  BY <1>1 DEF IInv, TextMatchesCount, AssertHolds
<1>3. depth' \in 0 .. n
  BY PcAssumption, <1>1, <1>2 DEF IInv, TypeOK, Blocked
<1>4. TypeOK' /\ MutexHeld'
  BY MutexAssumption, <1>1, <1>3 DEF IInv, TypeOK, SyncTypeOK, Labels, MutexHeld
<1>5. AssertHolds'
  BY <1>1, <1>2 DEF IInv, TypeOK, AssertHolds, Blocked
<1>6. TextMatchesCount'
  BY <1>1, <1>2 DEF IInv, TypeOK, TextMatchesCount
<1>7. NoLostWakeup'
  BY <1>1 DEF IInv, TypeOK, NoLostWakeup, Blocked
<1> QED BY <1>4, <1>5, <1>6, <1>7 DEF IInv

\* count++ or count--: from here on sleepers may be owed a wakeup.
LEMMA CountIInv ==
  ASSUME IInv, NEW t \in Threads, Count(t)
  PROVE  IInv'
<1>1. /\ pc[t] = "count" /\ lk = t /\ t \notin waiting
      /\ \A s \in Threads : s # t => pc[s] \in {"lock", "wait"}
      /\ count' = (IF t \in Producers THEN count + 1 ELSE count - 1)
      /\ pc' = [pc EXCEPT ![t] = "wake"]
      /\ UNCHANGED <<lk, waiting, spurious, depth>>
  BY Exclusion DEF Count, Goto
<1>2. count' = depth
  BY <1>1 DEF IInv, TextMatchesCount
<1>3. TypeOK' /\ MutexHeld'
  BY MutexAssumption, <1>1, <1>2 DEF IInv, TypeOK, SyncTypeOK, Labels, MutexHeld
<1>4. AssertHolds' /\ TextMatchesCount'
  BY <1>1, <1>2 DEF IInv, TypeOK, AssertHolds, TextMatchesCount
<1>5. NoLostWakeup'
  BY <1>1 DEF IInv, TypeOK, NoLostWakeup
<1> QED BY <1>3, <1>4, <1>5 DEF IInv

\* cond_broadcast pays every wakeup that is owed.
LEMMA WakeIInv ==
  ASSUME IInv, NEW t \in Threads, Wake(t)
  PROVE  IInv'
<1>1. /\ pc[t] = "wake" /\ lk = t
      /\ \A s \in Threads : s # t => pc[s] \in {"lock", "wait"}
      /\ waiting' = {} /\ pc' = [pc EXCEPT ![t] = "unlock"]
      /\ UNCHANGED <<lk, spurious, count, depth>>
  BY Exclusion DEF Wake, cond_broadcast, Goto
<1>2. TypeOK' /\ MutexHeld'
  BY MutexAssumption, <1>1 DEF IInv, TypeOK, SyncTypeOK, Labels, MutexHeld
<1>3. AssertHolds' /\ TextMatchesCount'
  BY <1>1 DEF IInv, TypeOK, AssertHolds, TextMatchesCount
<1>4. NoLostWakeup'
  BY <1>1 DEF NoLostWakeup
<1> QED BY <1>2, <1>3, <1>4 DEF IInv

\* mutex_unlock.
LEMMA UnlockIInv ==
  ASSUME IInv, NEW t \in Threads, Unlock(t)
  PROVE  IInv'
<1>1. /\ pc[t] = "unlock" /\ lk = t /\ t \notin waiting
      /\ \A s \in Threads : s # t => pc[s] \in {"lock", "wait"}
      /\ lk' = NoThread /\ pc' = [pc EXCEPT ![t] = "lock"]
      /\ UNCHANGED <<waiting, spurious, count, depth>>
  BY Exclusion DEF Unlock, mutex_unlock, Goto
<1>2. TypeOK' /\ MutexHeld'
  BY MutexAssumption, <1>1 DEF IInv, TypeOK, SyncTypeOK, Labels, MutexHeld
<1>3. AssertHolds' /\ TextMatchesCount'
  BY <1>1 DEF IInv, TypeOK, AssertHolds, TextMatchesCount
<1>4. NoLostWakeup'
  BY <1>1 DEF IInv, NoLostWakeup, Blocked
<1> QED BY <1>2, <1>3, <1>4 DEF IInv

\* A spurious wakeup only takes a thread out of the waiting set.
LEMMA WakeupIInv ==
  ASSUME IInv, NEW t \in Threads, Wakeup(t)
  PROVE  IInv'
<1>1. /\ spurious < MaxSpurious /\ spurious' = spurious + 1
      /\ waiting' = waiting \ {t} /\ UNCHANGED <<lk, pc, count, depth>>
  BY DEF Wakeup, SpuriousWakeup
<1>2. TypeOK' /\ MutexHeld'
  BY MutexAssumption, SyncAssumption, <1>1 DEF IInv, TypeOK, SyncTypeOK, MutexHeld
<1>3. AssertHolds' /\ TextMatchesCount' /\ NoLostWakeup'
  BY <1>1 DEF IInv, AssertHolds, TextMatchesCount, NoLostWakeup, Blocked
<1> QED BY <1>2, <1>3 DEF IInv

\* Every step keeps the inductive invariant.
LEMMA NextIInv == IInv /\ [Next]_vars => IInv'
<1> SUFFICES ASSUME IInv, [Next]_vars PROVE IInv'
  OBVIOUS
<1>1. ASSUME NEW t \in Threads, Step(t) PROVE IInv'
  BY <1>1, LockIInv, TestIInv, PrintfIInv, CountIInv, WakeIInv, UnlockIInv DEF Step
<1>2. ASSUME NEW t \in Threads, Wakeup(t) PROVE IInv'
  BY <1>2, WakeupIInv
<1>3. CASE UNCHANGED vars
  BY <1>3 DEF vars, IInv, TypeOK, SyncTypeOK, MutexHeld, AssertHolds,
              TextMatchesCount, NoLostWakeup, Blocked
<1> QED BY <1>1, <1>2, <1>3, PcAssumption DEF Next, Tproduce, Tconsume

\* The inductive invariant holds in every reachable state of pc-cv.c.
THEOREM Invariance == Spec => []IInv
BY InitIInv, NextIInv, PTL DEF Spec

\* The C counter and the printed nesting stay within 0 .. n: pc-check.py's
\* assertion never fails on the output of pc-cv.c.
THEOREM TypeCorrect == Spec => []TypeOK
BY Invariance, PTL DEF IInv

\* pc-cv.c loses no wakeup.
THEOREM NoWakeupIsLost == Spec => []NoLostWakeup
BY Invariance, PTL DEF IInv

\* The threads of pc-cv.c never all sleep on the condition variable.
THEOREM AlwaysSomebodyAwake == Spec => []SomebodyAwake
<1>1. IInv => SomebodyAwake
  <2> SUFFICES ASSUME IInv, n > 0, NEW p \in Producers, NEW c \in Consumers,
                      \A t \in Threads : t \in waiting
               PROVE  FALSE
    BY DEF SomebodyAwake
  <2>1. p \in Threads /\ c \in Threads /\ p \notin Consumers /\ c \notin Producers
    BY PcAssumption
  <2>2. \A s \in Threads : pc[s] = "wait"
    BY DEF IInv, MutexHeld
  <2>3. Blocked(p) /\ Blocked(c)
    BY <2>1, <2>2 DEF IInv, NoLostWakeup
  <2> QED BY <2>1, <2>3, PcAssumption DEF Blocked
<1> QED BY <1>1, Invariance, PTL

\* Every step of pc-cv.c prints one character that Parens allows, or nothing:
\* the safety half of ImplementsParens.
THEOREM OutputIsBalanced == Spec => ParenSpec!Init /\ [][ParenSpec!Next]_depth
<1>1. Init => ParenSpec!Init
  BY DEF Init, ParenSpec!Init
<1>2. ASSUME IInv, [Next]_vars PROVE [ParenSpec!Next]_depth
  <2>1. ASSUME NEW t \in Threads, Printf(t) PROVE ParenSpec!Next
    <3>1. IInv'
      BY <1>2, NextIInv
    <3>2. /\ depth \in 0 .. n /\ depth' \in 0 .. n
          /\ depth' = (IF t \in Producers THEN depth + 1 ELSE depth - 1)
      BY <1>2, <2>1, <3>1 DEF Printf, IInv, TypeOK
    <3> QED BY <3>2, PcAssumption DEF ParenSpec!Next, ParenSpec!Open, ParenSpec!Close
  <2>2. ASSUME NEW t \in Threads, Step(t), ~Printf(t) PROVE UNCHANGED depth
    BY <2>2 DEF Step, Lock, Test, Return, Count, Wake, Unlock
  <2>3. ASSUME NEW t \in Threads, Wakeup(t) PROVE UNCHANGED depth
    BY <2>3 DEF Wakeup
  <2>4. CASE UNCHANGED vars
    BY <2>4 DEF vars
  <2> QED BY <1>2, <2>1, <2>2, <2>3, <2>4, PcAssumption DEF Next, Tproduce, Tconsume
<1> QED BY <1>1, <1>2, Invariance, PTL DEF Spec
=============================================================================
