------------------------ MODULE ThreadProgramsProofs ------------------------
(***************************************************************************)
(* Proofs about the programs of ThreadPrograms, for every value of the     *)
(* constants.  Each program has lemmas that its inductive invariant holds  *)
(* at the start and is kept by its steps; the theorems at the end put them *)
(* together: a step of the suite is a step of the program that was started.*)
(***************************************************************************)
EXTENDS ThreadPrograms, FiniteSetTheorems, SequenceTheorems, TLAPS

-----------------------------------------------------------------------------
\* sum.cpp.

LEMMA RaceInit == Race!Init => Race!IInv
<1> SUFFICES ASSUME Race!Init PROVE Race!IInv
  OBVIOUS
<1>1. Race!TypeOK /\ Race!Loops
  BY CountersAssumption DEF Race!Init, Race!TypeOK, Race!Loops, Race!Threads
<1>2. Race!AtMost /\ Race!AtLeast
  BY DEF Race!Init, Race!AtMost, Race!AtLeast, Race!Stores, Race!Threads
<1> QED BY <1>1, <1>2 DEF Race!IInv

\* main neither stores nor counts.
LEMMA RaceMain ==
  ASSUME Race!IInv, Race!Main
  PROVE  Race!IInv'
<1>1. /\ Race!TypeOK /\ Race!Loops /\ Race!AtMost /\ Race!AtLeast
      /\ UNCHANGED <<sum, i, reg>>
  BY DEF Race!IInv, Race!Main, Race!Spawn, Race!Join, Race!Output
<1>2. CASE Race!Spawn
  <2>1. /\ main.thread \in Race!Threads /\ main.next = "spawn"
        /\ pc' = [pc EXCEPT ![main.thread] = "test"]
        /\ main' = IF main.thread = 1 THEN [next |-> "spawn", thread |-> 2]
                                      ELSE [next |-> "join", thread |-> 1]
    BY <1>1, <1>2 DEF Race!Spawn, Race!TypeOK, Race!Threads
  <2>2. pc[main.thread] = "new"
    BY <1>1, <2>1 DEF Race!Loops, Race!Threads
  <2>3. Race!TypeOK'
    BY <1>1, <2>1 DEF Race!TypeOK, Race!Threads
  <2>4. Race!Loops'
    BY <1>1, <2>1, <2>2 DEF Race!TypeOK, Race!Loops, Race!Threads
  <2>5. \A t \in Race!Threads : Race!Stores(t)' = Race!Stores(t)
    BY <1>1, <2>1, <2>2 DEF Race!TypeOK, Race!Stores
  <2>6. Race!AtMost' /\ Race!AtLeast'
    BY <1>1, <2>1, <2>5 DEF Race!TypeOK, Race!AtMost, Race!AtLeast, Race!Threads
  <2> QED BY <2>3, <2>4, <2>6 DEF Race!IInv
<1>3. CASE Race!Join \/ Race!Output
  <2>1. UNCHANGED pc
    BY <1>3 DEF Race!Join, Race!Output
  <2>2. Race!TypeOK' /\ Race!Loops'
    BY <1>1, <1>3, <2>1 DEF Race!Join, Race!Output, Race!TypeOK, Race!Loops, Race!Threads
  <2>3. Race!AtMost' /\ Race!AtLeast'
    BY <1>1, <2>1 DEF Race!AtMost, Race!AtLeast, Race!Stores
  <2> QED BY <2>2, <2>3 DEF Race!IInv
<1> QED BY <1>2, <1>3 DEF Race!Main

\* The steps of a thread.
LEMMA RaceThread ==
  ASSUME Race!IInv, NEW t \in Race!Threads, Race!tSum(t)
  PROVE  Race!IInv'
<1> USE CountersAssumption DEF Race!Threads
<1>1. /\ Race!TypeOK /\ Race!Loops /\ Race!AtMost /\ Race!AtLeast
      /\ UNCHANGED main
  BY DEF Race!IInv, Race!tSum
<1>2. CASE Race!Test(t)
  <2>1. Race!TypeOK' /\ Race!Loops'
    BY <1>1, <1>2 DEF Race!Test, Race!Goto, Race!TypeOK, Race!Loops
  <2>2. \A u \in Race!Threads : Race!Stores(u)' = Race!Stores(u)
    BY <1>1, <1>2 DEF Race!Test, Race!Goto, Race!TypeOK, Race!Stores
  <2>3. Race!AtMost' /\ Race!AtLeast'
    BY <1>1, <1>2, <2>2 DEF Race!Test, Race!Goto, Race!TypeOK, Race!AtMost, Race!AtLeast
  <2> QED BY <2>1, <2>3 DEF Race!IInv
<1>3. CASE Race!Load(t)
  <2>1. Race!TypeOK' /\ Race!Loops'
    BY <1>1, <1>3 DEF Race!Load, Race!Goto, Race!TypeOK, Race!Loops
  <2>2. \A u \in Race!Threads : Race!Stores(u)' = Race!Stores(u)
    BY <1>1, <1>3 DEF Race!Load, Race!Goto, Race!TypeOK, Race!Stores
  <2>3. Race!AtMost' /\ Race!AtLeast'
    BY <1>1, <1>3, <2>2 DEF Race!Load, Race!Goto, Race!TypeOK, Race!AtMost, Race!AtLeast, Race!Stores
  <2> QED BY <2>1, <2>3 DEF Race!IInv
<1>4. CASE Race!Store(t)
  <2>1. Race!TypeOK' /\ Race!Loops'
    BY <1>1, <1>4 DEF Race!Store, Race!Goto, Race!TypeOK, Race!Loops
  <2>2. \A u \in Race!Threads :
           Race!Stores(u)' = IF u = t THEN i[t] + 1 ELSE Race!Stores(u)
    BY <1>1, <1>4 DEF Race!Store, Race!Goto, Race!TypeOK, Race!Stores
  <2>3. /\ Race!Stores(t) = i[t]
        /\ \A u \in Race!Threads : Race!Stores(u) \in Nat
    BY <1>1, <1>4 DEF Race!Store, Race!Goto, Race!Stores, Race!TypeOK
  <2>4. Race!AtMost' /\ Race!AtLeast'
    BY <1>1, <1>4, <2>2, <2>3 DEF Race!Store, Race!Goto, Race!TypeOK, Race!AtMost, Race!AtLeast
  <2> QED BY <2>1, <2>4 DEF Race!IInv
<1>5. CASE Race!Inc(t)
  <2>1. Race!TypeOK' /\ Race!Loops'
    BY <1>1, <1>5 DEF Race!Inc, Race!Goto, Race!TypeOK, Race!Loops
  <2>2. \A u \in Race!Threads : Race!Stores(u)' = Race!Stores(u)
    BY <1>1, <1>5 DEF Race!Inc, Race!Goto, Race!TypeOK, Race!Stores
  <2>3. Race!AtMost' /\ Race!AtLeast'
    BY <1>1, <1>5, <2>2 DEF Race!Inc, Race!Goto, Race!TypeOK, Race!AtMost, Race!AtLeast
  <2> QED BY <2>1, <2>3 DEF Race!IInv
<1> QED BY <1>2, <1>3, <1>4, <1>5 DEF Race!tSum

\* The inductive invariant of sum.cpp is kept and gives the bounds.
LEMMA RaceNext == Race!IInv /\ [Race!Next]_Race!vars => Race!IInv'
<1> SUFFICES ASSUME Race!IInv, [Race!Next]_Race!vars PROVE Race!IInv'
  OBVIOUS
<1>1. CASE UNCHANGED Race!vars
  BY <1>1 DEF Race!vars, Race!IInv, Race!TypeOK, Race!Loops, Race!AtMost, Race!AtLeast, Race!Stores
<1> QED BY <1>1, RaceMain, RaceThread DEF Race!Next

LEMMA RaceBounds == Race!IInv => Race!PrintedSum
BY CountersAssumption
   DEF Race!IInv, Race!TypeOK, Race!Loops, Race!AtMost, Race!AtLeast, Race!Stores,
       Race!PrintedSum, Race!Threads

-----------------------------------------------------------------------------
\* spin_lock.rs.

LEMMA SpinInit == Spin!Init => Spin!IInv
<1> SUFFICES ASSUME Spin!Init PROVE Spin!IInv
  OBVIOUS
<1> USE CountersAssumption DEF Spin!Init, Spin!Threads
<1>1. Spin!TypeOK /\ Spin!Exclusion /\ Spin!Rounds
  BY DEF Spin!TypeOK, Spin!Exclusion, Spin!InCritical, Spin!Rounds, Spin!Late
<1>2. Spin!InOrder /\ Spin!AtMost /\ Spin!AtLeast
  BY DEF Spin!InOrder, Spin!AtMost, Spin!AtLeast, Spin!Holds
<1> QED BY <1>1, <1>2 DEF Spin!IInv

\* The steps of a thread: the lock keeps the others out but for those that
\* have released it early, and a thread's second write is at least 2.
LEMMA SpinRun ==
  ASSUME Spin!IInv, NEW t \in Spin!Threads, Spin!Run(t)
  PROVE  Spin!IInv'
<1> USE CountersAssumption DEF Spin!Threads
<1>1. /\ Spin!TypeOK /\ Spin!Exclusion /\ Spin!Rounds
      /\ Spin!InOrder /\ Spin!AtMost /\ Spin!AtLeast
  BY DEF Spin!IInv
<1>2. CASE Spin!Lock(t)
  <2>1. Spin!TypeOK'
    BY <1>1, <1>2 DEF Spin!Lock, Spin!Goto, Spin!TypeOK, Spin!Rounds, Spin!Late
  <2>2. Spin!Exclusion'
    BY <1>1, <1>2 DEF Spin!Lock, Spin!Goto, Spin!TypeOK, Spin!Exclusion, Spin!InCritical
  <2>3. Spin!Rounds'
    BY <1>1, <1>2 DEF Spin!Lock, Spin!Goto, Spin!TypeOK, Spin!Rounds, Spin!Late
  <2>4. Spin!InOrder'
    BY <1>1, <1>2 DEF Spin!Lock, Spin!Goto, Spin!TypeOK, Spin!Exclusion, Spin!InCritical,
                   Spin!Rounds, Spin!Late, Spin!InOrder
  <2>5. Spin!AtMost'
    BY <1>1, <1>2 DEF Spin!Lock, Spin!Goto, Spin!TypeOK, Spin!AtMost, Spin!Holds
  <2>6. Spin!AtLeast'
    BY <1>1, <1>2 DEF Spin!Lock, Spin!Goto, Spin!TypeOK, Spin!Rounds, Spin!Late,
                   Spin!AtLeast, Spin!Holds
  <2> QED BY <2>1, <2>2, <2>3, <2>4, <2>5, <2>6 DEF Spin!IInv
<1>3. CASE Spin!Load(t)
  <2>1. Spin!TypeOK'
    BY <1>1, <1>3 DEF Spin!Load, Spin!Goto, Spin!TypeOK, Spin!Rounds, Spin!Late
  <2>2. Spin!Exclusion'
    BY <1>1, <1>3 DEF Spin!Load, Spin!Goto, Spin!TypeOK, Spin!Exclusion, Spin!InCritical
  <2>3. Spin!Rounds'
    BY <1>1, <1>3 DEF Spin!Load, Spin!Goto, Spin!TypeOK, Spin!Rounds, Spin!Late
  <2>4. Spin!InOrder'
    BY <1>1, <1>3 DEF Spin!Load, Spin!Goto, Spin!TypeOK, Spin!Exclusion, Spin!InCritical,
                   Spin!Rounds, Spin!Late, Spin!InOrder
  <2>5. Spin!AtMost'
    BY <1>1, <1>3 DEF Spin!Load, Spin!Goto, Spin!TypeOK, Spin!AtMost, Spin!Holds
  <2>6. Spin!AtLeast'
    BY <1>1, <1>3 DEF Spin!Load, Spin!Goto, Spin!TypeOK, Spin!Rounds, Spin!Late,
                   Spin!AtLeast, Spin!Holds
  <2> QED BY <2>1, <2>2, <2>3, <2>4, <2>5, <2>6 DEF Spin!IInv
<1>4. CASE Spin!Store(t)
  <2> DEFINE next == IF pc[t] = "store" THEN IF i[t] + 1 < ROUNDS THEN "load" ELSE "unlock"
                     ELSE IF i[t] + 1 < ROUNDS THEN "lateload" ELSE "done"
  <2>1. /\ Spin!Holds(t) /\ pc' = [pc EXCEPT ![t] = next]
        /\ counter' = reg[t] + 1 /\ i' = [i EXCEPT ![t] = @ + 1]
        /\ UNCHANGED <<build, lock, reg, joined>>
    BY <1>4 DEF Spin!Store, Spin!Goto, Spin!Holds
  <2>2. i[t] \in Nat /\ i[t] < ROUNDS /\ reg[t] \in Nat
    BY <1>1, <2>1 DEF Spin!Holds, Spin!TypeOK, Spin!Rounds, Spin!Late
  <2>3. /\ i'[t] = i[t] + 1 /\ pc'[t] = next
        /\ \A u \in {1, 2} : u # t => i'[u] = i[u] /\ pc'[u] = pc[u]
    BY <1>1, <2>1 DEF Spin!TypeOK
  <2>4. Spin!TypeOK'
    <3>1. next \in {"load", "unlock", "lateload", "done"}
      OBVIOUS
    <3>2. i[t] + 1 \in 0 .. ROUNDS
      BY <2>2
    <3> QED BY <1>1, <2>1, <2>2, <3>1, <3>2 DEF Spin!TypeOK
  <2>5. Spin!Exclusion'
    BY <1>1, <2>1, <2>3 DEF Spin!Exclusion, Spin!InCritical, Spin!Holds
  <2>6. Spin!Rounds'
    <3>1. ASSUME NEW u \in {1, 2}, u # t PROVE i'[u] = i[u] /\ pc'[u] = pc[u] /\ joined' = joined /\ build' = build
      BY <2>1, <2>3, <3>1
    <3>2. /\ pc'[t] \in {"load", "lateload"} => i'[t] < ROUNDS
          /\ pc'[t] \in {"unlock", "done"} => i'[t] = ROUNDS
          /\ pc'[t] \in {"load", "lateload", "unlock", "done"}
      BY <2>2, <2>3
    <3>3. /\ pc'[t] = "lateload" => build' = "sunk"
          /\ t \notin joined'
      BY <1>1, <2>1, <2>3 DEF Spin!Rounds, Spin!Late, Spin!Holds
    <3> QED BY <1>1, <3>1, <3>2, <3>3 DEF Spin!Rounds, Spin!Late
  <2>7. Spin!InOrder'
    <3> SUFFICES ASSUME build = "inorder" PROVE Spin!InOrder'
      BY <2>1 DEF Spin!InOrder
    <3>1. pc[t] = "store" /\ reg[t] = counter /\ counter = i[1] + i[2]
      BY <1>1, <2>1 DEF Spin!Rounds, Spin!Late, Spin!Holds, Spin!InOrder
    <3>2. \A u \in {1, 2} : pc'[u] # "store"
      BY <1>1, <2>3, <3>1 DEF Spin!Exclusion, Spin!InCritical
    <3>3. counter' = i'[1] + i'[2]
      BY <1>1, <2>1, <2>2, <2>3, <3>1 DEF Spin!TypeOK
    <3> QED BY <3>2, <3>3 DEF Spin!InOrder
  <2>8. Spin!AtMost' /\ Spin!AtLeast'
    <3>1. /\ i'[1] \in Nat /\ i'[2] \in Nat /\ i[1] \in Nat /\ i[2] \in Nat
          /\ i'[1] + i'[2] = i[1] + i[2] + 1
      BY <1>1, <2>1, <2>2, <2>3 DEF Spin!TypeOK
    <3>2. reg[t] <= i[1] + i[2] /\ (i[t] >= 1 => reg[t] >= 1)
      BY <1>1, <2>1 DEF Spin!AtMost, Spin!AtLeast
    <3>3. \A u \in {1, 2} : Spin!Holds(u)' => u # t /\ Spin!Holds(u) /\ reg'[u] = reg[u]
      BY <2>1, <2>3 DEF Spin!Holds
    <3>4. \A u \in {1, 2} : reg[u] \in Nat
      BY <1>1 DEF Spin!TypeOK
    <3>5. Spin!AtMost'
      BY <1>1, <2>1, <2>2, <3>1, <3>2, <3>3, <3>4 DEF Spin!AtMost
    <3>6. Spin!AtLeast'
      BY <1>1, <2>1, <2>2, <2>3, <3>1, <3>2, <3>3 DEF Spin!AtLeast
    <3> QED BY <3>5, <3>6
  <2> QED BY <2>4, <2>5, <2>6, <2>7, <2>8 DEF Spin!IInv
<1>5. CASE Spin!UnLock(t)
  <2>1. Spin!TypeOK'
    BY <1>1, <1>5 DEF Spin!UnLock, Spin!Goto, Spin!TypeOK, Spin!Rounds, Spin!Late
  <2>2. Spin!Exclusion'
    BY <1>1, <1>5 DEF Spin!UnLock, Spin!Goto, Spin!TypeOK, Spin!Exclusion, Spin!InCritical
  <2>3. Spin!Rounds'
    BY <1>1, <1>5 DEF Spin!UnLock, Spin!Goto, Spin!TypeOK, Spin!Rounds, Spin!Late
  <2>4. Spin!InOrder'
    BY <1>1, <1>5 DEF Spin!UnLock, Spin!Goto, Spin!TypeOK, Spin!Exclusion, Spin!InCritical,
                   Spin!Rounds, Spin!Late, Spin!InOrder
  <2>5. Spin!AtMost'
    BY <1>1, <1>5 DEF Spin!UnLock, Spin!Goto, Spin!TypeOK, Spin!AtMost, Spin!Holds
  <2>6. Spin!AtLeast'
    BY <1>1, <1>5 DEF Spin!UnLock, Spin!Goto, Spin!TypeOK, Spin!Rounds, Spin!Late,
                   Spin!AtLeast, Spin!Holds
  <2> QED BY <2>1, <2>2, <2>3, <2>4, <2>5, <2>6 DEF Spin!IInv
<1>6. CASE Spin!UnLockEarly(t)
  <2>1. Spin!TypeOK'
    BY <1>1, <1>6 DEF Spin!UnLockEarly, Spin!Goto, Spin!TypeOK, Spin!Rounds, Spin!Late
  <2>2. Spin!Exclusion'
    BY <1>1, <1>6 DEF Spin!UnLockEarly, Spin!Goto, Spin!TypeOK, Spin!Exclusion, Spin!InCritical
  <2>3. Spin!Rounds'
    BY <1>1, <1>6 DEF Spin!UnLockEarly, Spin!Goto, Spin!TypeOK, Spin!Rounds, Spin!Late
  <2>4. Spin!InOrder'
    BY <1>1, <1>6 DEF Spin!UnLockEarly, Spin!Goto, Spin!TypeOK, Spin!Exclusion, Spin!InCritical,
                   Spin!Rounds, Spin!Late, Spin!InOrder
  <2>5. Spin!AtMost'
    BY <1>1, <1>6 DEF Spin!UnLockEarly, Spin!Goto, Spin!TypeOK, Spin!AtMost, Spin!Holds
  <2>6. Spin!AtLeast'
    BY <1>1, <1>6 DEF Spin!UnLockEarly, Spin!Goto, Spin!TypeOK, Spin!Rounds, Spin!Late,
                   Spin!AtLeast, Spin!Holds
  <2> QED BY <2>1, <2>2, <2>3, <2>4, <2>5, <2>6 DEF Spin!IInv
<1> QED BY <1>2, <1>3, <1>4, <1>5, <1>6 DEF Spin!Run

\* The inductive invariant of spin_lock.rs is kept and gives the bounds.
LEMMA SpinNext == Spin!IInv /\ [Spin!Next]_Spin!vars => Spin!IInv'
<1> SUFFICES ASSUME Spin!IInv, [Spin!Next]_Spin!vars PROVE Spin!IInv'
  OBVIOUS
<1>1. ASSUME NEW t \in Spin!Threads, Spin!Join(t) PROVE Spin!IInv'
  BY <1>1 DEF Spin!Join, Spin!IInv, Spin!TypeOK, Spin!Exclusion, Spin!InCritical, Spin!Rounds, Spin!Late,
              Spin!InOrder, Spin!AtMost, Spin!AtLeast, Spin!Holds
<1>2. CASE UNCHANGED Spin!vars
  BY <1>2 DEF Spin!vars, Spin!IInv, Spin!TypeOK, Spin!Exclusion, Spin!InCritical, Spin!Rounds, Spin!Late,
              Spin!InOrder, Spin!AtMost, Spin!AtLeast, Spin!Holds
<1> QED BY <1>1, <1>2, SpinRun DEF Spin!Next

LEMMA SpinBounds == Spin!IInv => Spin!PrintedCounter
<1> SUFFICES ASSUME Spin!IInv, joined = {1, 2}
             PROVE  /\ build = "inorder" => counter = 2 * ROUNDS
                    /\ counter \in (IF ROUNDS >= 2 THEN 2 ELSE 1) .. 2 * ROUNDS
  BY DEF Spin!PrintedCounter, Spin!Threads
<1>1. i[1] = ROUNDS /\ i[2] = ROUNDS /\ counter \in Nat
  BY DEF Spin!IInv, Spin!TypeOK, Spin!Rounds, Spin!Threads
<1>2. counter <= 2 * ROUNDS /\ (build = "inorder" => counter = 2 * ROUNDS)
  BY <1>1, CountersAssumption DEF Spin!IInv, Spin!InOrder, Spin!AtMost
<1>3. counter >= 1 /\ (ROUNDS >= 2 => counter >= 2)
  BY <1>1, CountersAssumption DEF Spin!IInv, Spin!AtLeast, Spin!Threads
<1> QED BY <1>1, <1>2, <1>3, CountersAssumption

-----------------------------------------------------------------------------
\* pc.c.

LEMMA RetryInit == Retry!Init => Retry!IInv
BY RetryAssumption
   DEF Retry!Init, Retry!MutexInit, Retry!IInv, Retry!TypeOK, Retry!MutexHeld, Retry!InStep

\* The steps of a thread: what was tested under the mutex stays true until the
\* counter and the text have changed.
LEMMA RetryStepInv ==
  ASSUME Retry!IInv, NEW t \in Producers \cup Consumers, Retry!Step(t)
  PROVE  Retry!IInv'
<1> USE RetryAssumption
<1>1. Retry!TypeOK /\ Retry!MutexHeld /\ Retry!InStep
  BY DEF Retry!IInv
<1>2. CASE Retry!Lock(t)
  <2>1. Retry!TypeOK' /\ Retry!MutexHeld'
    BY <1>1, <1>2 DEF Retry!Lock, Retry!Goto, Retry!mutex_lock, Retry!TypeOK, Retry!MutexHeld, Retry!InStep, Retry!MustRetry
  <2>2. Retry!InStep'
    BY <1>1, <1>2 DEF Retry!Lock, Retry!Goto, Retry!mutex_lock, Retry!TypeOK, Retry!MutexHeld, Retry!InStep, Retry!MustRetry
  <2> QED BY <2>1, <2>2 DEF Retry!IInv
<1>3. CASE Retry!Test(t)
  <2>1. Retry!TypeOK' /\ Retry!MutexHeld'
    BY <1>1, <1>3 DEF Retry!Test, Retry!Goto, Retry!TypeOK, Retry!MutexHeld, Retry!InStep, Retry!MustRetry
  <2>2. Retry!InStep'
    BY <1>1, <1>3 DEF Retry!Test, Retry!Goto, Retry!TypeOK, Retry!MutexHeld, Retry!InStep, Retry!MustRetry
  <2> QED BY <2>1, <2>2 DEF Retry!IInv
<1>4. CASE Retry!Retry(t)
  <2>1. Retry!TypeOK' /\ Retry!MutexHeld'
    BY <1>1, <1>4 DEF Retry!Retry, Retry!Goto, Retry!mutex_unlock, Retry!TypeOK, Retry!MutexHeld, Retry!InStep, Retry!MustRetry
  <2>2. Retry!InStep'
    BY <1>1, <1>4 DEF Retry!Retry, Retry!Goto, Retry!mutex_unlock, Retry!TypeOK, Retry!MutexHeld, Retry!InStep, Retry!MustRetry
  <2> QED BY <2>1, <2>2 DEF Retry!IInv
<1>5. CASE Retry!Count(t)
  <2>1. Retry!TypeOK' /\ Retry!MutexHeld'
    BY <1>1, <1>5 DEF Retry!Count, Retry!Goto, Retry!TypeOK, Retry!MutexHeld, Retry!InStep, Retry!MustRetry
  <2>2. Retry!InStep'
    BY <1>1, <1>5 DEF Retry!Count, Retry!Goto, Retry!TypeOK, Retry!MutexHeld, Retry!InStep, Retry!MustRetry
  <2> QED BY <2>1, <2>2 DEF Retry!IInv
<1>6. CASE Retry!Printf(t)
  <2>1. Retry!TypeOK' /\ Retry!MutexHeld'
    BY <1>1, <1>6 DEF Retry!Printf, Retry!Goto, Retry!TypeOK, Retry!MutexHeld, Retry!InStep, Retry!MustRetry
  <2>2. Retry!InStep'
    BY <1>1, <1>6 DEF Retry!Printf, Retry!Goto, Retry!TypeOK, Retry!MutexHeld, Retry!InStep, Retry!MustRetry
  <2> QED BY <2>1, <2>2 DEF Retry!IInv
<1>7. CASE Retry!Unlock(t)
  <2>1. Retry!TypeOK' /\ Retry!MutexHeld'
    BY <1>1, <1>7 DEF Retry!Unlock, Retry!Goto, Retry!mutex_unlock, Retry!TypeOK, Retry!MutexHeld, Retry!InStep, Retry!MustRetry
  <2>2. Retry!InStep'
    BY <1>1, <1>7 DEF Retry!Unlock, Retry!Goto, Retry!mutex_unlock, Retry!TypeOK, Retry!MutexHeld, Retry!InStep, Retry!MustRetry
  <2> QED BY <2>1, <2>2 DEF Retry!IInv
<1> QED BY <1>2, <1>3, <1>4, <1>5, <1>6, <1>7 DEF Retry!Step

\* Every step of pc.c keeps the inductive invariant.
LEMMA RetryNext == Retry!IInv /\ [Retry!Next]_Retry!vars => Retry!IInv'
<1> SUFFICES ASSUME Retry!IInv, [Retry!Next]_Retry!vars PROVE Retry!IInv'
  OBVIOUS
<1>1. CASE UNCHANGED Retry!vars
  BY <1>1 DEF Retry!vars, Retry!IInv, Retry!TypeOK, Retry!MutexHeld, Retry!InStep, Retry!MustRetry
<1> QED BY <1>1, RetryStepInv DEF Retry!Next, Retry!Tproduce, Retry!Tconsume

\* Every step of pc.c is a step of Parens or prints nothing.
LEMMA RetryPrints ==
  ASSUME Retry!IInv, [Retry!Next]_Retry!vars
  PROVE  [Retry!ParenSpec!Next]_depth
<1>1. ASSUME NEW t \in Producers \cup Consumers, Retry!Printf(t)
      PROVE  Retry!ParenSpec!Next
  <2>1. Retry!IInv'
    BY RetryNext
  <2>2. /\ depth \in 0 .. n /\ depth' \in 0 .. n
        /\ depth' = (IF t \in Producers THEN depth + 1 ELSE depth - 1)
    BY <1>1, <2>1 DEF Retry!Printf, Retry!IInv, Retry!TypeOK
  <2> QED BY <2>2, RetryAssumption
          DEF Retry!ParenSpec!Next, Retry!ParenSpec!Open, Retry!ParenSpec!Close
<1>2. ASSUME NEW t \in Producers \cup Consumers, Retry!Step(t), ~Retry!Printf(t)
      PROVE  UNCHANGED depth
  BY <1>2 DEF Retry!Step, Retry!Lock, Retry!Test, Retry!Retry, Retry!Count, Retry!Unlock
<1>3. CASE UNCHANGED Retry!vars
  BY <1>3 DEF Retry!vars
<1> QED BY <1>1, <1>2, <1>3 DEF Retry!Next, Retry!Tproduce, Retry!Tconsume

-----------------------------------------------------------------------------
\* sem.py.

\* Each program's module has the Cardinality of FiniteSets.
LEMMA SameCardinality ==
  ASSUME NEW S
  PROVE  /\ Sem!Cardinality(S) = Cardinality(S)
         /\ Atomic!Cardinality(S) = Cardinality(S)
         /\ Mandel!Cardinality(S) = Cardinality(S)
BY DEF Sem!Cardinality, Atomic!Cardinality, Mandel!Cardinality, Cardinality

LEMMA HoldersFinite == IsFiniteSet(Sem!Holders) /\ Cardinality(Sem!Holders) \in Nat
<1>1. Sem!Holders \subseteq Tids
  BY DEF Sem!Holders
<1> QED BY <1>1, SemAssumption, FS_Subset, FS_CardinalityType

LEMMA SemInit == Sem!Init => Sem!IInv
<1> SUFFICES ASSUME Sem!Init PROVE Sem!IInv
  OBVIOUS
<1>1. Sem!TypeOK /\ Sem!QueueIsSound
  BY SemAssumption DEF Sem!Init, Sem!TypeOK, Sem!QueueIsSound, Sem!IsInjective
<1>2. Sem!Holders = {}
  BY DEF Sem!Init, Sem!Holders
<1>3. Sem!TokensKept
  BY <1>2, SemAssumption, FS_EmptySet, SameCardinality DEF Sem!Init, Sem!TokensKept
<1> QED BY <1>1, <1>3 DEF Sem!IInv

\* The invariant in terms of the library's Cardinality and of sequences.
LEMMA SemFacts ==
  ASSUME Sem!IInv
  PROVE  /\ token \in Nat /\ waits \in Seq(Tids)
         /\ pc \in [Tids -> {"P", "spin", "enter", "leave", "V", "done"}]
         /\ token + Cardinality(Sem!Holders) = Tokens
         /\ waits # <<>> => token = 0
         /\ \A k \in 1 .. Len(waits) : pc[waits[k]] = "spin" /\ waits[k] \in Tids
         /\ \A k, l \in 1 .. Len(waits) : waits[k] = waits[l] => k = l
<1>1. Sem!TypeOK /\ Sem!TokensKept /\ Sem!QueueIsSound
  BY DEF Sem!IInv
<1>2. DOMAIN waits = 1 .. Len(waits) /\ \A k \in 1 .. Len(waits) : waits[k] \in Tids
  BY <1>1 DEF Sem!TypeOK
<1> QED BY <1>1, <1>2, SameCardinality
        DEF Sem!TypeOK, Sem!TokensKept, Sem!QueueIsSound, Sem!IsInjective

\* P takes a token that is visible, or queues.
LEMMA SemP ==
  ASSUME Sem!IInv, NEW t \in Tids, Sem!P(t)
  PROVE  Sem!IInv'
<1>1. /\ pc[t] = "P" /\ pc' = [pc EXCEPT ![t] = "spin"]
      /\ IF token > 0 THEN token' = token - 1 /\ UNCHANGED waits
                      ELSE waits' = Append(waits, t) /\ UNCHANGED token
  BY DEF Sem!P, Sem!Goto
<1>2. CASE token > 0
  <2>1. waits = <<>> /\ waits' = <<>> /\ token' = token - 1
    BY <1>1, <1>2, SemFacts
  <2>2. Sem!Holders' = Sem!Holders \cup {t} /\ t \notin Sem!Holders
    BY <1>1, <2>1, SemFacts DEF Sem!Holders, Sem!Contains
  <2>3. Cardinality(Sem!Holders \cup {t}) = Cardinality(Sem!Holders) + 1
    BY <2>2, HoldersFinite, FS_AddElement
  <2>4. token' + Cardinality(Sem!Holders') = Tokens
    <3>1. token \in Nat /\ Cardinality(Sem!Holders) \in Nat /\ Tokens \in Nat
          /\ token + Cardinality(Sem!Holders) = Tokens
      BY SemFacts, HoldersFinite, SemAssumption
    <3> QED BY <1>2, <2>1, <2>2, <2>3, <3>1
  <2>5. Sem!TypeOK' /\ Sem!QueueIsSound'
    BY <1>1, <1>2, <2>1, SemFacts DEF Sem!TypeOK, Sem!QueueIsSound, Sem!IsInjective
  <2> QED BY <2>4, <2>5, SameCardinality DEF Sem!IInv, Sem!TokensKept
<1>3. CASE ~(token > 0)
  <2>1. /\ waits' = Append(waits, t) /\ token' = token /\ token = 0
        /\ waits' \in Seq(Tids) /\ Len(waits') = Len(waits) + 1
        /\ \A k \in 1 .. Len(waits') :
              waits'[k] = IF k = Len(waits) + 1 THEN t ELSE waits[k]
    BY <1>1, <1>3, SemFacts, SMTT(30)
  <2>2. \A k \in 1 .. Len(waits) : waits[k] # t
    BY <1>1, SemFacts
  <2>3. \A u \in Tids : Sem!Contains(waits, u)' <=> Sem!Contains(waits, u) \/ u = t
    BY <2>1, SemFacts DEF Sem!Contains
  <2>4. Sem!Holders' = Sem!Holders
    BY <1>1, <2>3, SemFacts DEF Sem!Holders
  <2>5. Sem!TypeOK'
    BY <1>1, <2>1, SemFacts DEF Sem!TypeOK
  <2>6. Sem!QueueIsSound'
    BY <1>1, <2>1, <2>2, SemFacts DEF Sem!QueueIsSound, Sem!IsInjective
  <2> QED BY <2>1, <2>4, <2>5, <2>6, SemFacts, SameCardinality DEF Sem!IInv, Sem!TokensKept
<1> QED BY <1>2, <1>3

\* Between P and V a thread keeps its token.
LEMMA SemMiddle ==
  ASSUME Sem!IInv, NEW t \in Tids, Sem!Spin(t) \/ Sem!Enter(t) \/ Sem!Leave(t)
  PROVE  Sem!IInv'
<1>1. /\ UNCHANGED <<token, waits>>
      /\ \/ pc[t] = "spin" /\ ~Sem!Contains(waits, t) /\ pc' = [pc EXCEPT ![t] = "enter"]
         \/ pc[t] = "enter" /\ pc' = [pc EXCEPT ![t] = "leave"]
         \/ pc[t] = "leave" /\ pc' = [pc EXCEPT ![t] = "V"]
  BY DEF Sem!Spin, Sem!Enter, Sem!Leave, Sem!Goto
<1>2. \A k \in 1 .. Len(waits) : waits[k] # t
  BY <1>1, SemFacts DEF Sem!Contains
<1>3. Sem!Holders' = Sem!Holders
  BY <1>1, SemFacts DEF Sem!Holders, Sem!Contains
<1>4. Sem!TypeOK' /\ Sem!QueueIsSound'
  BY <1>1, <1>2, SemFacts DEF Sem!TypeOK, Sem!QueueIsSound, Sem!IsInjective
<1> QED BY <1>1, <1>3, <1>4, SemFacts, SameCardinality DEF Sem!IInv, Sem!TokensKept

\* V gives its token to the first waiter, or makes it visible.
LEMMA SemV ==
  ASSUME Sem!IInv, NEW t \in Tids, Sem!V(t)
  PROVE  Sem!IInv'
<1>1. /\ pc[t] = "V" /\ pc' = [pc EXCEPT ![t] = "done"]
      /\ IF waits # <<>> THEN waits' = Tail(waits) /\ UNCHANGED token
                         ELSE token' = token + 1 /\ UNCHANGED waits
  BY DEF Sem!V, Sem!Goto
<1>2. t \in Sem!Holders /\ \A k \in 1 .. Len(waits) : waits[k] # t
  BY <1>1, SemFacts DEF Sem!Holders
<1>3. CASE waits = <<>>
  <2>1. waits' = <<>> /\ token' = token + 1
    BY <1>1, <1>3
  <2>2. Sem!Holders' = Sem!Holders \ {t}
    BY <1>1, <1>3, <2>1, SemFacts DEF Sem!Holders, Sem!Contains
  <2>3. Cardinality(Sem!Holders \ {t}) = Cardinality(Sem!Holders) - 1
    BY <1>2, HoldersFinite, FS_RemoveElement
  <2>4. token' + Cardinality(Sem!Holders') = Tokens
    <3>1. token \in Nat /\ Cardinality(Sem!Holders) \in Nat /\ Tokens \in Nat
          /\ token + Cardinality(Sem!Holders) = Tokens
      BY SemFacts, HoldersFinite, SemAssumption
    <3> QED BY <2>1, <2>2, <2>3, <3>1
  <2>5. Sem!TypeOK' /\ Sem!QueueIsSound'
    BY <1>1, <2>1, SemFacts DEF Sem!TypeOK, Sem!QueueIsSound, Sem!IsInjective
  <2> QED BY <2>4, <2>5, SameCardinality DEF Sem!IInv, Sem!TokensKept
<1>4. CASE waits # <<>>
  <2> DEFINE h == waits[1]
  <2>1. /\ waits' = Tail(waits) /\ token' = token
        /\ waits' \in Seq(Tids) /\ Len(waits') = Len(waits) - 1 /\ Len(waits) >= 1
        /\ \A k \in 1 .. Len(waits') : waits'[k] = waits[k + 1]
    <3>1. waits' = Tail(waits) /\ token' = token /\ waits \in Seq(Tids) /\ Len(waits) >= 1
      BY <1>1, <1>4, SemFacts, EmptySeq
    <3>2. /\ Tail(waits) \in Seq(Tids) /\ Len(Tail(waits)) = Len(waits) - 1
          /\ \A k \in 1 .. Len(Tail(waits)) : Tail(waits)[k] = waits[k + 1]
      BY <1>4, <3>1, HeadTailProperties
    <3> QED BY <3>1, <3>2
  <2>2. h \in Tids /\ pc[h] = "spin" /\ h # t /\ h \notin Sem!Holders
    BY <1>2, <2>1, SemFacts DEF Sem!Holders, Sem!Contains
  <2>3. \A u \in Tids : Sem!Contains(waits, u)' <=> Sem!Contains(waits, u) /\ u # h
    <3>1. ASSUME NEW u \in Tids, Sem!Contains(waits, u)'
          PROVE  Sem!Contains(waits, u) /\ u # h
      BY <2>1, <3>1, SemFacts DEF Sem!Contains
    <3>2. ASSUME NEW u \in Tids, Sem!Contains(waits, u), u # h
          PROVE  Sem!Contains(waits, u)'
      <4>1. PICK k \in 1 .. Len(waits) : waits[k] = u
        BY <3>2 DEF Sem!Contains
      <4>2. k - 1 \in 1 .. Len(waits') /\ waits'[k - 1] = u
        BY <2>1, <3>2, <4>1
      <4> QED BY <4>2 DEF Sem!Contains
    <3> QED BY <3>1, <3>2
  <2>4. Sem!Holders' = (Sem!Holders \ {t}) \cup {h}
    BY <1>1, <2>2, <2>3, SemFacts DEF Sem!Holders
  <2>5. Cardinality(Sem!Holders') = Cardinality(Sem!Holders)
    <3>1. /\ IsFiniteSet(Sem!Holders \ {t})
          /\ Cardinality(Sem!Holders \ {t}) = Cardinality(Sem!Holders) - 1
      BY <1>2, HoldersFinite, FS_RemoveElement
    <3>2. h \notin Sem!Holders \ {t}
      BY <2>2
    <3>3. Cardinality((Sem!Holders \ {t}) \cup {h}) = Cardinality(Sem!Holders \ {t}) + 1
      BY <3>1, <3>2, FS_AddElement
    <3> QED BY <2>4, <3>1, <3>3, HoldersFinite
  <2>6. Sem!TypeOK'
    BY <1>1, <2>1, SemFacts DEF Sem!TypeOK
  <2>7. Sem!QueueIsSound'
    BY <1>1, <1>2, <2>1, SemFacts DEF Sem!QueueIsSound, Sem!IsInjective
  <2> QED BY <2>1, <2>5, <2>6, <2>7, SemFacts, SameCardinality DEF Sem!IInv, Sem!TokensKept
<1> QED BY <1>3, <1>4

LEMMA SemNext == Sem!IInv /\ [Sem!Next]_Sem!vars => Sem!IInv'
<1> SUFFICES ASSUME Sem!IInv, [Sem!Next]_Sem!vars PROVE Sem!IInv'
  OBVIOUS
<1>1. CASE UNCHANGED Sem!vars
  <2>1. Sem!Holders' = Sem!Holders
    BY <1>1 DEF Sem!vars, Sem!Holders, Sem!Contains
  <2> QED BY <1>1, <2>1, SameCardinality
          DEF Sem!vars, Sem!IInv, Sem!TypeOK, Sem!TokensKept, Sem!QueueIsSound, Sem!IsInjective
<1> QED BY <1>1, SemP, SemMiddle, SemV DEF Sem!Next, Sem!Thread

\* Who is in the critical section holds a token.
LEMMA SemNeverRed == Sem!IInv => Sem!NeverRed /\ Sem!QueueIsSound
<1> SUFFICES ASSUME Sem!IInv PROVE Sem!NeverRed
  BY DEF Sem!IInv
<1>1. Sem!InCs \subseteq Sem!Holders
  BY DEF Sem!InCs, Sem!Holders
<1>2. Cardinality(Sem!InCs) <= Cardinality(Sem!Holders) /\ Cardinality(Sem!InCs) \in Nat
  BY <1>1, HoldersFinite, FS_Subset, FS_CardinalityType
<1> QED BY <1>2, SemFacts, HoldersFinite, SemAssumption, SameCardinality DEF Sem!NeverRed

-----------------------------------------------------------------------------
\* sum-atomic.c on thread.h.

\* The additions that there can be.
LEMMA AdditionsFinite ==
  /\ IsFiniteSet(Atomic!Additions) /\ Cardinality(Atomic!Additions) \in Nat
  /\ IsFiniteSet((Atomic!Ids \cup {Atomic!Main}) \X (0 .. AtomicN - 1))
  /\ Cardinality((Atomic!Ids \cup {Atomic!Main}) \X (0 .. AtomicN - 1)) = (K + 1) * AtomicN
<1> DEFINE T == Atomic!Ids \cup {Atomic!Main}
<1>1. T = 0 .. K
  BY CountersAssumption DEF Atomic!Ids, Atomic!Main
<1>2. IsFiniteSet(0 .. K) /\ Cardinality(0 .. K) = K + 1
  BY CountersAssumption, FS_Interval
<1>3. IsFiniteSet(0 .. AtomicN - 1) /\ Cardinality(0 .. AtomicN - 1) = AtomicN
  BY CountersAssumption, FS_Interval
<1>4. /\ IsFiniteSet((0 .. K) \X (0 .. AtomicN - 1))
      /\ Cardinality((0 .. K) \X (0 .. AtomicN - 1)) = (K + 1) * AtomicN
  BY <1>2, <1>3, FS_Product, ZenonT(40)
<1>5. Atomic!Additions \subseteq T \X (0 .. AtomicN - 1)
  BY DEF Atomic!Additions
<1> QED BY <1>1, <1>4, <1>5, FS_Subset, FS_CardinalityType

LEMMA AtomicInit == Atomic!Init => Atomic!IInv
<1> SUFFICES ASSUME Atomic!Init PROVE Atomic!IInv
  OBVIOUS
<1>1. threads = <<>> /\ threads \in Seq(Atomic!Ids) /\ Len(threads) = 0
  BY EmptySeq DEF Atomic!Init
<1>2. /\ pc \in [Atomic!Ids -> {"new", "entry", "run", "done"}]
      /\ i \in [Atomic!Ids \cup {Atomic!Main} -> 0 .. AtomicN]
  <2>1. 0 \in 0 .. AtomicN
    BY CountersAssumption
  <2> QED BY <2>1 DEF Atomic!Init
<1>3. /\ main = "create" /\ freed \subseteq Atomic!Ids /\ join_fn \in BOOLEAN /\ sum \in Nat
  BY DEF Atomic!Init
<1>4. Atomic!TypeOK
  BY <1>1, <1>2, <1>3 DEF Atomic!TypeOK
<1>5. Atomic!List
  BY <1>1, CountersAssumption DEF Atomic!Init, Atomic!List, Atomic!Ids
<1>6. Atomic!Rounds
  BY DEF Atomic!Init, Atomic!Rounds
<1>7. Atomic!Additions = {}
  BY CountersAssumption DEF Atomic!Init, Atomic!Additions
<1>8. Atomic!NoAddLost
  BY <1>7, FS_EmptySet, SameCardinality DEF Atomic!Init, Atomic!NoAddLost
<1> QED BY <1>4, <1>5, <1>6, <1>8 DEF Atomic!IInv

\* A step that makes no addition changes neither the sum nor a loop counter.
LEMMA NoAddition ==
  ASSUME Atomic!NoAddLost, UNCHANGED <<sum, i>>
  PROVE  Atomic!NoAddLost'
<1>1. Atomic!Additions' = Atomic!Additions
  BY DEF Atomic!Additions
<1> QED BY <1>1, SameCardinality DEF Atomic!NoAddLost

\* A round adds one pair and one to the sum.
LEMMA OneAddition ==
  ASSUME Atomic!TypeOK, Atomic!NoAddLost, NEW t \in Atomic!Ids \cup {Atomic!Main}, Atomic!Add(t)
  PROVE  /\ Atomic!NoAddLost' /\ sum' \in Nat
         /\ i[t] < AtomicN /\ i' = [i EXCEPT ![t] = i[t] + 1]
         /\ i' \in [Atomic!Ids \cup {Atomic!Main} -> 0 .. AtomicN]
<1>1. i[t] < AtomicN /\ i[t] \in Nat /\ sum' = sum + 1 /\ sum \in Nat
      /\ i' = [i EXCEPT ![t] = i[t] + 1]
  BY CountersAssumption DEF Atomic!Add, Atomic!TypeOK
<1>2. \A u \in Atomic!Ids \cup {Atomic!Main} : i'[u] = IF u = t THEN i[t] + 1 ELSE i[u]
  BY <1>1 DEF Atomic!TypeOK
<1>3. <<t, i[t]>> \notin Atomic!Additions
  BY <1>1 DEF Atomic!Additions
<1>4. Atomic!Additions' = Atomic!Additions \cup {<<t, i[t]>>}
  <2>1. ASSUME NEW u \in Atomic!Ids \cup {Atomic!Main}, NEW r \in 0 .. AtomicN - 1
        PROVE  r < i'[u] <=> r < i[u] \/ (u = t /\ r = i[t])
    BY <1>1, <1>2, CountersAssumption DEF Atomic!TypeOK
  <2>2. i[t] \in 0 .. AtomicN - 1
    BY <1>1, CountersAssumption
  <2> QED BY <2>1, <2>2 DEF Atomic!Additions
<1>5. Cardinality(Atomic!Additions \cup {<<t, i[t]>>}) = Cardinality(Atomic!Additions) + 1
  BY <1>3, AdditionsFinite, FS_AddElement
<1>6. Atomic!NoAddLost'
  BY <1>1, <1>4, <1>5, SameCardinality DEF Atomic!NoAddLost
<1> QED BY <1>1, <1>2, <1>6, CountersAssumption DEF Atomic!TypeOK

\* create() puts the next number at the head of the list.
LEMMA AtomicCreate ==
  ASSUME Atomic!IInv, Atomic!Create
  PROVE  Atomic!IInv'
<1> DEFINE id == Len(threads) + 1
<1>1. /\ Atomic!TypeOK /\ Atomic!List /\ Atomic!Rounds /\ Atomic!NoAddLost
      /\ UNCHANGED <<freed, join_fn, sum, i>> /\ main = "create"
  BY DEF Atomic!IInv, Atomic!Create
<1>2. threads \in Seq(Atomic!Ids) /\ Len(threads) \in Nat
  BY <1>1 DEF Atomic!TypeOK
<1>3. id = IF threads = <<>> THEN 1 ELSE Head(threads) + 1
  BY <1>1, <1>2 DEF Atomic!List
<1>4. /\ threads' = <<id>> \o threads /\ pc' = [pc EXCEPT ![id] = "entry"]
      /\ main' = IF id = K THEN "join" ELSE "create"
  BY <1>3 DEF Atomic!Create
<1>5. id \in Atomic!Ids
  BY <1>1, <1>2, CountersAssumption DEF Atomic!List, Atomic!Ids
<1>6. /\ threads' \in Seq(Atomic!Ids) /\ Len(threads') = id
      /\ \A k \in 1 .. Len(threads') : threads'[k] = IF k = 1 THEN id ELSE threads[k - 1]
  BY <1>2, <1>4, <1>5, ConcatProperties
<1>7. \A t \in Atomic!Ids : pc'[t] = IF t = id THEN "entry" ELSE pc[t]
  BY <1>1, <1>4 DEF Atomic!TypeOK
<1>8. Atomic!TypeOK'
  BY <1>1, <1>4, <1>5, <1>6 DEF Atomic!TypeOK
<1>9. Atomic!List'
  <2>1. \A k \in 1 .. Len(threads') : threads'[k] = Len(threads') + 1 - k
    <3> SUFFICES ASSUME NEW k \in 1 .. Len(threads') PROVE threads'[k] = Len(threads') + 1 - k
      OBVIOUS
    <3>1. CASE k = 1
      BY <1>2, <1>6, <3>1
    <3>2. CASE k # 1
      <4>1. k - 1 \in 1 .. Len(threads) /\ threads'[k] = threads[k - 1]
        BY <1>2, <1>6, <3>2
      <4> QED BY <1>1, <1>2, <1>6, <4>1 DEF Atomic!List
    <3> QED BY <3>1, <3>2
  <2>2. \A t \in Atomic!Ids : /\ pc'[t] = "new" <=> main' = "create" /\ t > Len(threads')
                              /\ t \in freed' <=> main' # "create" /\ t > Len(threads')
                              /\ t \in freed' => pc'[t] = "done"
    BY <1>1, <1>2, <1>4, <1>6, <1>7, CountersAssumption DEF Atomic!List, Atomic!Ids
  <2> QED BY <1>1, <1>2, <1>4, <1>6, <2>1, <2>2, CountersAssumption DEF Atomic!List
<1>10. Atomic!Rounds'
  BY <1>1, <1>4, <1>5, <1>7, <1>2, CountersAssumption DEF Atomic!Rounds, Atomic!List, Atomic!Ids
<1> QED BY <1>1, <1>8, <1>9, <1>10, NoAddition DEF Atomic!IInv

\* join(fn), printf and the head of the loop of join_all change only main's
\* place.
LEMMA AtomicMoves ==
  ASSUME Atomic!IInv, Atomic!SetJoinFn \/ Atomic!Printf \/ Atomic!PthreadJoin
  PROVE  Atomic!IInv'
<1>1. /\ Atomic!TypeOK /\ Atomic!List /\ Atomic!Rounds /\ Atomic!NoAddLost
      /\ UNCHANGED <<threads, freed, sum, pc, i>>
  BY DEF Atomic!IInv, Atomic!SetJoinFn, Atomic!Printf, Atomic!PthreadJoin
<1>2. threads \in Seq(Atomic!Ids) /\ Len(threads) \in Nat
  BY <1>1 DEF Atomic!TypeOK
<1>3. \/ main = "join" /\ main' = "print" /\ join_fn' = TRUE
      \/ main = "print" /\ main' = "join_all" /\ join_fn' = join_fn
      \/ main = "join_all" /\ main' = "join_fn" /\ join_fn' = join_fn /\ Len(threads) = 0
      \/ /\ main = "join_all" /\ main' = "free" /\ join_fn' = join_fn
         /\ Len(threads) > 0 /\ pc[Len(threads)] = "done"
  BY <1>1, <1>2 DEF Atomic!SetJoinFn, Atomic!Printf, Atomic!PthreadJoin, Atomic!List
<1>4. Atomic!TypeOK' /\ Atomic!List'
  BY <1>1, <1>3 DEF Atomic!TypeOK, Atomic!List
<1>5. Atomic!Rounds'
  BY <1>1, <1>3 DEF Atomic!Rounds
<1> QED BY <1>1, <1>4, <1>5, NoAddition DEF Atomic!IInv

\* free() gives back the node of the newest thread, which has ended.
LEMMA AtomicFree ==
  ASSUME Atomic!IInv, Atomic!Free
  PROVE  Atomic!IInv'
<1>1. /\ Atomic!TypeOK /\ Atomic!List /\ Atomic!Rounds /\ Atomic!NoAddLost
      /\ UNCHANGED <<join_fn, sum, pc, i>> /\ main = "free" /\ main' = "join_all"
      /\ freed' = freed \cup {Head(threads)} /\ threads' = Tail(threads)
  BY DEF Atomic!IInv, Atomic!Free
<1>2. threads \in Seq(Atomic!Ids) /\ Len(threads) \in Nat /\ Len(threads) > 0 /\ threads # <<>>
  BY <1>1 DEF Atomic!TypeOK, Atomic!List
<1>3. /\ threads' \in Seq(Atomic!Ids) /\ Len(threads') = Len(threads) - 1
      /\ \A k \in 1 .. Len(threads') : threads'[k] = threads[k + 1]
  BY <1>1, <1>2, HeadTailProperties
<1>4. Head(threads) = Len(threads) /\ Len(threads) \in Atomic!Ids
  BY <1>1, <1>2, CountersAssumption DEF Atomic!List, Atomic!Ids
<1>5. Atomic!TypeOK'
  BY <1>1, <1>3, <1>4 DEF Atomic!TypeOK
<1>6. \A t \in Atomic!Ids : t \in freed' <=> t > Len(threads')
  BY <1>1, <1>2, <1>3, <1>4 DEF Atomic!List, Atomic!Ids
<1>7. Atomic!List'
  BY <1>1, <1>2, <1>3, <1>4, <1>6, CountersAssumption DEF Atomic!List, Atomic!Ids
<1>8. Atomic!Rounds'
  BY <1>1 DEF Atomic!Rounds
<1> QED BY <1>1, <1>5, <1>7, <1>8, NoAddition DEF Atomic!IInv

\* Tsum run by join_all.
LEMMA AtomicJoinFn ==
  ASSUME Atomic!IInv, Atomic!JoinFn
  PROVE  Atomic!IInv'
<1>1. /\ Atomic!TypeOK /\ Atomic!List /\ Atomic!Rounds /\ Atomic!NoAddLost
      /\ UNCHANGED <<threads, freed, join_fn, pc>> /\ main = "join_fn"
  BY DEF Atomic!IInv, Atomic!JoinFn
<1>2. Atomic!Main \notin Atomic!Ids
  BY CountersAssumption DEF Atomic!Main, Atomic!Ids
<1>3. CASE i[Atomic!Main] < AtomicN
  <2>1. Atomic!Add(Atomic!Main) /\ UNCHANGED main
    BY <1>1, <1>3 DEF Atomic!JoinFn, Atomic!Rounds
  <2>2. /\ Atomic!NoAddLost' /\ sum' \in Nat
        /\ i' = [i EXCEPT ![Atomic!Main] = i[Atomic!Main] + 1]
        /\ i' \in [Atomic!Ids \cup {Atomic!Main} -> 0 .. AtomicN]
    BY <1>1, <2>1, OneAddition
  <2>3. Atomic!TypeOK' /\ Atomic!List'
    BY <1>1, <2>1, <2>2 DEF Atomic!TypeOK, Atomic!List
  <2>4. Atomic!Rounds'
    BY <1>1, <1>2, <2>1, <2>2 DEF Atomic!Rounds, Atomic!TypeOK
  <2> QED BY <2>2, <2>3, <2>4 DEF Atomic!IInv
<1>4. CASE ~(i[Atomic!Main] < AtomicN)
  <2>1. main' = "exit" /\ UNCHANGED <<sum, i>> /\ i[Atomic!Main] = AtomicN
    BY <1>1, <1>4, CountersAssumption DEF Atomic!JoinFn, Atomic!TypeOK
  <2>2. Atomic!TypeOK' /\ Atomic!List' /\ Atomic!Rounds'
    BY <1>1, <2>1 DEF Atomic!TypeOK, Atomic!List, Atomic!Rounds
  <2> QED BY <1>1, <2>1, <2>2, NoAddition DEF Atomic!IInv
<1> QED BY <1>3, <1>4

\* A thread reads its node and adds.
LEMMA AtomicThread ==
  ASSUME Atomic!IInv, NEW t \in Atomic!Ids, Atomic!EntryAll(t) \/ Atomic!Tsum(t)
  PROVE  Atomic!IInv'
<1>1. /\ Atomic!TypeOK /\ Atomic!List /\ Atomic!Rounds /\ Atomic!NoAddLost
      /\ UNCHANGED <<main, threads, freed, join_fn>>
  BY DEF Atomic!IInv, Atomic!EntryAll, Atomic!Tsum
<1>2. Atomic!Main \notin Atomic!Ids /\ pc[t] \in {"entry", "run"}
  BY CountersAssumption DEF Atomic!Main, Atomic!Ids, Atomic!EntryAll, Atomic!Tsum
<1>3. CASE UNCHANGED <<sum, i>>
  <2>1. \/ pc[t] = "entry" /\ pc' = [pc EXCEPT ![t] = "run"]
        \/ pc[t] = "run" /\ pc' = [pc EXCEPT ![t] = "done"] /\ i[t] = AtomicN
    BY <1>1, <1>3, CountersAssumption DEF Atomic!EntryAll, Atomic!Tsum, Atomic!TypeOK, Atomic!Add
  <2>2. Atomic!TypeOK' /\ Atomic!List'
    BY <1>1, <1>3, <2>1, SMTT(30) DEF Atomic!TypeOK, Atomic!List
  <2>3. Atomic!Rounds'
    BY <1>1, <1>2, <1>3, <2>1 DEF Atomic!Rounds, Atomic!TypeOK
  <2> QED BY <1>1, <1>3, <2>2, <2>3, NoAddition DEF Atomic!IInv
<1>4. CASE Atomic!Add(t) /\ UNCHANGED pc /\ pc[t] = "run"
  <2>1. /\ Atomic!NoAddLost' /\ sum' \in Nat
        /\ i' = [i EXCEPT ![t] = i[t] + 1]
        /\ i' \in [Atomic!Ids \cup {Atomic!Main} -> 0 .. AtomicN]
    BY <1>1, <1>4, OneAddition
  <2>2. Atomic!TypeOK' /\ Atomic!List'
    BY <1>1, <1>4, <2>1 DEF Atomic!TypeOK, Atomic!List
  <2>3. Atomic!Rounds'
    BY <1>1, <1>2, <1>4, <2>1 DEF Atomic!Rounds, Atomic!TypeOK
  <2> QED BY <2>1, <2>2, <2>3 DEF Atomic!IInv
<1> QED BY <1>3, <1>4 DEF Atomic!EntryAll, Atomic!Tsum

LEMMA AtomicNext == Atomic!IInv /\ [Atomic!Next]_Atomic!vars => Atomic!IInv'
<1> SUFFICES ASSUME Atomic!IInv, [Atomic!Next]_Atomic!vars PROVE Atomic!IInv'
  OBVIOUS
<1>1. CASE UNCHANGED Atomic!vars
  BY <1>1, NoAddition DEF Atomic!vars, Atomic!IInv, Atomic!TypeOK, Atomic!List, Atomic!Rounds
<1> QED BY <1>1, AtomicCreate, AtomicMoves, AtomicFree, AtomicJoinFn, AtomicThread
        DEF Atomic!Next, Atomic!MainThread

\* What is freed has been read, and at the end every pair is there.
LEMMA AtomicExit == Atomic!IInv => Atomic!ReadsLiveNode /\ Atomic!ExitsClean
<1> SUFFICES ASSUME Atomic!IInv PROVE Atomic!ReadsLiveNode /\ Atomic!ExitsClean
  OBVIOUS
<1>1. Atomic!TypeOK /\ Atomic!List /\ Atomic!Rounds /\ Atomic!NoAddLost
  BY DEF Atomic!IInv
<1>2. Atomic!ReadsLiveNode
  BY <1>1 DEF Atomic!ReadsLiveNode, Atomic!List
<1>3. ASSUME main = "exit" PROVE freed = Atomic!Ids /\ threads = <<>> /\ sum = (K + 1) * AtomicN
  <2>1. /\ threads = <<>> /\ Len(threads) = 0
        /\ \A t \in Atomic!Ids : t \in freed /\ pc[t] = "done" /\ t > 0
    BY <1>1, <1>3, EmptySeq DEF Atomic!List, Atomic!TypeOK, Atomic!Ids
  <2>2. \A t \in Atomic!Ids \cup {Atomic!Main} : i[t] = AtomicN
    BY <1>1, <1>3, <2>1 DEF Atomic!Rounds
  <2>3. Atomic!Additions = (Atomic!Ids \cup {Atomic!Main}) \X (0 .. AtomicN - 1)
    BY <2>2, CountersAssumption DEF Atomic!Additions
  <2> QED BY <1>1, <2>1, <2>3, AdditionsFinite, SameCardinality DEF Atomic!NoAddLost, Atomic!TypeOK
<1> QED BY <1>2, <1>3 DEF Atomic!ExitsClean

-----------------------------------------------------------------------------
\* mandelbrot.c.

\* The sets of slots are finite, so their cardinalities are numbers.
LEMMA SlotsFinite ==
  ASSUME NEW S \in SUBSET Mandel!Slots
  PROVE  IsFiniteSet(S) /\ Cardinality(S) \in Nat /\ Cardinality(S) <= NTHREAD
<1>1. IsFiniteSet(Mandel!Slots) /\ Cardinality(Mandel!Slots) = NTHREAD
  BY MandelAssumption, FS_Interval DEF Mandel!Slots
<1> QED BY <1>1, FS_Subset, FS_CardinalityType

LEMMA CreatedNumber == Mandel!Created \in Nat /\ Mandel!Created <= NTHREAD
<1>1. Mandel!Created = Cardinality({t \in Mandel!Slots : pc[t] # "new"})
  BY SameCardinality DEF Mandel!Created
<1> QED BY <1>1, SlotsFinite

LEMMA MandelInit == Mandel!Init => Mandel!IInv
<1> SUFFICES ASSUME Mandel!Init PROVE Mandel!IInv
  OBVIOUS
<1>1. Mandel!TypeOK
  <2>1. 0 \in 0 .. W
    BY MandelAssumption
  <2>2. /\ pc \in [Mandel!Slots -> {"new", "draw", "load", "store", "done"}]
        /\ i \in [Mandel!Slots -> 0 .. W] /\ reg \in [Mandel!Slots -> Nat]
    BY <2>1 DEF Mandel!Init
  <2> QED BY <2>2 DEF Mandel!Init, Mandel!TypeOK
<1>2. {t \in Mandel!Slots : pc[t] # "new"} = {} /\ Mandel!Through = {}
  BY DEF Mandel!Init, Mandel!Through
<1>3. Mandel!Created = 0 /\ Mandel!Cardinality(Mandel!Through) = 0
  BY <1>2, FS_EmptySet, SameCardinality DEF Mandel!Created
<1>4. Mandel!Pool
  BY <1>3, MandelAssumption DEF Mandel!Init, Mandel!Pool, Mandel!Slots
<1>5. Mandel!Columns
  BY MandelAssumption DEF Mandel!Init, Mandel!Columns, Mandel!Slots
<1>6. Mandel!NeverAhead /\ Mandel!Saved
  BY <1>3 DEF Mandel!Init, Mandel!NeverAhead, Mandel!Saved
<1> QED BY <1>1, <1>4, <1>5, <1>6 DEF Mandel!IInv

\* A worker gets the next slot.
LEMMA MandelCreateWorker ==
  ASSUME Mandel!IInv, Mandel!CreateWorker
  PROVE  Mandel!IInv'
<1> DEFINE c == Mandel!Created
<1>1. /\ Mandel!TypeOK /\ Mandel!Pool /\ Mandel!Columns /\ Mandel!NeverAhead /\ Mandel!Saved
      /\ main = "create" /\ c < NT /\ UNCHANGED <<NT, i, reg, done, drawn, disp>>
      /\ c \in Nat /\ c <= NTHREAD /\ NT \in Int
  BY CreatedNumber, MandelAssumption DEF Mandel!IInv, Mandel!CreateWorker, Mandel!TypeOK
<1>2. disp = "new"
  BY <1>1 DEF Mandel!Pool
<1>3. CASE c < NTHREAD
  <2>1. /\ c + 1 \in Mandel!Slots /\ pc' = [pc EXCEPT ![c + 1] = "draw"] /\ UNCHANGED main
    BY <1>1, <1>3, MandelAssumption DEF Mandel!CreateWorker, Mandel!Slots
  <2>2. pc[c + 1] = "new"
    BY <1>1, <2>1 DEF Mandel!Pool
  <2>3. \A t \in Mandel!Slots : pc'[t] = IF t = c + 1 THEN "draw" ELSE pc[t]
    BY <1>1, <2>1 DEF Mandel!TypeOK
  <2> DEFINE S == {t \in Mandel!Slots : pc[t] # "new"}
  <2>4. S' = S \cup {c + 1} /\ c + 1 \notin S
    BY <2>1, <2>2, <2>3
  <2>5. IsFiniteSet(S) /\ c = Cardinality(S) /\ c' = Cardinality(S')
    BY SlotsFinite, SameCardinality DEF Mandel!Created
  <2>6. c' = c + 1
    BY <2>4, <2>5, FS_AddElement
  <2>7. Mandel!Through' = Mandel!Through
    BY <2>2, <2>3 DEF Mandel!Through
  <2>8. Mandel!TypeOK'
    BY <1>1, <2>1 DEF Mandel!TypeOK
  <2>9. Mandel!Pool'
    <3>1. \A t \in Mandel!Slots : pc'[t] # "new" <=> t <= c'
      BY <1>1, <2>3, <2>6 DEF Mandel!Pool, Mandel!Slots
    <3> QED BY <1>1, <1>2, <2>1, <2>6, <3>1 DEF Mandel!Pool
  <2>10. Mandel!Columns'
    BY <1>1, <2>2, <2>3, MandelAssumption DEF Mandel!Columns, Mandel!belongs, Mandel!TypeOK
  <2>11. Mandel!NeverAhead' /\ Mandel!Saved'
    BY <1>1, <1>2, <2>3, <2>7 DEF Mandel!NeverAhead, Mandel!Saved
  <2> QED BY <2>8, <2>9, <2>10, <2>11 DEF Mandel!IInv
<1>4. CASE ~(c < NTHREAD)
  <2>1. main' = "abort" /\ UNCHANGED pc
    BY <1>4 DEF Mandel!CreateWorker
  <2>2. c' = c /\ Mandel!Through' = Mandel!Through
    BY <2>1 DEF Mandel!Created, Mandel!Through
  <2>3. Mandel!TypeOK' /\ Mandel!Pool' /\ Mandel!Saved'
    BY <1>1, <1>2, <2>1, <2>2 DEF Mandel!TypeOK, Mandel!Pool, Mandel!Saved
  <2>4. Mandel!Columns' /\ Mandel!NeverAhead'
    BY <1>1, <2>1, <2>2 DEF Mandel!Columns, Mandel!belongs, Mandel!NeverAhead
  <2> QED BY <2>3, <2>4 DEF Mandel!IInv
<1> QED BY <1>3, <1>4

\* The steps of main and of the display that leave the workers alone.  The
\* display saves when `done' is NT: as many workers are then through, and
\* there are no others.
LEMMA MandelOthers ==
  ASSUME Mandel!IInv,
         Mandel!CreateDisplay \/ Mandel!Join \/ Mandel!Tdisplay \/ Mandel!OpenFails
  PROVE  Mandel!IInv'
<1> DEFINE c == Mandel!Created
           S == {t \in Mandel!Slots : pc[t] # "new"}
<1>1. /\ Mandel!TypeOK /\ Mandel!Pool /\ Mandel!Columns /\ Mandel!NeverAhead /\ Mandel!Saved
      /\ UNCHANGED <<NT, pc, i, reg, done, drawn>>
      /\ c \in Nat /\ c <= NTHREAD /\ NT \in Int
  BY CreatedNumber, MandelAssumption
  DEF Mandel!IInv, Mandel!CreateDisplay, Mandel!Join, Mandel!Tdisplay, Mandel!OpenFails, Mandel!TypeOK
<1>2. c' = c /\ Mandel!Through' = Mandel!Through
  BY <1>1 DEF Mandel!Created, Mandel!Through
<1>3. Mandel!Columns' /\ Mandel!NeverAhead'
  BY <1>1, <1>2 DEF Mandel!Columns, Mandel!belongs, Mandel!NeverAhead
<1>4. Mandel!TypeOK'
  BY <1>1 DEF Mandel!TypeOK, Mandel!CreateDisplay, Mandel!Join, Mandel!Tdisplay, Mandel!Show,
              Mandel!Sleep, Mandel!Save, Mandel!OpenFails
<1>5. Mandel!Pool'
  <2>1. CASE Mandel!CreateDisplay
    BY <1>1, <1>2, <2>1 DEF Mandel!CreateDisplay, Mandel!Pool
  <2>2. CASE Mandel!Join \/ Mandel!Tdisplay \/ Mandel!OpenFails
    <3>1. disp # "new" /\ disp' # "new"
      BY <2>2 DEF Mandel!Join, Mandel!Tdisplay, Mandel!Show, Mandel!Sleep, Mandel!Save,
                  Mandel!OpenFails
    <3> QED BY <1>1, <1>2, <3>1 DEF Mandel!Pool
  <2> QED BY <2>1, <2>2
<1>6. Mandel!Saved'
  <2>1. CASE disp \in {"save", "done"} \/ disp' \notin {"save", "done"}
    BY <1>1, <2>1 DEF Mandel!Saved
  <2>2. CASE disp \notin {"save", "done"} /\ disp' \in {"save", "done"}
    <3>1. disp = "show" /\ done = NT
      BY <2>2 DEF Mandel!CreateDisplay, Mandel!Join, Mandel!Tdisplay, Mandel!Show,
                  Mandel!Sleep, Mandel!Save, Mandel!AllDone, Mandel!OpenFails
    <3>2. c = NT /\ NT \in Nat
      BY <1>1, <3>1 DEF Mandel!Pool, Mandel!TypeOK
    <3>3. /\ IsFiniteSet(S) /\ Cardinality(S) = c
          /\ Mandel!Through \subseteq S /\ Cardinality(Mandel!Through) \in Nat
      BY SlotsFinite, SameCardinality DEF Mandel!Created, Mandel!Through
    <3>4. Cardinality(Mandel!Through) = Cardinality(S)
      <4>1. Cardinality(Mandel!Through) <= Cardinality(S)
        BY <3>3, FS_Subset
      <4>2. NT <= Cardinality(Mandel!Through)
        BY <1>1, <3>1, SameCardinality DEF Mandel!NeverAhead
      <4> QED BY <3>2, <3>3, <4>1, <4>2
    <3>5. Mandel!Through = S
      BY <3>3, <3>4, FS_Subset
    <3> QED BY <1>1, <3>2, <3>5 DEF Mandel!Saved, Mandel!Through
  <2> QED BY <2>1, <2>2
<1> QED BY <1>3, <1>4, <1>5, <1>6 DEF Mandel!IInv

\* What the steps of a worker have in common: no slot is taken or given back,
\* the display has not saved, and for the other slots nothing changes.
LEMMA MandelWorkerFrame ==
  ASSUME Mandel!IInv, NEW t \in Mandel!Slots, NEW to \in {"draw", "load", "store", "done"},
         pc[t] \in {"draw", "load", "store"}, pc' = [pc EXCEPT ![t] = to],
         main' \in {main, "fpe"}, UNCHANGED <<NT, disp>>
  PROVE  /\ Mandel!Pool' /\ Mandel!Saved'
         /\ \A u \in Mandel!Slots : pc'[u] = IF u = t THEN to ELSE pc[u]
         /\ pc' \in [Mandel!Slots -> {"new", "draw", "load", "store", "done"}]
         /\ \A x \in 0 .. W - 1, u \in Mandel!Slots :
               Mandel!belongs(x, u - 1)' <=> Mandel!belongs(x, u - 1)
<1>1. Mandel!TypeOK /\ Mandel!Pool /\ Mandel!Saved
  BY DEF Mandel!IInv
<1>2. \A u \in Mandel!Slots : pc'[u] = IF u = t THEN to ELSE pc[u]
  BY <1>1 DEF Mandel!TypeOK
<1>3. {u \in Mandel!Slots : pc'[u] # "new"} = {u \in Mandel!Slots : pc[u] # "new"}
  BY <1>2
<1>4. Mandel!Created' = Mandel!Created
  BY <1>3 DEF Mandel!Created
<1>5. Mandel!Pool'
  <2>1. \A u \in Mandel!Slots : pc'[u] # "new" <=> u <= Mandel!Created'
    BY <1>1, <1>2, <1>4 DEF Mandel!Pool
  <2> QED BY <1>1, <1>4, <2>1 DEF Mandel!Pool
<1>6. Mandel!Saved'
  BY <1>1 DEF Mandel!Saved
<1>7. pc' \in [Mandel!Slots -> {"new", "draw", "load", "store", "done"}]
  BY <1>1 DEF Mandel!TypeOK
<1>8. \A x \in 0 .. W - 1, u \in Mandel!Slots :
         Mandel!belongs(x, u - 1)' <=> Mandel!belongs(x, u - 1)
  BY DEF Mandel!belongs
<1> QED BY <1>2, <1>5, <1>6, <1>7, <1>8

LEMMA MandelDraw ==
  ASSUME Mandel!IInv, NEW t \in Mandel!Slots, Mandel!Draw(t)
  PROVE  Mandel!IInv'
<1> DEFINE to == IF i[t] + 1 < W THEN "draw" ELSE "load"
<1>1. /\ Mandel!TypeOK /\ Mandel!Columns /\ Mandel!NeverAhead
      /\ pc[t] = "draw" /\ pc' = [pc EXCEPT ![t] = to] /\ UNCHANGED <<NT, main, reg, done, disp>>
      /\ W \div NT # 0 /\ i[t] < W /\ i' = [i EXCEPT ![t] = i[t] + 1]
      /\ drawn' = IF Mandel!belongs(i[t], t - 1) THEN drawn \cup {<<i[t], t>>} ELSE drawn
      /\ i[t] \in 0 .. W - 1
  BY MandelAssumption DEF Mandel!IInv, Mandel!Draw, Mandel!Goto, Mandel!TypeOK
<1>2. /\ Mandel!Pool' /\ Mandel!Saved'
      /\ \A u \in Mandel!Slots : pc'[u] = IF u = t THEN to ELSE pc[u]
      /\ pc' \in [Mandel!Slots -> {"new", "draw", "load", "store", "done"}]
      /\ \A x \in 0 .. W - 1, u \in Mandel!Slots :
            Mandel!belongs(x, u - 1)' <=> Mandel!belongs(x, u - 1)
  BY <1>1, MandelWorkerFrame
<1>3. \A u \in Mandel!Slots : i'[u] = IF u = t THEN i[t] + 1 ELSE i[u]
  BY <1>1 DEF Mandel!TypeOK
<1>4. Mandel!TypeOK'
  <2>1. i[t] + 1 \in 0 .. W
    BY <1>1, MandelAssumption
  <2>2. i' \in [Mandel!Slots -> 0 .. W]
    BY <1>1, <2>1 DEF Mandel!TypeOK
  <2>3. drawn' \subseteq (0 .. W - 1) \X Mandel!Slots
    BY <1>1 DEF Mandel!TypeOK
  <2> QED BY <1>1, <1>2, <2>2, <2>3 DEF Mandel!TypeOK
<1>5. Mandel!Columns'
  <2>1. ASSUME NEW u \in Mandel!Slots
        PROVE  /\ pc'[u] = "new" => i'[u] = 0
               /\ pc'[u] = "draw" => i'[u] < W
               /\ pc'[u] \in {"load", "store", "done"} => i'[u] = W /\ W \div NT' # 0
    <3>1. CASE u = t
      BY <1>1, <1>2, <1>3, <3>1, MandelAssumption
    <3>2. CASE u # t
      BY <1>1, <1>2, <1>3, <3>2 DEF Mandel!Columns
    <3> QED BY <3>1, <3>2
  <2>2. ASSUME NEW x \in 0 .. W - 1, NEW u \in Mandel!Slots
        PROVE  <<x, u>> \in drawn' <=> x < i'[u] /\ Mandel!belongs(x, u - 1)'
    <3>1. <<x, u>> \in drawn <=> x < i[u] /\ Mandel!belongs(x, u - 1)
      BY <1>1 DEF Mandel!Columns
    <3>2. CASE u # t
      BY <1>1, <1>2, <1>3, <3>1, <3>2
    <3>3. CASE u = t /\ x = i[t]
      BY <1>1, <1>2, <1>3, <3>1, <3>3
    <3>4. CASE u = t /\ x # i[t]
      <4>1. <<x, u>> \in drawn' <=> <<x, u>> \in drawn
        BY <1>1, <3>4
      <4>2. x < i'[u] <=> x < i[u]
        BY <1>1, <1>3, <3>4, MandelAssumption
      <4> QED BY <1>2, <3>1, <4>1, <4>2
    <3> QED BY <3>2, <3>3, <3>4
  <2> QED BY <2>1, <2>2 DEF Mandel!Columns
<1>6. Mandel!NeverAhead'
  <2>1. Mandel!Through' = Mandel!Through
    BY <1>1, <1>2 DEF Mandel!Through
  <2> QED BY <1>1, <1>2, <2>1 DEF Mandel!NeverAhead
<1> QED BY <1>2, <1>4, <1>5, <1>6 DEF Mandel!IInv

LEMMA MandelDivideByZero ==
  ASSUME Mandel!IInv, NEW t \in Mandel!Slots, Mandel!DivideByZero(t)
  PROVE  Mandel!IInv'
<1>1. /\ Mandel!TypeOK /\ Mandel!Columns /\ Mandel!NeverAhead
      /\ pc[t] = "draw" /\ pc' = [pc EXCEPT ![t] = "draw"] /\ main' = "fpe"
      /\ UNCHANGED <<NT, i, reg, done, drawn, disp>>
  BY DEF Mandel!IInv, Mandel!DivideByZero, Mandel!Goto
<1>2. Mandel!Pool' /\ Mandel!Saved'
  BY <1>1, MandelWorkerFrame
<1>3. UNCHANGED pc
  BY <1>1 DEF Mandel!TypeOK
<1>4. Mandel!TypeOK' /\ Mandel!Columns'
  BY <1>1, <1>3 DEF Mandel!TypeOK, Mandel!Columns, Mandel!belongs
<1>5. Mandel!NeverAhead'
  BY <1>1, <1>3 DEF Mandel!NeverAhead, Mandel!Through
<1> QED BY <1>2, <1>4, <1>5 DEF Mandel!IInv

\* The two halves of done++: what a worker has read is at most the number of
\* workers that were through then, and it is through itself when it stores.
LEMMA MandelCount ==
  ASSUME Mandel!IInv, NEW t \in Mandel!Slots, Mandel!Load(t) \/ Mandel!Store(t)
  PROVE  Mandel!IInv'
<1> DEFINE to == IF Mandel!Load(t) THEN "store" ELSE "done"
           T == Mandel!Through
<1>1. /\ Mandel!TypeOK /\ Mandel!Columns /\ Mandel!NeverAhead
      /\ pc[t] \in {"load", "store"} /\ pc' = [pc EXCEPT ![t] = to]
      /\ UNCHANGED <<NT, main, i, drawn, disp>>
  BY DEF Mandel!IInv, Mandel!Load, Mandel!Store, Mandel!Goto
<1>2. /\ Mandel!Pool' /\ Mandel!Saved'
      /\ \A u \in Mandel!Slots : pc'[u] = IF u = t THEN to ELSE pc[u]
      /\ pc' \in [Mandel!Slots -> {"new", "draw", "load", "store", "done"}]
      /\ \A x \in 0 .. W - 1, u \in Mandel!Slots :
            Mandel!belongs(x, u - 1)' <=> Mandel!belongs(x, u - 1)
  BY <1>1, MandelWorkerFrame
<1>3. Mandel!Columns'
  <2>1. \A u \in Mandel!Slots :
           /\ pc'[u] = "new" => i'[u] = 0
           /\ pc'[u] = "draw" => i'[u] < W
           /\ pc'[u] \in {"load", "store", "done"} => i'[u] = W /\ W \div NT' # 0
    BY <1>1, <1>2 DEF Mandel!Columns
  <2>2. \A x \in 0 .. W - 1, u \in Mandel!Slots :
           <<x, u>> \in drawn' <=> x < i'[u] /\ Mandel!belongs(x, u - 1)'
    BY <1>1, <1>2 DEF Mandel!Columns
  <2> QED BY <2>1, <2>2 DEF Mandel!Columns
<1>4. /\ IsFiniteSet(T) /\ Cardinality(T) \in Nat
      /\ Mandel!Cardinality(T) = Cardinality(T) /\ Mandel!Cardinality(T') = Cardinality(T')
  BY SlotsFinite, SameCardinality DEF Mandel!Through
<1>5. CASE Mandel!Load(t)
  <2>1. reg' = [reg EXCEPT ![t] = done] /\ UNCHANGED done /\ pc[t] = "load"
    BY <1>5 DEF Mandel!Load, Mandel!Goto
  <2>2. T' = T
    BY <1>2, <1>5, <2>1 DEF Mandel!Through
  <2>3. \A u \in Mandel!Slots : reg'[u] = IF u = t THEN done ELSE reg[u]
    BY <1>1, <2>1 DEF Mandel!TypeOK
  <2>4. Mandel!TypeOK'
    BY <1>1, <1>2, <2>1 DEF Mandel!TypeOK
  <2>5. Mandel!NeverAhead'
    BY <1>1, <1>2, <1>5, <2>1, <2>2, <2>3 DEF Mandel!NeverAhead
  <2> QED BY <1>2, <1>3, <2>4, <2>5 DEF Mandel!IInv
<1>6. CASE ~Mandel!Load(t)
  <2>1. Mandel!Store(t) /\ done' = reg[t] + 1 /\ UNCHANGED reg /\ pc[t] = "store"
    BY <1>6 DEF Mandel!Store, Mandel!Goto
  <2>2. T' = T \cup {t} /\ t \notin T
    BY <1>2, <1>6, <2>1 DEF Mandel!Through
  <2>3. Cardinality(T') = Cardinality(T) + 1
    BY <1>4, <2>2, FS_AddElement
  <2>4. Mandel!TypeOK'
    BY <1>1, <1>2, <2>1 DEF Mandel!TypeOK
  <2>5. Mandel!NeverAhead'
    <3>1. reg[t] \in Nat /\ reg[t] <= Cardinality(T)
      BY <1>1, <1>4, <2>1 DEF Mandel!NeverAhead, Mandel!TypeOK
    <3>2. done' <= Mandel!Cardinality(T')
      BY <1>4, <2>1, <2>3, <3>1
    <3>3. ASSUME NEW u \in Mandel!Slots, pc'[u] = "store"
          PROVE  reg'[u] <= Mandel!Cardinality(T')
      <4>1. pc[u] = "store" /\ reg[u] \in Nat /\ reg[u] <= Cardinality(T)
        BY <1>1, <1>2, <1>4, <1>6, <3>3 DEF Mandel!NeverAhead, Mandel!TypeOK
      <4> QED BY <1>4, <2>1, <2>3, <4>1
    <3> QED BY <3>2, <3>3 DEF Mandel!NeverAhead
  <2> QED BY <1>2, <1>3, <2>4, <2>5 DEF Mandel!IInv
<1> QED BY <1>5, <1>6

LEMMA MandelNext == Mandel!IInv /\ [Mandel!Next]_Mandel!vars => Mandel!IInv'
<1> SUFFICES ASSUME Mandel!IInv, [Mandel!Next]_Mandel!vars PROVE Mandel!IInv'
  OBVIOUS
<1>1. CASE UNCHANGED Mandel!vars
  <2>1. UNCHANGED <<NT, main, pc, i, reg, done, drawn, disp>>
    BY <1>1 DEF Mandel!vars
  <2>2. Mandel!TypeOK' /\ Mandel!Saved'
    BY <2>1 DEF Mandel!IInv, Mandel!TypeOK, Mandel!Saved
  <2>3. Mandel!Pool' /\ Mandel!NeverAhead'
    BY <2>1 DEF Mandel!IInv, Mandel!Pool, Mandel!Created, Mandel!NeverAhead, Mandel!Through
  <2>4. Mandel!Columns'
    BY <2>1 DEF Mandel!IInv, Mandel!Columns, Mandel!belongs
  <2> QED BY <2>2, <2>3, <2>4 DEF Mandel!IInv
<1>2. CASE Mandel!Main \/ Mandel!Tdisplay \/ Mandel!OpenFails
  BY <1>2, MandelCreateWorker, MandelOthers DEF Mandel!Main
<1>3. ASSUME NEW t \in Mandel!Slots, Mandel!Tworker(t) PROVE Mandel!IInv'
  BY <1>3, MandelDraw, MandelDivideByZero, MandelCount DEF Mandel!Tworker
<1> QED BY <1>1, <1>2, <1>3 DEF Mandel!Next

\* With b columns to a worker, the columns of the workers 0 .. n-1 are the
\* first n * b.
LEMMA Quotient ==
  ASSUME NEW x \in Nat, NEW b \in Nat, b > 0, NEW m \in Nat
  PROVE  /\ x \div b \in Nat /\ b * (x \div b) <= x
         /\ x \div b < m <=> x < m * b
<1> DEFINE q == x \div b
<1>1. q \in Nat /\ q * b <= x /\ x < (q + 1) * b
  BY SMT
<1>2. CASE q < m
  <2>1. (q + 1) * b <= m * b
    BY <1>1, <1>2
  <2> QED BY <1>1, <1>2, <2>1
<1>3. CASE ~(q < m)
  <2>1. m * b <= q * b
    BY <1>1, <1>3
  <2> QED BY <1>1, <1>3, <2>1
<1> QED BY <1>1, <1>2, <1>3

LEMMA MandelPicture == Mandel!IInv => Mandel!ImageComplete
<1> SUFFICES ASSUME Mandel!IInv, disp \in {"save", "done"}
             PROVE  /\ \A t \in Mandel!Slots : pc[t] \in {"new", "done"}
                    /\ {d[1] : d \in drawn}
                          = 0 .. (IF NT = 0 THEN 0 ELSE NT * (W \div NT)) - 1
                    /\ \A d, e \in drawn : d[1] = e[1] => d = e
  BY DEF Mandel!ImageComplete
<1> DEFINE b == W \div NT
<1>1. /\ Mandel!TypeOK /\ Mandel!Pool /\ Mandel!Columns /\ Mandel!Saved
      /\ NT \in Nat /\ W \in Nat /\ W > 0 /\ NTHREAD \in Nat
  BY MandelAssumption DEF Mandel!IInv, Mandel!Saved, Mandel!TypeOK
<1>2. \A t \in Mandel!Slots : pc[t] \in {"new", "done"} /\ (pc[t] = "done" <=> t <= NT)
  BY <1>1 DEF Mandel!Pool, Mandel!Saved
<1>3. NT <= NTHREAD
  BY <1>1, CreatedNumber DEF Mandel!Pool
<1>4. \A d \in drawn : /\ d[1] \in 0 .. W - 1 /\ d[2] \in 1 .. NTHREAD /\ d = <<d[1], d[2]>>
                       /\ d[2] <= NT /\ d[1] \div b = d[2] - 1
  <2> SUFFICES ASSUME NEW d \in drawn
               PROVE  /\ d[1] \in 0 .. W - 1 /\ d[2] \in 1 .. NTHREAD /\ d = <<d[1], d[2]>>
                      /\ d[2] <= NT /\ d[1] \div b = d[2] - 1
    OBVIOUS
  <2>1. d[1] \in 0 .. W - 1 /\ d[2] \in Mandel!Slots /\ d = <<d[1], d[2]>>
    BY <1>1 DEF Mandel!TypeOK
  <2>2. d[1] < i[d[2]] /\ d[1] \div b = d[2] - 1
    BY <1>1, <2>1 DEF Mandel!Columns, Mandel!belongs
  <2>3. pc[d[2]] # "new"
    BY <1>1, <2>1, <2>2 DEF Mandel!Columns
  <2> QED BY <1>2, <2>1, <2>2, <2>3 DEF Mandel!Slots
<1>5. CASE NT = 0
  <2>1. drawn = {}
    BY <1>4, <1>5
  <2> QED BY <1>2, <1>5, <2>1
<1>6. CASE NT # 0
  <2>1. b # 0
    <3>1. 1 \in Mandel!Slots /\ pc[1] = "done"
      BY <1>1, <1>2, <1>3, <1>6 DEF Mandel!Slots
    <3> QED BY <1>1, <3>1 DEF Mandel!Columns
  <2>2. b \in Nat /\ b > 0 /\ NT * b <= W /\ NT * b \in Nat
    BY <1>1, <1>6, <2>1, Quotient
  <2>3. ASSUME NEW x \in {d[1] : d \in drawn} PROVE x \in 0 .. NT * b - 1
    <3>1. x \in 0 .. W - 1 /\ x \div b < NT
      BY <1>1, <1>4, <2>3
    <3>2. x \in Nat /\ x < NT * b
      <4> HIDE DEF b
      <4> QED BY <1>1, <2>2, <3>1, Quotient
    <3> QED BY <2>2, <3>1, <3>2
  <2>4. ASSUME NEW x \in 0 .. NT * b - 1 PROVE x \in {d[1] : d \in drawn}
    <3> DEFINE t == x \div b + 1
    <3>1. x \in Nat /\ x < NT * b /\ x \in 0 .. W - 1
      BY <1>1, <2>2
    <3>2. x \div b \in Nat /\ x \div b < NT
      BY <1>1, <2>2, <3>1, Quotient
    <3>3. t \in Mandel!Slots /\ t <= NT /\ t - 1 = x \div b
      BY <1>1, <1>3, <3>2 DEF Mandel!Slots
    <3> HIDE DEF t
    <3>4. i[t] = W
      BY <1>1, <1>2, <3>3 DEF Mandel!Columns
    <3>5. <<x, t>> \in drawn
      BY <1>1, <3>1, <3>3, <3>4 DEF Mandel!Columns, Mandel!belongs
    <3> QED BY <3>5
  <2>5. {d[1] : d \in drawn} = 0 .. (IF NT = 0 THEN 0 ELSE NT * (W \div NT)) - 1
    BY <1>6, <2>3, <2>4
  <2>6. \A d, e \in drawn : d[1] = e[1] => d = e
    <3> SUFFICES ASSUME NEW d \in drawn, NEW e \in drawn, d[1] = e[1] PROVE d = e
      OBVIOUS
    <3>1. d[2] - 1 = e[2] - 1 /\ d[2] \in Int /\ e[2] \in Int
      BY <1>4
    <3> QED BY <1>4, <3>1
  <2> QED BY <1>2, <2>5, <2>6
<1> QED BY <1>5, <1>6

-----------------------------------------------------------------------------
\* The suite.

\* Every program starts in its own invariant.
LEMMA SuiteInit == Init => IInv
<1> SUFFICES ASSUME Init PROVE IInv
  OBVIOUS
<1>1. CASE prog = "mandelbrot" /\ Mandel!Init /\ NoWaiting
  BY <1>1, MandelInit DEF IInv, NoWaiting, NoRetry
<1>2. CASE prog = "sum-atomic" /\ Atomic!Init /\ NoWaiting
  BY <1>2, AtomicInit DEF IInv, NoWaiting, NoRetry
<1>3. CASE prog = "sum" /\ Race!Init /\ NoWaiting
  BY <1>3, RaceInit DEF IInv, NoWaiting, NoRetry
<1>4. CASE prog = "spin_lock" /\ Spin!Init /\ NoWaiting
  BY <1>4, SpinInit DEF IInv, NoWaiting, NoRetry
<1>5. CASE prog = "pc" /\ Retry!Init
  BY <1>5, RetryInit DEF IInv
<1>6. CASE prog = "sem" /\ Sem!Init /\ NoRetry
  BY <1>6, SemInit DEF IInv, NoRetry
<1>7. CASE prog = "simulate-deadlock" /\ NoRetry
  BY <1>7 DEF IInv, NoRetry
<1> QED BY <1>1, <1>2, <1>3, <1>4, <1>5, <1>6, <1>7 DEF Init

\* A step of the suite is a step of the program that was started, and prints
\* nothing unless that is pc.c.
LEMMA SuiteStep ==
  ASSUME [Next]_vars
  PROVE  /\ UNCHANGED prog
         /\ prog = "sum-atomic" => [Atomic!Next]_Atomic!vars
         /\ prog = "sum" => [Race!Next]_Race!vars
         /\ prog = "spin_lock" => [Spin!Next]_Spin!vars
         /\ prog = "mandelbrot" => [Mandel!Next]_Mandel!vars
         /\ prog = "sem" => [Sem!Next]_Sem!vars
         /\ prog = "pc" => [Retry!Next]_Retry!vars
         /\ prog # "pc" => UNCHANGED depth
<1>1. CASE UNCHANGED vars
  BY <1>1 DEF vars, ofRetry, ofSem, ofMandel, Atomic!vars, Race!vars, Spin!vars, Mandel!vars,
              Sem!vars, Retry!vars
<1>2. CASE Next
  BY <1>2 DEF Next, AtomicStep, RaceStep, SpinStep, RetryStep, SemStep, LocksStep, MandelStep,
              Waiting, ofRetry
<1> QED BY <1>1, <1>2

\* So every step keeps the invariant.
LEMMA SuiteNext == IInv /\ [Next]_vars => IInv'
<1> SUFFICES ASSUME IInv, [Next]_vars PROVE IInv'
  OBVIOUS
<1>1. UNCHANGED prog
  BY SuiteStep
<1>2. prog = "sum-atomic" => Atomic!IInv'
  BY SuiteStep, AtomicNext DEF IInv
<1>3. prog = "sum" => Race!IInv'
  BY SuiteStep, RaceNext DEF IInv
<1>4. prog = "spin_lock" => Spin!IInv'
  BY SuiteStep, SpinNext DEF IInv
<1>5. prog = "mandelbrot" => Mandel!IInv'
  BY SuiteStep, MandelNext DEF IInv
<1>6. prog = "sem" => Sem!IInv'
  BY SuiteStep, SemNext DEF IInv
<1>7. IF prog = "pc" THEN Retry!IInv' ELSE depth' = 0
  BY SuiteStep, RetryNext DEF IInv
<1> QED BY <1>1, <1>2, <1>3, <1>4, <1>5, <1>6, <1>7 DEF IInv

\* The seven programs keep the invariants above, for any number of threads,
\* rounds, columns, slots and tokens.
THEOREM Invariance == Spec => []IInv
<1>1. Init => IInv
  BY SuiteInit
<1>2. IInv /\ [Next]_vars => IInv'
  BY SuiteNext
<1> QED BY <1>1, <1>2, PTL DEF Spec

\* sum-atomic.c on thread.h: a node is never freed before its thread has read
\* it, and at the end every node is freed and sum is (K + 1) * N.
THEOREM NodesAndSum == Spec => []ExitsClean
<1>1. IInv => ExitsClean
  BY AtomicExit DEF IInv, ExitsClean
<1> QED BY <1>1, Invariance, PTL

\* sum.cpp, whatever N is: at most 2N is printed, and at least two of the
\* additions survive (all of one loop when N is 0 or 1).
THEOREM LostUpdates == Spec => []PrintedSum
<1>1. IInv => PrintedSum
  BY RaceBounds DEF IInv, PrintedSum
<1> QED BY <1>1, Invariance, PTL

\* spin_lock.rs, whatever the number of rounds: with the release in order no
\* addition is lost; if the writes may come late, at least two survive (one
\* if there is one round), and the counter is never too large.
THEOREM LostIncrements == Spec => []PrintedCounter
<1>1. IInv => PrintedCounter
  BY SpinBounds DEF IInv, PrintedCounter
<1> QED BY <1>1, Invariance, PTL

\* mandelbrot.c: for every argument, every width and every size of the pool,
\* the saved picture has all of the first NT * (W / NT) columns, each drawn by
\* one worker, and nothing else, however many additions to `done' are lost.
THEOREM WholePicture == Spec => []ImageComplete
<1>1. IInv => ImageComplete
  BY MandelPicture DEF IInv, ImageComplete
<1> QED BY <1>1, Invariance, PTL

\* sem.py, for any number of threads and tokens: no red state, and each waiter
\* is in the queue once, whatever V hands over.
THEOREM HandOver == Spec => []QueueIsSound
<1>1. IInv => QueueIsSound
  BY SemNeverRed DEF IInv, QueueIsSound
<1> QED BY <1>1, Invariance, PTL

\* pc.c prints a prefix of a balanced text of depth at most n: every step of
\* the program is a step of Parens or prints nothing.
THEOREM RetryIsBalanced == Spec => OutputBalanced
<1>1. Init => Retry!ParenSpec!Init
  BY SuiteInit DEF IInv, Init, Retry!Init, Retry!ParenSpec!Init, NoWaiting, NoRetry
<1>2. IInv /\ [Next]_vars => [Retry!ParenSpec!Next]_depth
  BY SuiteStep, RetryPrints DEF IInv
<1> QED BY <1>1, <1>2, Invariance, PTL DEF Spec, OutputBalanced, Retry!OutputBalanced
=============================================================================
