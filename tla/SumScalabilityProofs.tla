------------------------ MODULE SumScalabilityProofs ------------------------
(***************************************************************************)
(* Proofs about sum-scalability-spin.c and -mutex.c for every N, every     *)
(* pool size and every argument.  `sum' is compared with the number of     *)
(* additions made, counted as a set of pairs <<thread, round>>.            *)
(***************************************************************************)
EXTENDS SumScalability, FiniteSetTheorems, TLAPS

\* With a positive argument n is a natural number.
LEMMA ShareType ==
  ASSUME TypeOK, nthread > 0
  PROVE  n \in Nat
<1>1. nthread \in Nat \ {0}
  BY SumAssumption DEF TypeOK
<1>2. N \div nthread \in Nat
  BY <1>1, SumAssumption
<1> QED BY <1>2 DEF n

\* The additions that can be made, and so those made, are finitely many.
LEMMA DoneFinite ==
  ASSUME TypeOK, nthread > 0
  PROVE  IsFiniteSet(Done)
<1>1. n \in Nat
  BY ShareType
<1>2. IsFiniteSet(Slots) /\ IsFiniteSet(0 .. n - 1)
  BY <1>1, SumAssumption, FS_Interval DEF Slots
<1>3. IsFiniteSet(Slots \X (0 .. n - 1))
  BY <1>2, FS_Product
<1> QED BY <1>3, FS_Subset DEF Done

\* Initially nothing is added.
LEMMA InitIInv == Init => IInv
<1> SUFFICES ASSUME Init PROVE IInv
  OBVIOUS
<1>1. TypeOK /\ Exclusion /\ LocalState /\ PoolState
  BY SumAssumption DEF Init, TypeOK, Exclusion, InCritical, LocalState, PoolState,
                       Slots, MainLabels, ThreadLabels
<1>2. Done = {}
  BY DEF Init, Done
<1>3. NoUpdateLost
  BY <1>2, FS_EmptySet DEF Init, NoUpdateLost
<1> QED BY <1>1, <1>3 DEF IInv

\* main() never touches the sum or a running thread.
LEMMA MainIInv ==
  ASSUME IInv, Main
  PROVE  IInv'
<1>1. /\ TypeOK /\ Exclusion /\ NoUpdateLost /\ LocalState /\ PoolState
      /\ UNCHANGED <<nthread, lock, sum, i, reg>>
      /\ n' = n
  BY DEF IInv, Main, ReadArgs, Create, Join, Assert, threadVars, n
<1> DEFINE Spawns == created < nthread /\ created < NTHREAD
<1>2. CASE ReadArgs \/ Assert \/ (Create /\ ~Spawns)
  <2>1. /\ UNCHANGED <<pc, created, index, status>>
        /\ \/ main = "argv" /\ main' = IF nthread = 0 THEN "fault" ELSE "create"
           \/ main = "assert" /\ main' \in {"cleanup", "aborted"}
           \/ main = "create" /\ main' = "join" /\ ~(created < nthread)
           \/ main = "create" /\ main' = "aborted"
    BY <1>2 DEF ReadArgs, Assert, Create
  <2>2. Done' = Done
    BY <1>1, <2>1 DEF Done
  <2>3. TypeOK' /\ Exclusion' /\ NoUpdateLost' /\ LocalState'
    BY <1>1, <2>1, <2>2 DEF TypeOK, MainLabels, Exclusion, InCritical, NoUpdateLost, LocalState
  <2>4. created \in Int /\ nthread \in Int /\ (main = "create" => 1 .. index - 1 = {})
    BY <1>1, SumAssumption DEF TypeOK, PoolState
  <2>5. PoolState'
    BY <1>1, <2>1, <2>4 DEF PoolState
  <2> QED BY <2>3, <2>5 DEF IInv
<1>3. ASSUME NEW at, NEW next, Join(at, next),
             \/ at = "join" /\ next = "assert"
             \/ at = "cleanup" /\ next = "exit"
      PROVE  IInv'
  <2>1. Done' = Done
    BY <1>1, <1>3 DEF Done, Join
  <2>2. Exclusion' /\ NoUpdateLost' /\ LocalState'
    BY <1>1, <1>3, <2>1 DEF Join, Exclusion, InCritical, NoUpdateLost, LocalState
  <2>3. CASE index <= NTHREAD
    <3>1. /\ index \in Slots /\ main = at /\ UNCHANGED <<main, created, pc>>
          /\ index' = index + 1
          /\ status[index] = "T_LIVE" => pc[index] = "done"
          /\ status' = [status EXCEPT ![index] =
                          IF status[index] = "T_LIVE" THEN "T_DEAD" ELSE status[index]]
      BY <1>1, <1>3, <2>3, SumAssumption DEF Join, TypeOK, Slots
    <3>2. TypeOK'
      BY <1>1, <3>1, SumAssumption DEF TypeOK, Slots
    <3>3. \A t \in Slots : status'[t] = IF t = index /\ status[t] = "T_LIVE"
                                          THEN "T_DEAD" ELSE status[t]
      BY <1>1, <3>1 DEF TypeOK
    <3>4. PoolState'
      BY <1>1, <1>3, <3>1, <3>3, SumAssumption DEF TypeOK, PoolState, Slots
    <3> QED BY <2>2, <3>2, <3>4 DEF IInv
  <2>4. CASE ~(index <= NTHREAD)
    <3>1. /\ index = NTHREAD + 1 /\ main = at /\ main' = next /\ index' = 1
          /\ UNCHANGED <<created, status, pc>>
      BY <1>1, <1>3, <2>4, SumAssumption DEF Join, TypeOK
    <3>2. TypeOK'
      BY <1>1, <1>3, <3>1, SumAssumption DEF TypeOK, MainLabels
    <3>3. PoolState'
      BY <1>1, <1>3, <3>1, SumAssumption DEF TypeOK, PoolState, Slots
    <3> QED BY <2>2, <3>2, <3>3 DEF IInv
  <2> QED BY <2>3, <2>4
<1>4. CASE Create /\ Spawns
  <2> DEFINE t == created + 1
  <2>1. /\ main = "create" /\ created < nthread /\ t \in Slots
        /\ created' = t /\ UNCHANGED <<main, index>>
        /\ status' = [status EXCEPT ![t] = "T_LIVE"]
        /\ pc' = [pc EXCEPT ![t] = "loop"]
    BY <1>1, <1>4, SumAssumption DEF Create, TypeOK, Slots
  <2>2. pc[t] = "free" /\ i[t] = 0
    BY <1>1, <2>1, SumAssumption DEF PoolState, LocalState, TypeOK, Slots
  <2>3. \A s \in Slots : /\ pc'[s] = IF s = t THEN "loop" ELSE pc[s]
                         /\ status'[s] = IF s = t THEN "T_LIVE" ELSE status[s]
    BY <1>1, <2>1 DEF TypeOK
  <2>4. TypeOK'
    BY <1>1, <2>1, SumAssumption DEF TypeOK, ThreadLabels, Slots
  <2>5. Done' = Done
    BY <1>1, <2>2, <2>3 DEF Done
  <2>6. n \in Nat
    BY <1>1, <2>1, ShareType, SumAssumption DEF TypeOK
  <2>7. Exclusion' /\ NoUpdateLost'
    BY <1>1, <2>2, <2>3, <2>5 DEF Exclusion, InCritical, NoUpdateLost
  <2>8. LocalState'
    BY <1>1, <2>2, <2>3, <2>6 DEF LocalState
  <2>9. PoolState'
    BY <1>1, <2>1, <2>3, SumAssumption DEF TypeOK, PoolState, Slots
  <2> QED BY <2>4, <2>7, <2>8, <2>9 DEF IInv
<1>5. Join("join", "assert") => IInv'
  BY <1>3
<1>6. Join("cleanup", "exit") => IInv'
  BY <1>3
<1> QED BY <1>2, <1>4, <1>5, <1>6 DEF Main

\* A thread's step loses no addition: the lock keeps the value it read current.
LEMMA TsumIInv ==
  ASSUME IInv, NEW t \in Slots, Tsum(t)
  PROVE  IInv'
<1>1. /\ TypeOK /\ Exclusion /\ NoUpdateLost /\ LocalState /\ PoolState
      /\ UNCHANGED <<nthread, main, created, index, status>>
      /\ n' = n
  BY DEF IInv, Tsum, mainVars, n
<1>2. pc[t] \notin {"free", "done"} /\ DOMAIN pc = Slots /\ DOMAIN i = Slots
  BY <1>1 DEF Tsum, Loop, Lock, Load, Store, Unlock, Goto, TypeOK
<1>3. nthread > 0
  BY <1>1, <1>2, SumAssumption DEF PoolState, TypeOK, Slots
<1>4. n \in Nat /\ IsFiniteSet(Done)
  BY <1>1, <1>3, ShareType, DoneFinite

<1>6. ASSUME pc' = [pc EXCEPT ![t] = pc'[t]], pc'[t] \in ThreadLabels \ {"free"}
      PROVE  PoolState'
  BY <1>1, <1>2, <1>6 DEF PoolState, TypeOK
<1>7. CASE Loop(t)
  <2>1. /\ pc[t] = "loop" /\ UNCHANGED <<lock, sum, i, reg>>
        /\ pc' = [pc EXCEPT ![t] = IF i[t] < n THEN "lock" ELSE "done"]
    BY <1>7 DEF Loop, Goto, threadVars
  <2>2. \A s \in Slots : pc'[s] = IF s # t THEN pc[s] ELSE IF i[t] < n THEN "lock" ELSE "done"
    BY <1>2, <2>1
  <2>3. Done' = Done
    BY <1>1, <2>1, <2>2 DEF Done
  <2>4. TypeOK' /\ Exclusion' /\ NoUpdateLost'
    BY <1>1, <2>1, <2>2, <2>3 DEF TypeOK, ThreadLabels, Exclusion, InCritical, NoUpdateLost
  <2>5. i[t] <= n /\ i[t] \in Nat
    BY <1>1, <2>1 DEF LocalState, TypeOK
  <2>6. LocalState'
    BY <1>1, <1>4, <2>1, <2>2, <2>5 DEF LocalState
  <2>7. PoolState'
    BY <1>6, <1>2, <2>1 DEF ThreadLabels
  <2> QED BY <2>4, <2>6, <2>7 DEF IInv
<1>8. CASE Lock(t)
  <2>1. /\ pc[t] = "lock" /\ lock = 0 /\ lock' = 1 /\ UNCHANGED <<sum, i, reg>>
        /\ pc' = [pc EXCEPT ![t] = "load"]
    BY <1>8 DEF Lock, Goto
  <2>2. \A s \in Slots : pc'[s] = IF s # t THEN pc[s] ELSE "load"
    BY <1>2, <2>1
  <2>3. Done' = Done
    BY <1>1, <2>1, <2>2 DEF Done
  <2>4. \A s \in Slots : ~InCritical(s)
    BY <1>1, <2>1 DEF Exclusion
  <2>5. TypeOK' /\ Exclusion' /\ NoUpdateLost'
    BY <1>1, <2>1, <2>2, <2>3, <2>4 DEF TypeOK, ThreadLabels, Exclusion, InCritical, NoUpdateLost
  <2>6. LocalState'
    BY <1>1, <2>1, <2>2 DEF LocalState
  <2>7. PoolState'
    BY <1>6, <1>2, <2>1 DEF ThreadLabels
  <2> QED BY <2>5, <2>6, <2>7 DEF IInv
<1>9. CASE Load(t)
  <2>1. /\ pc[t] = "load" /\ UNCHANGED <<lock, sum, i>>
        /\ reg' = [reg EXCEPT ![t] = sum]
        /\ pc' = [pc EXCEPT ![t] = "store"]
    BY <1>9 DEF Load, Goto
  <2>2. \A s \in Slots : /\ pc'[s] = IF s # t THEN pc[s] ELSE "store"
                         /\ reg'[s] = IF s # t THEN reg[s] ELSE sum
    BY <1>1, <2>1 DEF TypeOK
  <2>3. Done' = Done
    BY <1>1, <2>1, <2>2 DEF Done
  <2>4. \A s \in Slots : InCritical(s)' <=> InCritical(s)
    BY <2>1, <2>2 DEF InCritical
  <2>5. TypeOK' /\ Exclusion' /\ NoUpdateLost'
    BY <1>1, <2>1, <2>3, <2>4 DEF TypeOK, ThreadLabels, Exclusion, NoUpdateLost
  <2>6. LocalState'
    BY <1>1, <2>1, <2>2 DEF LocalState
  <2>7. PoolState'
    BY <1>6, <1>2, <2>1 DEF ThreadLabels
  <2> QED BY <2>5, <2>6, <2>7 DEF IInv
<1>10. CASE Store(t)
  <2>1. /\ pc[t] = "store" /\ UNCHANGED <<lock, i, reg>>
        /\ sum' = reg[t] + 1
        /\ pc' = [pc EXCEPT ![t] = "unlock"]
    BY <1>10 DEF Store, Goto
  <2>2. \A s \in Slots : pc'[s] = IF s # t THEN pc[s] ELSE "unlock"
    BY <1>2, <2>1
  <2>3. sum' = sum + 1 /\ i[t] \in 0 .. n - 1
    BY <1>1, <1>4, <2>1 DEF LocalState, TypeOK
  <2>4. Done' = Done \cup {<<t, i[t]>>} /\ <<t, i[t]>> \notin Done
    <3>1. <<t, i[t]>> \in Slots \X (0 .. n - 1)
      BY <2>3
    <3>2. \A d \in Slots \X (0 .. n - 1) : d = <<t, i[t]>> <=> d[1] = t /\ d[2] = i[t]
      OBVIOUS
    <3>3. \A d \in Slots \X (0 .. n - 1) : d \in Done' <=> d \in Done \/ d = <<t, i[t]>>
      BY <1>1, <2>1, <2>2, <3>2 DEF Done
    <3>4. Done \subseteq Slots \X (0 .. n - 1) /\ Done' \subseteq Slots \X (0 .. n - 1)
      BY <1>1 DEF Done
    <3>5. <<t, i[t]>> \notin Done
      BY <2>1, <2>3 DEF Done
    <3> QED BY <3>1, <3>3, <3>4, <3>5
  <2>5. NoUpdateLost'
    BY <1>1, <1>3, <1>4, <2>3, <2>4, FS_AddElement DEF NoUpdateLost
  <2>6. \A s \in Slots : InCritical(s)' <=> InCritical(s)
    BY <2>1, <2>2 DEF InCritical
  <2>7. TypeOK' /\ Exclusion'
    BY <1>1, <2>1, <2>3, <2>6 DEF TypeOK, ThreadLabels, Exclusion
  <2>8. \A s \in Slots : s # t => pc[s] # "store"
    BY <1>1, <2>1 DEF Exclusion, InCritical
  <2>9. LocalState'
    BY <1>1, <2>1, <2>2, <2>8 DEF LocalState
  <2>10. PoolState'
    BY <1>6, <1>2, <2>1 DEF ThreadLabels
  <2> QED BY <2>5, <2>7, <2>9, <2>10 DEF IInv
<1>11. CASE Unlock(t)
  <2>1. /\ pc[t] = "unlock" /\ lock' = 0 /\ UNCHANGED <<sum, reg>>
        /\ i' = [i EXCEPT ![t] = i[t] + 1]
        /\ pc' = [pc EXCEPT ![t] = "loop"]
    BY <1>11 DEF Unlock, Goto
  <2>2. \A s \in Slots : /\ pc'[s] = IF s # t THEN pc[s] ELSE "loop"
                         /\ i'[s] = IF s # t THEN i[s] ELSE i[t] + 1
    BY <1>2, <2>1
  <2>3. i[t] \in Nat /\ i[t] < n
    BY <1>1, <2>1 DEF LocalState, TypeOK
  <2>4. \A j \in 0 .. n - 1 : j < i[t] + 1 <=> j < i[t] \/ j = i[t]
    BY <1>4, <2>3
  <2>5. Done' = Done
    BY <1>1, <2>1, <2>2, <2>4 DEF Done
  <2>6. \A s \in Slots : ~InCritical(s)'
    BY <1>1, <2>1, <2>2 DEF Exclusion, InCritical
  <2>7. TypeOK' /\ Exclusion' /\ NoUpdateLost'
    BY <1>1, <2>1, <2>5, <2>6 DEF TypeOK, ThreadLabels, Exclusion, NoUpdateLost
  <2>8. LocalState'
    BY <1>1, <1>4, <2>1, <2>2, <2>3 DEF LocalState
  <2>9. PoolState'
    BY <1>6, <1>2, <2>1 DEF ThreadLabels
  <2> QED BY <2>7, <2>8, <2>9 DEF IInv
<1> QED BY <1>7, <1>8, <1>9, <1>10, <1>11 DEF Tsum

\* The lock loses no addition and join() passes no running thread.
THEOREM Invariance == Spec => []IInv
<1>1. IInv /\ UNCHANGED vars => IInv'
  BY DEF vars, IInv, TypeOK, Exclusion, InCritical, NoUpdateLost, Done, LocalState,
         PoolState, n
<1>2. IInv /\ [Next]_vars => IInv'
  BY <1>1, MainIInv, TsumIInv DEF Next
<1> QED BY <1>2, InitIInv, PTL DEF Spec

\* When join() has passed all slots, everything is added.
LEMMA Exact == IInv => SumIsExact
<1> SUFFICES ASSUME IInv, main = "assert", nthread > 0 PROVE sum = n * nthread
  BY DEF SumIsExact
<1>1. n \in Nat /\ nthread \in Nat /\ created = nthread /\ nthread <= NTHREAD
  BY ShareType, SumAssumption DEF IInv, PoolState, TypeOK
<1>2. \A t \in Slots : i[t] = (IF t <= nthread THEN n ELSE 0) /\ pc[t] # "unlock"
  BY <1>1, SumAssumption DEF IInv, PoolState, LocalState, TypeOK, Slots
<1>3. Done = (1 .. nthread) \X (0 .. n - 1)
  BY <1>1, <1>2, SumAssumption DEF Done, Slots
<1>4. /\ IsFiniteSet(1 .. nthread) /\ Cardinality(1 .. nthread) = nthread
      /\ IsFiniteSet(0 .. n - 1) /\ Cardinality(0 .. n - 1) = n
  BY <1>1, FS_Interval
<1>5. Cardinality(Done) = nthread * n
  BY <1>3, <1>4, FS_Product, ZenonT(30)
<1> QED BY <1>1, <1>5 DEF IInv, NoUpdateLost

\* The assertion of line 25 of both programs never fails for a positive
\* number of threads, whatever the schedule.
THEOREM AssertionHolds == Spec => []SumIsExact
<1> QED BY Exact, Invariance, PTL

-----------------------------------------------------------------------------
LEMMA Division ==
  ASSUME NEW a \in Nat, NEW b \in Nat, b > 0
  PROVE  a \div b \in Nat /\ (a \div b) * b <= a /\ a < (a \div b + 1) * b
BY SMT

\* With a negative argument the product in the assertion is 0 exactly if the
\* division gives 0.
LEMMA NegativeShare ==
  ASSUME TypeOK, nthread < 0
  PROVE  n * nthread = 0 <=> nthread < -N
<1> DEFINE k == -nthread
           q == N \div k
<1>1. k \in Nat \ {0} /\ N \in Nat /\ nthread \in Int
  BY SumAssumption DEF TypeOK
<1>2. n = -q /\ nthread = -k
  BY <1>1 DEF n
<1> HIDE DEF k
<1>3. q \in Nat /\ q * k <= N /\ N < (q + 1) * k
  <2>1. k \in Nat /\ k > 0
    BY <1>1
  <2> QED BY <1>1, <2>1, Division
<1> HIDE DEF q
<1>4. n * nthread = q * k
  BY <1>1, <1>2, <1>3
<1>5. CASE q = 0
  BY <1>1, <1>2, <1>3, <1>4, <1>5
<1>6. CASE q > 0
  <2>1. k <= q * k
    BY <1>1, <1>3, <1>6
  <2> QED BY <1>1, <1>2, <1>3, <1>4, <2>1
<1> QED BY <1>3, <1>5, <1>6

LEMMA NextOutcome == IInv /\ Outcome /\ [Next]_vars => Outcome'
<1> SUFFICES ASSUME IInv, Outcome, [Next]_vars PROVE Outcome'
  OBVIOUS
<1>1. /\ nthread \in Int /\ created \in 0 .. NTHREAD /\ NTHREAD \in Nat /\ N \in Nat
      /\ TypeOK /\ PoolState /\ LocalState
  BY SumAssumption DEF IInv, TypeOK
<1>2. CASE ReadArgs
  BY <1>2 DEF ReadArgs, Outcome, threadVars
<1>3. CASE Create
  <2>1. UNCHANGED <<nthread, sum>> /\ main = "create" /\ nthread # 0
    BY <1>1, <1>3 DEF Create, threadVars, PoolState
  <2>2. main' \in {"create", "join"} \/ (main' = "aborted" /\ nthread > NTHREAD)
    BY <1>1, <1>3 DEF Create
  <2> QED BY <1>1, <2>1, <2>2 DEF Outcome, Slots
<1>4. CASE Join("join", "assert")
  BY <1>4 DEF Join, Outcome, threadVars
<1>5. CASE Join("cleanup", "exit")
  BY <1>5 DEF Join, Outcome, threadVars
<1>6. CASE Assert
  <2>1. /\ UNCHANGED <<nthread, sum>> /\ main = "assert"
        /\ main' = IF sum = n * nthread THEN "cleanup" ELSE "aborted"
    BY <1>6 DEF Assert, threadVars
  <2>2. nthread # 0 /\ created >= nthread
    BY <1>1, <2>1 DEF PoolState
  <2>3. CASE nthread > 0
    <3>1. sum = n * nthread
      BY <2>1, <2>3, Exact DEF SumIsExact
    <3>2. nthread \in Slots
      BY <1>1, <2>2, <2>3 DEF Slots
    <3>3. main' = "cleanup"
      BY <2>1, <3>1
    <3> QED BY <1>1, <2>1, <2>3, <3>2, <3>3 DEF Outcome
  <2>4. CASE nthread < 0
    <3>1. sum = 0 /\ nthread \notin Slots
      BY <1>1, <2>4 DEF Outcome, Slots
    <3>2. n * nthread = 0 <=> nthread < -N
      BY <1>1, <2>4, NegativeShare
    <3>3. IF nthread < -N THEN main' = "cleanup" ELSE main' = "aborted"
      BY <2>1, <3>1, <3>2
    <3> QED BY <1>1, <2>1, <2>4, <3>1, <3>3 DEF Outcome
  <2> QED BY <1>1, <2>2, <2>3, <2>4
<1>7. ASSUME NEW t \in Slots, Tsum(t) PROVE Outcome'
  <2>1. UNCHANGED <<nthread, main>>
    BY <1>7 DEF Tsum, mainVars
  <2>2. nthread <= 0 => sum' = sum
    <3> SUFFICES ASSUME nthread <= 0 PROVE sum' = sum
      OBVIOUS
    <3>1. pc[t] = "free"
      BY <1>1 DEF PoolState, Slots
    <3> QED BY <1>7, <3>1 DEF Tsum, Loop, Lock, Load, Store, Unlock, Goto, threadVars
  <2> QED BY <2>1, <2>2 DEF Outcome
<1>8. CASE UNCHANGED vars
  BY <1>8 DEF vars, Outcome
<1> QED BY <1>2, <1>3, <1>4, <1>5, <1>6, <1>7, <1>8 DEF Next, Main

\* Whatever the argument and the schedule, the programs end in no other way
\* than the argument implies: 0 divides by zero, more threads than slots and
\* small negative numbers fail an assertion, and the rest exits.
THEOREM EndIsImplied == Spec => []EndsNoOtherWay
<1>1. Init => Outcome
  BY DEF Init, Outcome
<1>2. Outcome => EndsNoOtherWay
  BY SumAssumption DEF Outcome, EndsNoOtherWay, Implied, Slots
<1> QED BY <1>1, <1>2, NextOutcome, Invariance, PTL DEF Spec
=============================================================================
