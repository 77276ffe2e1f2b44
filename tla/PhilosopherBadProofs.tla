------------------------ MODULE PhilosopherBadProofs ------------------------
(***************************************************************************)
(* Proofs about philosopher-bad.c for any number of philosophers.          *)
(***************************************************************************)
EXTENDS PhilosopherBad, TLAPS

\* What the index arithmetic of lines 8-9 computes: philosopher id sits
\* between the forks id - 1 and id, and fork 0 closes the circle.
LEMMA Seats ==
  ASSUME NEW id \in Ids
  PROVE  /\ lhs(id) = id - 1
         /\ rhs(id) = IF id = N THEN 0 ELSE id
         /\ lhs(id) \in Forks /\ rhs(id) \in Forks
         /\ lhs(id) # rhs(id)
<1>1. (N + id - 1) % N = id - 1
  BY PhilAssumption DEF Ids
<1>2. id % N = IF id = N THEN 0 ELSE id
  BY PhilAssumption DEF Ids
<1> QED BY <1>1, <1>2, PhilAssumption DEF lhs, rhs, Ids, Forks

\* Nobody shares the left fork, and every right fork is a neighbour's left.
LEMMA Neighbours ==
  /\ \A i, j \in Ids : lhs(i) = lhs(j) => i = j
  /\ \A i \in Ids : \E j \in Ids : lhs(j) = rhs(i)
<1>1. ASSUME NEW i \in Ids, NEW j \in Ids, lhs(i) = lhs(j) PROVE i = j
  BY <1>1, Seats, PhilAssumption DEF Ids
<1>2. ASSUME NEW i \in Ids PROVE \E j \in Ids : lhs(j) = rhs(i)
  <2>1. CASE i = N
    <3>1. 1 \in Ids
      BY PhilAssumption DEF Ids
    <3>2. lhs(1) = rhs(i)
      BY <2>1, <3>1, Seats
    <3> QED BY <3>1, <3>2
  <2>2. CASE i # N
    <3>1. i + 1 \in Ids
      BY <2>2, PhilAssumption DEF Ids
    <3>2. lhs(i + 1) = (i + 1) - 1 /\ rhs(i) = i
      BY <2>2, <3>1, Seats
    <3> QED BY <3>1, <3>2 DEF Ids
  <2> QED BY <2>1, <2>2
<1> QED BY <1>1, <1>2

\* Initially every fork is on the table.
LEMMA InitIInv == Init => IInv
BY DEF Init, IInv, TypeOK, ForksConserved, Holds

\* Taking a free fork or putting a held one back keeps the accounting of the
\* forks, whichever of its two forks philosopher id works on.
LEMMA StepIInv ==
  ASSUME IInv, NEW id \in Ids, Tphilosopher(id)
  PROVE  IInv'
<1>1. lhs(id) \in Forks /\ rhs(id) \in Forks /\ lhs(id) # rhs(id)
  BY Seats
<1>2. TypeOK /\ ForksConserved
  BY DEF IInv
<1>3. \A i \in Ids \ {id}, f \in Forks : Holds(i, f)' <=> Holds(i, f)
  BY <1>2 DEF Tphilosopher, TakeLeft, TakeRight, PutLeft, PutRight, Do, TypeOK, Holds
<1>4. CASE TakeLeft(id)
  <2>1. /\ pc[id] = "left" /\ pc' = [pc EXCEPT ![id] = "right"]
        /\ locks[lhs(id)] = 1 /\ locks' = [locks EXCEPT ![lhs(id)] = 0]
    <3>1. locks[lhs(id)] \in {0, 1} /\ locks[lhs(id)] > 0
      BY <1>1, <1>2, <1>4 DEF TakeLeft, Do, P, TypeOK
    <3>2. locks[lhs(id)] = 1 /\ locks[lhs(id)] - 1 = 0
      BY <3>1
    <3> QED BY <3>2, <1>4 DEF TakeLeft, Do, P
  <2>2. TypeOK'
    BY <1>1, <1>2, <2>1 DEF TypeOK
  <2>3. \A f \in Forks : /\ ~Holds(id, f)
                         /\ Holds(id, f)' <=> f = lhs(id)
    BY <1>2, <2>1 DEF TypeOK, Holds
  <2>4. \A f \in Forks : locks'[f] = IF f = lhs(id) THEN 0 ELSE locks[f]
    BY <1>2, <2>1 DEF TypeOK
  <2>5. \A i \in Ids : ~Holds(i, lhs(id))
    BY <1>1, <1>2, <2>1 DEF ForksConserved
  <2>6. ForksConserved'
    BY <1>1, <1>2, <1>3, <2>3, <2>4, <2>5 DEF ForksConserved
  <2> QED BY <2>2, <2>6 DEF IInv
<1>5. CASE TakeRight(id)
  <2>1. /\ pc[id] = "right" /\ pc' = [pc EXCEPT ![id] = "vleft"]
        /\ locks[rhs(id)] = 1 /\ locks' = [locks EXCEPT ![rhs(id)] = 0]
    <3>1. locks[rhs(id)] \in {0, 1} /\ locks[rhs(id)] > 0
      BY <1>1, <1>2, <1>5 DEF TakeRight, Do, P, TypeOK
    <3>2. locks[rhs(id)] = 1 /\ locks[rhs(id)] - 1 = 0
      BY <3>1
    <3> QED BY <3>2, <1>5 DEF TakeRight, Do, P
  <2>2. TypeOK'
    BY <1>1, <1>2, <2>1 DEF TypeOK
  <2>3. \A f \in Forks : /\ Holds(id, f) <=> f = lhs(id)
                         /\ Holds(id, f)' <=> f \in {lhs(id), rhs(id)}
    BY <1>2, <2>1 DEF TypeOK, Holds
  <2>4. \A f \in Forks : locks'[f] = IF f = rhs(id) THEN 0 ELSE locks[f]
    BY <1>2, <2>1 DEF TypeOK
  <2>5. \A i \in Ids : ~Holds(i, rhs(id))
    BY <1>1, <1>2, <2>1 DEF ForksConserved
  <2>6. ForksConserved'
    BY <1>1, <1>2, <1>3, <2>3, <2>4, <2>5 DEF ForksConserved
  <2> QED BY <2>2, <2>6 DEF IInv
<1>6. CASE PutLeft(id)
  <2>1. pc[id] = "vleft" /\ pc' = [pc EXCEPT ![id] = "vright"]
    BY <1>6 DEF PutLeft, Do
  <2>2. \A f \in Forks : /\ Holds(id, f) <=> f \in {lhs(id), rhs(id)}
                         /\ Holds(id, f)' <=> f = rhs(id)
    BY <1>2, <2>1 DEF TypeOK, Holds
  <2>3. locks[lhs(id)] = 0 /\ locks' = [locks EXCEPT ![lhs(id)] = 1]
    <3>1. locks[lhs(id)] = 0
      BY <1>1, <1>2, <2>2 DEF ForksConserved
    <3>2. locks[lhs(id)] + 1 = 1
      BY <3>1
    <3> QED BY <3>1, <3>2, <1>6 DEF PutLeft, Do, V
  <2>4. TypeOK'
    BY <1>1, <1>2, <2>1, <2>3 DEF TypeOK
  <2>5. \A f \in Forks : locks'[f] = IF f = lhs(id) THEN 1 ELSE locks[f]
    BY <1>2, <2>3 DEF TypeOK
  <2>6. ForksConserved'
    BY <1>1, <1>2, <1>3, <2>2, <2>5 DEF ForksConserved
  <2> QED BY <2>4, <2>6 DEF IInv
<1>7. CASE PutRight(id)
  <2>1. pc[id] = "vright" /\ pc' = [pc EXCEPT ![id] = "left"]
    BY <1>7 DEF PutRight, Do
  <2>2. \A f \in Forks : /\ Holds(id, f) <=> f = rhs(id)
                         /\ ~Holds(id, f)'
    BY <1>2, <2>1 DEF TypeOK, Holds
  <2>3. locks[rhs(id)] = 0 /\ locks' = [locks EXCEPT ![rhs(id)] = 1]
    <3>1. locks[rhs(id)] = 0
      BY <1>1, <1>2, <2>2 DEF ForksConserved
    <3>2. locks[rhs(id)] + 1 = 1
      BY <3>1
    <3> QED BY <3>1, <3>2, <1>7 DEF PutRight, Do, V
  <2>4. TypeOK'
    BY <1>1, <1>2, <2>1, <2>3 DEF TypeOK
  <2>5. \A f \in Forks : locks'[f] = IF f = rhs(id) THEN 1 ELSE locks[f]
    BY <1>2, <2>3 DEF TypeOK
  <2>6. ForksConserved'
    BY <1>1, <1>2, <1>3, <2>2, <2>5 DEF ForksConserved
  <2> QED BY <2>4, <2>6 DEF IInv
<1> QED BY <1>4, <1>5, <1>6, <1>7 DEF Tphilosopher

\* No fork of philosopher-bad.c is ever in two hands, and the semaphores
\* always tell which forks are held.
THEOREM Invariance == Spec => []IInv
<1>1. IInv /\ [Next]_vars => IInv'
  <2>1. IInv /\ UNCHANGED vars => IInv'
    BY DEF vars, IInv, TypeOK, ForksConserved, Holds
  <2> QED BY <2>1, StepIInv DEF Next
<1> QED BY <1>1, InitIInv, PTL DEF Spec

\* Every deadlock of philosopher-bad.c, for any number of philosophers, is
\* the one the comment in the code describes.
THEOREM OnlyDeadlock == Spec => []StuckIffAllHoldLeft
<1>1. IInv => StuckIffAllHoldLeft
  <2> SUFFICES ASSUME IInv PROVE StuckIffAllHoldLeft
    OBVIOUS
  <2>1. ASSUME \A id \in Ids : Waits(id), NEW i \in Ids PROVE pc[i] = "right"
    <3> SUFFICES ASSUME pc[i] = "left" PROVE FALSE
      BY <2>1 DEF Waits
    <3>1. locks[lhs(i)] = 0 /\ lhs(i) \in Forks
      BY <2>1, Seats DEF Waits
    <3>2. PICK j \in Ids : Holds(j, lhs(i))
      BY <3>1 DEF IInv, ForksConserved
    <3>3. pc[j] = "right" /\ lhs(j) = lhs(i)
      BY <2>1, <3>2 DEF Waits, Holds
    <3> QED BY <3>3, Neighbours
  <2>2. ASSUME \A id \in Ids : pc[id] = "right", NEW i \in Ids PROVE Waits(i)
    <3>1. PICK j \in Ids : lhs(j) = rhs(i)
      BY Neighbours
    <3>2. Holds(j, rhs(i)) /\ rhs(i) \in Forks
      BY <2>2, <3>1, Seats DEF Holds
    <3> QED BY <2>2, <3>2 DEF IInv, ForksConserved, Waits
  <2> QED BY <2>1, <2>2 DEF StuckIffAllHoldLeft
<1> QED BY <1>1, Invariance, PTL
=============================================================================
