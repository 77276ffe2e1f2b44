---------------------------- MODULE PcRingProofs ----------------------------
(***************************************************************************)
(* pc.cpp is a first-in-first-out queue, for any threads and any size of   *)
(* the ring: its steps are steps of BoundedFifo under the mapping Contents,*)
(* or leave the queue and the output alone.  No wakeup is lost, so that    *)
(* the threads never all sleep.                                            *)
(***************************************************************************)
EXTENDS PcRing, SequenceTheorems, TLAPS

-----------------------------------------------------------------------------
\* Arithmetic of the ring.

\* The indices are computed modulo N from numbers below 2N.
LEMMA Modulo ==
  ASSUME NEW a \in Nat, a < 2 * N
  PROVE  a % N = IF a < N THEN a ELSE a - N
<1>1. N \in Nat /\ N > 0
  BY RingAssumption
<1> QED BY <1>1

\* The number of full cells, and the cell at a distance from another one.
Full(h, r) == (r - h + N) % N
Cell(h, j) == (h + j) % N

LEMMA FullIs ==
  ASSUME NEW h \in 0 .. N - 1, NEW r \in 0 .. N - 1
  PROVE  Full(h, r) = (IF r >= h THEN r - h ELSE r - h + N) /\ Full(h, r) \in 0 .. N - 1
<1> DEFINE a == r - h + N
<1>1. N \in Nat /\ N > 0 /\ h \in Int /\ r \in Int
  BY RingAssumption
<1>2. a \in Nat /\ a < 2 * N
  BY <1>1
<1> HIDE DEF a
<1>3. a % N = IF a < N THEN a ELSE a - N
  BY <1>2, Modulo
<1>4. Full(h, r) = IF a < N THEN a ELSE a - N
  BY <1>3 DEF Full, a
<1> QED BY <1>1, <1>4 DEF a

LEMMA CellIs ==
  ASSUME NEW h \in 0 .. N - 1, NEW j \in 0 .. N
  PROVE  Cell(h, j) = (IF h + j < N THEN h + j ELSE h + j - N) /\ Cell(h, j) \in 0 .. N - 1
<1> DEFINE a == h + j
<1>1. N \in Nat /\ N > 0 /\ h \in Int /\ j \in Int
  BY RingAssumption
<1>2. a \in Nat /\ a < 2 * N
  BY <1>1
<1> HIDE DEF a
<1>3. a % N = IF a < N THEN a ELSE a - N
  BY <1>2, Modulo
<1>4. Cell(h, j) = IF a < N THEN a ELSE a - N
  BY <1>3 DEF Cell, a
<1> QED BY <1>1, <1>4 DEF a

\* The full cells are not the first free one, which comes after them.
LEMMA FullCells ==
  ASSUME NEW h \in 0 .. N - 1, NEW r \in 0 .. N - 1
  PROVE  /\ \A j \in 0 .. Full(h, r) - 1 : Cell(h, j) # r
         /\ Cell(h, Full(h, r)) = r /\ Cell(h, 0) = h
<1>1. /\ N \in Nat /\ N > 0 /\ Full(h, r) \in 0 .. N - 1
      /\ Full(h, r) = IF r >= h THEN r - h ELSE r - h + N
  BY FullIs, RingAssumption
<1>2. ASSUME NEW j \in 0 .. Full(h, r) - 1 PROVE Cell(h, j) # r
  <2>1. j \in 0 .. N
    BY <1>1
  <2>2. Cell(h, j) = IF h + j < N THEN h + j ELSE h + j - N
    BY <2>1, CellIs
  <2> QED BY <1>1, <2>1, <2>2
<1>3. Cell(h, Full(h, r)) = r
  <2>1. Full(h, r) \in 0 .. N
    BY <1>1
  <2>2. Cell(h, Full(h, r)) = IF h + Full(h, r) < N THEN h + Full(h, r) ELSE h + Full(h, r) - N
    BY <2>1, CellIs
  <2> QED BY <1>1, <2>2
<1>4. Cell(h, 0) = h
  <2>1. 0 \in 0 .. N
    BY <1>1
  <2>2. Cell(h, 0) = IF h + 0 < N THEN h + 0 ELSE h + 0 - N
    BY <2>1, CellIs
  <2> QED BY <1>1, <2>2
<1> QED BY <1>2, <1>3, <1>4

\* A cell becomes full when rear moves on, unless the ring is full.
LEMMA RearMoves ==
  ASSUME NEW h \in 0 .. N - 1, NEW r \in 0 .. N - 1, Cell(r, 1) # h
  PROVE  /\ Cell(r, 1) \in 0 .. N - 1
         /\ Full(h, r) < N - 1 /\ Full(h, Cell(r, 1)) = Full(h, r) + 1
<1>1. N \in Nat /\ N > 0 /\ 1 \in 0 .. N
  BY RingAssumption
<1>2. Cell(r, 1) = (IF r + 1 < N THEN r + 1 ELSE r + 1 - N) /\ Cell(r, 1) \in 0 .. N - 1
  BY <1>1, CellIs
<1>3. Full(h, r) = IF r >= h THEN r - h ELSE r - h + N
  BY FullIs
<1>4. Full(h, Cell(r, 1)) = IF Cell(r, 1) >= h THEN Cell(r, 1) - h ELSE Cell(r, 1) - h + N
  BY <1>2, FullIs
<1> QED BY <1>1, <1>2, <1>3, <1>4

\* A cell becomes free when head moves on, unless the ring is empty.
LEMMA HeadMoves ==
  ASSUME NEW h \in 0 .. N - 1, NEW r \in 0 .. N - 1, h # r
  PROVE  /\ Cell(h, 1) \in 0 .. N - 1
         /\ Full(h, r) >= 1 /\ Full(Cell(h, 1), r) = Full(h, r) - 1
         /\ \A j \in 0 .. N - 2 : Cell(Cell(h, 1), j) = Cell(h, j + 1)
<1>1. N \in Nat /\ N > 0 /\ 1 \in 0 .. N
  BY RingAssumption
<1>2. Cell(h, 1) = (IF h + 1 < N THEN h + 1 ELSE h + 1 - N) /\ Cell(h, 1) \in 0 .. N - 1
  BY <1>1, CellIs
<1>3. Full(h, r) = IF r >= h THEN r - h ELSE r - h + N
  BY FullIs
<1>4. Full(Cell(h, 1), r) = IF r >= Cell(h, 1) THEN r - Cell(h, 1) ELSE r - Cell(h, 1) + N
  BY <1>2, FullIs
<1>5. ASSUME NEW j \in 0 .. N - 2 PROVE Cell(Cell(h, 1), j) = Cell(h, j + 1)
  <2>1. j \in 0 .. N /\ j + 1 \in 0 .. N
    BY <1>1
  <2>2. Cell(Cell(h, 1), j) = IF Cell(h, 1) + j < N THEN Cell(h, 1) + j ELSE Cell(h, 1) + j - N
    BY <1>2, <2>1, CellIs
  <2>3. Cell(h, j + 1) = IF h + (j + 1) < N THEN h + (j + 1) ELSE h + (j + 1) - N
    BY <2>1, CellIs
  <2> QED BY <1>1, <1>2, <2>1, <2>2, <2>3
<1> QED BY <1>1, <1>2, <1>3, <1>4, <1>5

-----------------------------------------------------------------------------
\* The queue in a ring b: all its full cells, and those after the first.
All(b, h, r) == [k \in 1 .. Full(h, r) |-> b[Cell(h, k - 1)]]
Rest(b, h, r) == [k \in 1 .. Full(h, r) - 1 |-> b[Cell(h, k)]]

LEMMA QueueAll ==
  ASSUME NEW V, NEW b \in [0 .. N - 1 -> V], NEW h \in 0 .. N - 1, NEW r \in 0 .. N - 1
  PROVE  /\ All(b, h, r) \in Seq(V) /\ Len(All(b, h, r)) = Full(h, r)
         /\ \A k \in 1 .. Full(h, r) : All(b, h, r)[k] = b[Cell(h, k - 1)]
<1> DEFINE m == Full(h, r)
           q == All(b, h, r)
<1>1. N \in Nat /\ m \in 0 .. N - 1
  BY FullIs, RingAssumption
<1>2. ASSUME NEW k \in 1 .. m PROVE b[Cell(h, k - 1)] \in V
  <2>1. k - 1 \in 0 .. N
    BY <1>1
  <2> QED BY <2>1, CellIs
<1>3. q \in [1 .. m -> V] /\ \A k \in 1 .. m : q[k] = b[Cell(h, k - 1)]
  BY <1>2 DEF All
<1> HIDE DEF m, q
<1>4. q \in Seq(V) /\ Len(q) = m
  BY <1>1, <1>3
<1> QED BY <1>3, <1>4 DEF m, q

LEMMA QueueRest ==
  ASSUME NEW V, NEW b \in [0 .. N - 1 -> V], NEW h \in 0 .. N - 1, NEW r \in 0 .. N - 1,
         Full(h, r) >= 1
  PROVE  /\ Rest(b, h, r) \in Seq(V) /\ Len(Rest(b, h, r)) = Full(h, r) - 1
         /\ \A k \in 1 .. Full(h, r) - 1 : Rest(b, h, r)[k] = b[Cell(h, k)]
<1> DEFINE m == Full(h, r) - 1
           q == Rest(b, h, r)
<1>1. N \in Nat /\ Full(h, r) \in 0 .. N - 1 /\ m \in Nat
  <2>1. N \in Nat /\ Full(h, r) \in 0 .. N - 1
    BY FullIs, RingAssumption
  <2> QED BY <2>1
<1>2. ASSUME NEW k \in 1 .. m PROVE b[Cell(h, k)] \in V
  <2>1. k \in 0 .. N
    BY <1>1
  <2> QED BY <2>1, CellIs
<1>3. q \in [1 .. m -> V] /\ \A k \in 1 .. m : q[k] = b[Cell(h, k)]
  BY <1>2 DEF Rest
<1> HIDE DEF m, q
<1>4. q \in Seq(V) /\ Len(q) = m
  BY <1>1, <1>3
<1> QED BY <1>3, <1>4 DEF m, q

\* A cell that is not full can be written.
LEMMA QueueWrite ==
  ASSUME NEW V, NEW b \in [0 .. N - 1 -> V], NEW h \in 0 .. N - 1, NEW r \in 0 .. N - 1, NEW v
  PROVE  All([b EXCEPT ![r] = v], h, r) = All(b, h, r)
<1>1. N \in Nat /\ Full(h, r) \in 0 .. N - 1
  BY FullIs, RingAssumption
<1>2. ASSUME NEW k \in 1 .. Full(h, r)
      PROVE  [b EXCEPT ![r] = v][Cell(h, k - 1)] = b[Cell(h, k - 1)]
  <2>1. k - 1 \in 0 .. Full(h, r) - 1 /\ k - 1 \in 0 .. N
    BY <1>1
  <2>2. Cell(h, k - 1) # r /\ Cell(h, k - 1) \in 0 .. N - 1
    BY <2>1, FullCells, CellIs
  <2> QED BY <2>2
<1> QED BY <1>2 DEF All

\* When rear moves on, the cell it leaves is the last of the queue.
LEMMA QueuePut ==
  ASSUME NEW V, NEW b \in [0 .. N - 1 -> V], NEW h \in 0 .. N - 1, NEW r \in 0 .. N - 1,
         Cell(r, 1) # h
  PROVE  /\ All(b, h, Cell(r, 1)) = Append(All(b, h, r), b[r])
         /\ Len(All(b, h, r)) < N - 1
<1> DEFINE p == All(b, h, r)
           q == All(b, h, Cell(r, 1))
           f == Full(h, r)
<1>1. /\ N \in Nat /\ f \in 0 .. N - 1 /\ f < N - 1 /\ Cell(r, 1) \in 0 .. N - 1
      /\ Full(h, Cell(r, 1)) = f + 1 /\ Cell(h, f) = r
  BY FullIs, RearMoves, FullCells, RingAssumption
<1>2. p \in Seq(V) /\ Len(p) = f /\ \A k \in 1 .. f : p[k] = b[Cell(h, k - 1)]
  BY QueueAll, ZenonT(30)
<1>3. q \in Seq(V) /\ Len(q) = f + 1 /\ \A k \in 1 .. f + 1 : q[k] = b[Cell(h, k - 1)]
  <2>1. /\ q \in Seq(V) /\ Len(q) = Full(h, Cell(r, 1))
        /\ \A k \in 1 .. Full(h, Cell(r, 1)) : q[k] = b[Cell(h, k - 1)]
    <3>1. Cell(r, 1) \in 0 .. N - 1
      BY <1>1
    <3> QED BY <3>1, QueueAll, ZenonT(40)
  <2> QED BY <1>1, <2>1
<1> HIDE DEF p, q, f
<1>4. b[r] \in V /\ q[f + 1] = b[r]
  BY <1>1, <1>3
<1>5. Append(p, b[r]) \in Seq(V) /\ Len(Append(p, b[r])) = f + 1
  BY <1>1, <1>2, <1>4
<1>6. \A k \in 1 .. f + 1 : Append(p, b[r])[k] = q[k]
  <2>1. /\ \A k \in 1 .. Len(p) : Append(p, b[r])[k] = p[k]
        /\ Append(p, b[r])[Len(p) + 1] = b[r]
    BY <1>2, <1>4, AppendProperties, ZenonT(30)
  <2>2. \A k \in 1 .. f : p[k] = q[k]
    BY <1>1, <1>2, <1>3
  <2>3. \A k \in 1 .. f + 1 : k \in 1 .. f \/ k = f + 1
    BY <1>1
  <2> QED BY <1>2, <1>4, <2>1, <2>2, <2>3
<1>7. q = Append(p, b[r])
  BY <1>1, <1>3, <1>5, <1>6, SeqEqual
<1> QED BY <1>1, <1>2, <1>7 DEF p, q

\* The cell at head is the first of the queue.
LEMMA QueueGet ==
  ASSUME NEW V, NEW b \in [0 .. N - 1 -> V], NEW h \in 0 .. N - 1, NEW r \in 0 .. N - 1,
         h # r
  PROVE  /\ All(b, h, r) # <<>> /\ Head(All(b, h, r)) = b[h]
         /\ Rest(b, h, r) = Tail(All(b, h, r))
         /\ All(b, Cell(h, 1), r) = Rest(b, h, r)
<1> DEFINE p == All(b, h, r)
           q == Rest(b, h, r)
           s == All(b, Cell(h, 1), r)
           f == Full(h, r)
<1>1. /\ N \in Nat /\ f \in 0 .. N - 1 /\ f >= 1 /\ Cell(h, 1) \in 0 .. N - 1
      /\ Full(Cell(h, 1), r) = f - 1 /\ Cell(h, 0) = h
      /\ \A j \in 0 .. N - 2 : Cell(Cell(h, 1), j) = Cell(h, j + 1)
  BY FullIs, HeadMoves, FullCells, RingAssumption
<1>2. p \in Seq(V) /\ Len(p) = f /\ \A k \in 1 .. f : p[k] = b[Cell(h, k - 1)]
  BY QueueAll
<1>3. q \in Seq(V) /\ Len(q) = f - 1 /\ \A k \in 1 .. f - 1 : q[k] = b[Cell(h, k)]
  <2>1. Full(h, r) >= 1
    BY <1>1
  <2> QED BY <2>1, QueueRest
<1>4. s \in Seq(V) /\ Len(s) = f - 1 /\ \A k \in 1 .. f - 1 : s[k] = b[Cell(h, k)]
  <2>1. /\ s \in Seq(V) /\ Len(s) = Full(Cell(h, 1), r)
        /\ \A k \in 1 .. Full(Cell(h, 1), r) : s[k] = b[Cell(Cell(h, 1), k - 1)]
    <3>1. Cell(h, 1) \in 0 .. N - 1
      BY <1>1
    <3> QED BY <3>1, QueueAll, ZenonT(40)
  <2>2. \A k \in 1 .. f - 1 : Cell(Cell(h, 1), k - 1) = Cell(h, k)
    <3> TAKE k \in 1 .. f - 1
    <3>1. k - 1 \in 0 .. N - 2 /\ (k - 1) + 1 = k
      BY <1>1
    <3>2. Cell(Cell(h, 1), k - 1) = Cell(h, (k - 1) + 1)
      BY <1>1, <3>1
    <3> QED BY <3>1, <3>2
  <2> QED BY <1>1, <2>1, <2>2
<1> HIDE DEF p, q, s, f
<1>5. p # <<>> /\ Head(p) = b[h]
  <2>1. p # <<>>
    BY <1>1, <1>2, EmptySeq
  <2>2. 1 \in 1 .. f /\ 1 - 1 = 0
    BY <1>1
  <2>3. p[1] = b[Cell(h, 1 - 1)]
    BY <1>2, <2>2
  <2>4. p[1] = b[h]
    BY <1>1, <2>2, <2>3
  <2> QED BY <2>1, <2>4
<1>6. Tail(p) \in Seq(V) /\ Len(Tail(p)) = f - 1 /\ \A k \in 1 .. f - 1 : Tail(p)[k] = q[k]
  <2>1. /\ Tail(p) \in Seq(V) /\ Len(Tail(p)) = f - 1
        /\ \A k \in 1 .. f - 1 : Tail(p)[k] = p[k + 1]
    BY <1>2, <1>5, HeadTailProperties
  <2>2. ASSUME NEW k \in 1 .. f - 1 PROVE p[k + 1] = q[k]
    <3>1. k + 1 \in 1 .. f /\ (k + 1) - 1 = k
      BY <1>1
    <3>2. p[k + 1] = b[Cell(h, (k + 1) - 1)]
      BY <1>2, <3>1
    <3> QED BY <1>3, <3>1, <3>2
  <2> QED BY <2>1, <2>2
<1>7. q = Tail(p)
  BY <1>1, <1>3, <1>6, SeqEqual
<1>8. s = q
  BY <1>1, <1>3, <1>4, SeqEqual
<1> QED BY <1>5, <1>7, <1>8 DEF p, q, s

-----------------------------------------------------------------------------
\* The invariant.

LEMMA InitIInv == Init => IInv
<1> SUFFICES ASSUME Init PROVE IInv
  OBVIOUS
<1> USE RingAssumption, MutexAssumption, SyncAssumption DEF Init, SyncInit, MutexInit
<1>1. TypeOK
  BY DEF TypeOK, SyncTypeOK
<1>2. MutexHeld /\ InRing
  BY DEF MutexHeld, InRing
<1> QED BY <1>1, <1>2 DEF IInv

\* A step of t that leaves the other threads at their statements keeps the
\* mutex with the thread that is between the lock and the unlock.
LEMMA StepMutex ==
  ASSUME IInv, NEW t \in Threads, Step(t)
  PROVE  /\ MutexHeld'
         /\ \A u \in Threads : u # t => pc'[u] = pc[u]
         /\ pc[t] \in {"use", "move"} \/ pc'[t] \in {"use", "move"} =>
               lk = t /\ \A u \in Threads : u # t => pc[u] \in {"lock", "wait"}
         /\ pc' \in [Threads -> {"lock", "test", "wait", "use", "move", "wake", "unlock"}]
         /\ SyncTypeOK'
<1> USE RingAssumption, MutexAssumption, SyncAssumption
<1>1. TypeOK /\ SyncTypeOK /\ MutexHeld
  BY DEF IInv, TypeOK
<1>2. CASE Lock(t)
  BY <1>1, <1>2 DEF Lock, mutex_lock, Goto, MutexHeld, TypeOK, SyncTypeOK
<1>3. CASE Test(t)
  <2>1. CASE Blocked(t)
    BY <1>1, <1>3, <2>1 DEF Test, cond_wait, mutex_unlock, Goto, MutexHeld, TypeOK, SyncTypeOK
  <2>2. CASE ~Blocked(t)
    BY <1>1, <1>3, <2>2 DEF Test, Goto, MutexHeld, TypeOK, SyncTypeOK
  <2> QED BY <2>1, <2>2
<1>4. CASE Return(t)
  BY <1>1, <1>4 DEF Return, cond_wait_return, mutex_lock, Goto, MutexHeld, TypeOK, SyncTypeOK
<1>5. CASE Use(t)
  BY <1>1, <1>5 DEF Use, Goto, MutexHeld, TypeOK, SyncTypeOK
<1>6. CASE Move(t)
  BY <1>1, <1>6 DEF Move, Goto, MutexHeld, TypeOK, SyncTypeOK
<1>7. CASE Wake(t)
  BY <1>1, <1>7 DEF Wake, cond_broadcast, Goto, MutexHeld, TypeOK, SyncTypeOK
<1>8. CASE Unlock(t)
  BY <1>1, <1>8 DEF Unlock, mutex_unlock, Goto, MutexHeld, TypeOK, SyncTypeOK
<1> QED BY <1>2, <1>3, <1>4, <1>5, <1>6, <1>7, <1>8 DEF Step

\* Every step of a thread keeps the invariant.
LEMMA StepIInv ==
  ASSUME IInv, NEW t \in Threads, Step(t)
  PROVE  IInv'
<1>1. /\ TypeOK /\ MutexHeld /\ InRing /\ SyncTypeOK' /\ MutexHeld'
      /\ pc' \in [Threads -> {"lock", "test", "wait", "use", "move", "wake", "unlock"}]
      /\ \A u \in Threads : u # t => pc'[u] = pc[u]
  BY StepMutex DEF IInv
<1>2. CASE Use(t)
  <2>1. /\ pc[t] = "use" /\ pc'[t] = "move" /\ UNCHANGED <<head, rear>>
        /\ IF t \in Producers
             THEN buffer' = [buffer EXCEPT ![rear] = t] /\ UNCHANGED out
             ELSE out' = buffer[head] /\ UNCHANGED buffer
    BY <1>1, <1>2 DEF Use, Goto, TypeOK
  <2>2. \A u \in Threads : u # t => pc[u] \in {"lock", "wait"}
    BY <2>1, StepMutex
  <2>3. TypeOK'
    BY <1>1, <2>1 DEF TypeOK
  <2>4. InRing'
    <3>1. ~Blocked(t)
      BY <1>1, <2>1 DEF InRing
    <3>2. ~Blocked(t)'
      BY <2>1, <3>1 DEF Blocked
    <3>3. t \in Producers => buffer'[rear'] = t
      BY <1>1, <2>1 DEF TypeOK
    <3> QED BY <1>1, <2>2, <3>2, <3>3 DEF InRing
  <2> QED BY <1>1, <2>3, <2>4 DEF IInv
<1>3. CASE Move(t)
  <2>1. /\ pc[t] = "move" /\ pc'[t] = "wake" /\ UNCHANGED <<buffer, out>>
        /\ IF t \in Producers
             THEN rear' = (rear + 1) % N /\ UNCHANGED head
             ELSE head' = (head + 1) % N /\ UNCHANGED rear
    BY <1>1, <1>3 DEF Move, Goto, TypeOK
  <2>2. \A u \in Threads : u # t => pc[u] \in {"lock", "wait"}
    BY <2>1, StepMutex
  <2>3. head' \in 0 .. N - 1 /\ rear' \in 0 .. N - 1
    <3>1. 1 \in 0 .. N /\ head \in 0 .. N - 1 /\ rear \in 0 .. N - 1
      BY <1>1, RingAssumption DEF TypeOK
    <3>2. (rear + 1) % N \in 0 .. N - 1 /\ (head + 1) % N \in 0 .. N - 1
      BY <3>1, CellIs DEF Cell
    <3> QED BY <2>1, <3>1, <3>2
  <2>4. TypeOK'
    BY <1>1, <2>1, <2>3 DEF TypeOK
  <2>5. InRing'
    BY <1>1, <2>1, <2>2 DEF InRing
  <2> QED BY <1>1, <2>4, <2>5 DEF IInv
<1>4. CASE Lock(t) \/ Test(t) \/ Return(t) \/ Wake(t) \/ Unlock(t)
  <2>1. /\ UNCHANGED <<buffer, head, rear, out>>
        /\ pc'[t] # "move" /\ (pc'[t] = "use" => ~Blocked(t))
    BY <1>1, <1>4 DEF Lock, Test, Return, Wake, Unlock, Goto, TypeOK
  <2>2. TypeOK'
    BY <1>1, <2>1 DEF TypeOK
  <2>3. \A u \in Threads : Blocked(u)' <=> Blocked(u)
    BY <2>1 DEF Blocked
  <2>4. InRing'
    BY <1>1, <2>1, <2>3 DEF InRing
  <2> QED BY <1>1, <2>2, <2>4 DEF IInv
<1> QED BY <1>2, <1>3, <1>4 DEF Step

\* So does a wakeup that nobody caused.
LEMMA NextIInv == IInv /\ [Next]_vars => IInv'
<1> SUFFICES ASSUME IInv, [Next]_vars PROVE IInv'
  OBVIOUS
<1>1. CASE UNCHANGED <<lk, pc, buffer, head, rear, out>> /\ SyncTypeOK'
  BY <1>1 DEF IInv, TypeOK, MutexHeld, InRing, Blocked
<1>2. ASSUME NEW t \in Threads, Wakeup(t) PROVE IInv'
  BY <1>1, <1>2, SyncAssumption DEF Wakeup, SpuriousWakeup, IInv, TypeOK, SyncTypeOK
<1>3. CASE UNCHANGED vars
  BY <1>1, <1>3 DEF vars, IInv, TypeOK, SyncTypeOK
<1> QED BY <1>2, <1>3, StepIInv, RingAssumption DEF Next, Tproducer, Tconsumer

-----------------------------------------------------------------------------
\* The refinement.

\* The mapping in terms of the ring.
LEMMA ContentsIs ==
  ASSUME NEW b, NEW h \in 0 .. N - 1, NEW r \in 0 .. N - 1
  PROVE  /\ [k \in 1 .. ((r - h + N) % N) - 0 |-> b[(h + 0 + k - 1) % N]] = All(b, h, r)
         /\ [k \in 1 .. ((r - h + N) % N) - 1 |-> b[(h + 1 + k - 1) % N]] = Rest(b, h, r)
<1>1. /\ N \in Nat /\ h \in Int /\ Full(h, r) \in Int
      /\ Full(h, r) = (r - h + N) % N
  BY FullIs, RingAssumption DEF Full
<1>2. Full(h, r) - 0 = Full(h, r)
  BY <1>1
<1>3. \A k \in 1 .. Full(h, r) : h + 0 + k - 1 = h + (k - 1)
  BY <1>1
<1>4. \A k \in 1 .. Full(h, r) - 1 : h + 1 + k - 1 = h + k
  BY <1>1
<1>5. [k \in 1 .. Full(h, r) |-> b[(h + 0 + k - 1) % N]] = All(b, h, r)
  BY <1>3 DEF All, Cell
<1>6. [k \in 1 .. Full(h, r) - 1 |-> b[(h + 1 + k - 1) % N]] = Rest(b, h, r)
  BY <1>4 DEF Rest, Cell
<1> QED BY <1>1, <1>2, <1>5, <1>6

LEMMA Mapping ==
  ASSUME IInv, IInv'
  PROVE  /\ Contents = IF Printed THEN Rest(buffer, head, rear) ELSE All(buffer, head, rear)
         /\ Contents' = IF Printed' THEN Rest(buffer', head', rear')
                                    ELSE All(buffer', head', rear')
<1>1. head \in 0 .. N - 1 /\ rear \in 0 .. N - 1 /\ head' \in 0 .. N - 1 /\ rear' \in 0 .. N - 1
  BY DEF IInv, TypeOK
<1>2. Contents = IF Printed THEN Rest(buffer, head, rear) ELSE All(buffer, head, rear)
  <2>1. CASE Printed
    <3>1. Contents = [k \in 1 .. ((rear - head + N) % N) - 1 |-> buffer[(head + 1 + k - 1) % N]]
      BY <2>1 DEF Contents
    <3> QED BY <1>1, <2>1, <3>1, ContentsIs
  <2>2. CASE ~Printed
    <3>1. Contents = [k \in 1 .. ((rear - head + N) % N) - 0 |-> buffer[(head + 0 + k - 1) % N]]
      BY <2>2 DEF Contents
    <3> QED BY <1>1, <2>2, <3>1, ContentsIs
  <2> QED BY <2>1, <2>2
<1>3. Contents' = IF Printed' THEN Rest(buffer', head', rear')
                              ELSE All(buffer', head', rear')
  <2>1. CASE Printed'
    <3>1. Contents' = [k \in 1 .. ((rear' - head' + N) % N) - 1 |->
                         buffer'[(head' + 1 + k - 1) % N]]
      BY <2>1 DEF Contents
    <3> QED BY <1>1, <2>1, <3>1, ContentsIs
  <2>2. CASE ~Printed'
    <3>1. Contents' = [k \in 1 .. ((rear' - head' + N) % N) - 0 |->
                         buffer'[(head' + 0 + k - 1) % N]]
      BY <2>2 DEF Contents
    <3> QED BY <1>1, <2>2, <3>1, ContentsIs
  <2> QED BY <2>1, <2>2
<1> QED BY <1>2, <1>3

\* A producer puts when it moves rear, a consumer gets when it prints; no
\* other step shows.
LEMMA StepRefines ==
  ASSUME IInv, NEW t \in Threads, Step(t)
  PROVE  [Fifo!Next]_<<Contents, out>>
<1> DEFINE V == Producers \cup {Unwritten}
<1>1. /\ TypeOK /\ InRing /\ IInv' /\ buffer \in [0 .. N - 1 -> V]
      /\ head \in 0 .. N - 1 /\ rear \in 0 .. N - 1
      /\ \A u \in Threads : u # t => pc'[u] = pc[u]
  BY StepIInv, StepMutex DEF IInv, TypeOK
<1>2. /\ Contents = IF Printed THEN Rest(buffer, head, rear) ELSE All(buffer, head, rear)
      /\ Contents' = IF Printed' THEN Rest(buffer', head', rear')
                                 ELSE All(buffer', head', rear')
  BY <1>1, Mapping
<1>3. Consumers \subseteq Threads /\ (t \in Consumers <=> t \notin Producers)
  BY RingAssumption
<1>4. ASSUME lk = t, \A u \in Threads : u # t => pc[u] \in {"lock", "wait"}
      PROVE  /\ Printed <=> t \in Consumers /\ pc[t] = "move"
             /\ Printed' <=> t \in Consumers /\ pc'[t] = "move"
  BY <1>1, <1>3, <1>4 DEF Printed
<1>5. CASE Use(t)
  <2>1. /\ pc[t] = "use" /\ pc'[t] = "move" /\ UNCHANGED <<head, rear>>
        /\ IF t \in Producers
             THEN buffer' = [buffer EXCEPT ![rear] = t] /\ UNCHANGED out
             ELSE out' = buffer[head] /\ UNCHANGED buffer
    BY <1>1, <1>5 DEF Use, Goto, TypeOK
  <2>2. ~Printed /\ (Printed' <=> t \in Consumers)
    BY <1>4, <2>1, StepMutex
  <2>3. CASE t \in Producers
    <3>1. All([buffer EXCEPT ![rear] = t], head, rear) = All(buffer, head, rear)
      <4>1. buffer \in [0 .. N - 1 -> V] /\ head \in 0 .. N - 1 /\ rear \in 0 .. N - 1
        BY <1>1
      <4> HIDE DEF V
      <4> QED BY <4>1, QueueWrite
    <3> QED BY <1>2, <1>3, <2>1, <2>2, <2>3, <3>1
  <2>4. CASE t \in Consumers
    <3>1. head # rear
      BY <1>1, <2>1, <2>4 DEF InRing, Blocked
    <3>2. /\ All(buffer, head, rear) # <<>> /\ Head(All(buffer, head, rear)) = buffer[head]
          /\ Rest(buffer, head, rear) = Tail(All(buffer, head, rear))
      BY <1>1, <3>1, QueueGet
    <3>3. /\ Contents = All(buffer, head, rear) /\ Contents' = Rest(buffer, head, rear)
          /\ out' = buffer[head]
      BY <1>2, <1>3, <2>1, <2>2, <2>4
    <3>4. Fifo!Get
      BY <3>2, <3>3 DEF Fifo!Get
    <3> QED BY <3>4 DEF Fifo!Next
  <2> QED BY <1>3, <2>3, <2>4
<1>6. CASE Move(t)
  <2>1. /\ pc[t] = "move" /\ pc'[t] = "wake" /\ UNCHANGED <<buffer, out>>
        /\ IF t \in Producers
             THEN rear' = Cell(rear, 1) /\ UNCHANGED head
             ELSE head' = Cell(head, 1) /\ UNCHANGED rear
    BY <1>1, <1>6 DEF Move, Goto, TypeOK, Cell
  <2>2. ~Printed' /\ (Printed <=> t \in Consumers)
    BY <1>4, <2>1, StepMutex
  <2>3. CASE t \in Producers
    <3>1. Cell(rear, 1) # head /\ buffer[rear] = t
      BY <1>1, <2>1, <2>3 DEF InRing, Blocked, Cell
    <3>2. /\ All(buffer, head, Cell(rear, 1)) = Append(All(buffer, head, rear), buffer[rear])
          /\ Len(All(buffer, head, rear)) < N - 1
      BY <1>1, <3>1, QueuePut
    <3>3. Contents = All(buffer, head, rear) /\ Contents' = All(buffer, head, Cell(rear, 1))
      BY <1>2, <1>3, <2>1, <2>2, <2>3
    <3>4. Fifo!Put(t)
      BY <2>1, <3>1, <3>2, <3>3 DEF Fifo!Put
    <3> QED BY <2>3, <3>4 DEF Fifo!Next
  <2>4. CASE t \in Consumers
    <3>1. head # rear
      BY <1>1, <2>1, <2>4 DEF InRing, Blocked
    <3>2. All(buffer, Cell(head, 1), rear) = Rest(buffer, head, rear)
      BY <1>1, <3>1, QueueGet
    <3> QED BY <1>2, <1>3, <2>1, <2>2, <2>4, <3>2
  <2> QED BY <1>3, <2>3, <2>4
<1>7. CASE Lock(t) \/ Test(t) \/ Return(t) \/ Wake(t) \/ Unlock(t)
  <2>1. UNCHANGED <<buffer, head, rear, out>> /\ pc[t] # "move" /\ pc'[t] # "move"
    BY <1>1, <1>7 DEF Lock, Test, Return, Wake, Unlock, Goto, TypeOK
  <2>2. Printed' <=> Printed
    BY <1>1, <1>3, <2>1 DEF Printed
  <2> QED BY <1>2, <2>1, <2>2
<1> QED BY <1>5, <1>6, <1>7 DEF Step

\* Both indices stay in the ring, the mutex excludes, and a condition that was
\* tested still holds when the ring is used: for every N and all threads.
THEOREM Invariance == Spec => []IInv
BY InitIInv, NextIInv, PTL DEF Spec

\* pc.cpp never overwrites a value that was not printed, prints none twice and
\* none out of order: under the mapping Contents it is a queue of N - 1 places
\* (the safety half of ImplementsFifo), whatever N is, spurious wakeups included.
THEOREM RingIsFifo == Spec => Fifo!Init /\ [][Fifo!Next]_<<Contents, out>>
<1>1. Init => Fifo!Init
  <2> SUFFICES ASSUME Init PROVE Fifo!Init
    OBVIOUS
  <2>1. head = 0 /\ rear = 0 /\ out = Unwritten /\ ~Printed /\ N \in Nat /\ N > 0 /\ 0 \in 0 .. N - 1
    BY RingAssumption DEF Init, Printed
  <2>2. Contents = All(buffer, head, rear)
    <3>1. Contents = [k \in 1 .. ((rear - head + N) % N) - 0 |-> buffer[(head + 0 + k - 1) % N]]
      BY <2>1 DEF Contents
    <3>2. head \in 0 .. N - 1 /\ rear \in 0 .. N - 1
      BY <2>1
    <3> QED BY <3>1, <3>2, ContentsIs
  <2>3. Full(head, rear) = 0
    BY <2>1, FullIs
  <2>4. Contents = <<>>
    BY <2>2, <2>3 DEF All
  <2> QED BY <2>1, <2>4, RingAssumption DEF Fifo!Init
<1>2. IInv /\ [Next]_vars => [Fifo!Next]_<<Contents, out>>
  <2> SUFFICES ASSUME IInv, [Next]_vars PROVE [Fifo!Next]_<<Contents, out>>
    OBVIOUS
  <2>1. CASE UNCHANGED <<pc, buffer, head, rear, out>>
    BY <2>1 DEF Contents, Printed
  <2>2. CASE (\E t \in Threads : Wakeup(t)) \/ UNCHANGED vars
    BY <2>1, <2>2 DEF Wakeup, vars
  <2> QED BY <2>2, StepRefines, RingAssumption DEF Next, Tproducer, Tconsumer
<1> QED BY <1>1, <1>2, Invariance, PTL DEF Spec

-----------------------------------------------------------------------------
\* Wakeups.

LEMMA StepWakes ==
  ASSUME IInv, NoLostWakeup, NEW t \in Threads, Step(t)
  PROVE  NoLostWakeup'
<1>1. /\ TypeOK /\ MutexHeld /\ waiting \subseteq Threads /\ MutexHeld'
      /\ \A u \in Threads : u # t => pc'[u] = pc[u]
  BY StepMutex DEF IInv, TypeOK, SyncTypeOK
<1>2. pc[t] \notin {"lock", "wait"} => lk = t
  BY <1>1 DEF MutexHeld
<1>3. CASE Lock(t) \/ Return(t)
  <2>1. /\ UNCHANGED <<waiting, head, rear>> /\ lk = NoThread /\ t \notin waiting
    BY <1>3 DEF Lock, Return, mutex_lock, cond_wait_return, NoLostWakeup
  <2>2. \A u \in waiting : Blocked(u)
    BY <2>1, MutexAssumption DEF NoLostWakeup
  <2> QED BY <1>1, <2>1, <2>2 DEF NoLostWakeup, Blocked
<1>4. CASE Test(t)
  <2>1. /\ UNCHANGED <<head, rear>> /\ pc[t] = "test" /\ lk = t
        /\ \/ Blocked(t) /\ waiting' = waiting \cup {t} /\ pc'[t] = "wait"
           \/ waiting' = waiting
    BY <1>1, <1>2, <1>4 DEF Test, cond_wait, Goto, TypeOK
  <2>2. t \notin waiting /\ \A u \in waiting : Blocked(u)
    BY <2>1 DEF NoLostWakeup
  <2> QED BY <1>1, <2>1, <2>2 DEF NoLostWakeup, Blocked
<1>5. CASE Use(t)
  <2>1. UNCHANGED <<waiting, head, rear>> /\ pc[t] = "use" /\ lk = t
    BY <1>2, <1>5 DEF Use
  <2>2. t \notin waiting /\ \A u \in waiting : Blocked(u)
    BY <2>1 DEF NoLostWakeup
  <2> QED BY <1>1, <2>1, <2>2 DEF NoLostWakeup, Blocked
<1>6. CASE Move(t)
  <2>1. UNCHANGED <<waiting, lk>> /\ pc[t] = "move" /\ lk = t /\ pc'[t] = "wake"
    BY <1>1, <1>2, <1>6 DEF Move, Goto, TypeOK
  <2>2. t \notin waiting
    BY <2>1 DEF NoLostWakeup
  <2> QED BY <1>1, <2>1, <2>2 DEF NoLostWakeup
<1>7. CASE Wake(t)
  BY <1>7 DEF Wake, cond_broadcast, NoLostWakeup
<1>8. CASE Unlock(t)
  <2>1. UNCHANGED <<waiting, head, rear>> /\ pc[t] = "unlock" /\ lk = t
    BY <1>2, <1>8 DEF Unlock
  <2>2. t \notin waiting /\ \A u \in waiting : Blocked(u)
    BY <2>1 DEF NoLostWakeup
  <2> QED BY <1>1, <2>1, <2>2 DEF NoLostWakeup, Blocked
<1> QED BY <1>3, <1>4, <1>5, <1>6, <1>7, <1>8 DEF Step

LEMMA NextWakes == IInv /\ NoLostWakeup /\ [Next]_vars => NoLostWakeup'
<1> SUFFICES ASSUME IInv, NoLostWakeup, [Next]_vars PROVE NoLostWakeup'
  OBVIOUS
<1>1. CASE UNCHANGED <<lk, pc, head, rear>> /\ waiting' \subseteq waiting
  BY <1>1 DEF NoLostWakeup, Blocked
<1>2. ASSUME NEW t \in Threads, Wakeup(t) PROVE NoLostWakeup'
  BY <1>1, <1>2 DEF Wakeup, SpuriousWakeup
<1>3. CASE UNCHANGED vars
  BY <1>1, <1>3 DEF vars
<1> QED BY <1>2, <1>3, StepWakes, RingAssumption DEF Next, Tproducer, Tconsumer

\* pc.cpp loses no wakeup, although producers and consumers share one
\* condition variable.
THEOREM NoWakeupIsLost == Spec => []NoLostWakeup
<1>1. Init => NoLostWakeup
  BY DEF Init, SyncInit, NoLostWakeup
<1> QED BY <1>1, NextWakes, Invariance, PTL DEF Spec

\* The threads of pc.cpp never all sleep: the ring is not full and empty at
\* once, and whoever is about to notify is awake.
THEOREM AlwaysSomebodyAwake == Spec => []SomebodyAwake
<1>1. IInv /\ NoLostWakeup => SomebodyAwake
  <2> SUFFICES ASSUME IInv, NoLostWakeup, N > 1, NEW p \in Producers, NEW c \in Consumers,
                      \A t \in Threads : t \in waiting
               PROVE  FALSE
    BY DEF SomebodyAwake
  <2>1. Blocked(p) /\ Blocked(c)
    BY RingAssumption DEF NoLostWakeup
  <2>2. (rear + 1) % N = head /\ head = rear
    BY <2>1, RingAssumption DEF Blocked
  <2>3. rear \in 0 .. N - 1 /\ 1 \in 0 .. N
    BY RingAssumption DEF IInv, TypeOK
  <2>4. (rear + 1) % N = IF rear + 1 < N THEN rear + 1 ELSE rear + 1 - N
    BY <2>3, CellIs DEF Cell
  <2> QED BY <2>2, <2>3, <2>4, RingAssumption
<1> QED BY <1>1, NoWakeupIsLost, Invariance, PTL
=============================================================================
