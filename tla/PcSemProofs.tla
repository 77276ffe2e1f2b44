----------------------------- MODULE PcSemProofs -----------------------------
(***************************************************************************)
(* Proofs about pc-sem.c for any finite number of producers and consumers  *)
(* and any buffer size.  The argument counts threads: a P or a V moves one *)
(* slot between a semaphore and the set of threads at one statement.       *)
(***************************************************************************)
EXTENDS PcSem, FiniteSetTheorems, TLAPS

Side(S) == S = Producers \/ S = Consumers

\* How many threads of one side are at a statement.
Num(S, label) == Cardinality(At(S, label))

\* The counts of threads are natural numbers.
LEMMA NumType ==
  ASSUME NEW S, Side(S), NEW label
  PROVE  IsFiniteSet(At(S, label)) /\ Num(S, label) \in Nat
<1>1. IsFiniteSet(S) /\ At(S, label) \in SUBSET S
  BY PcAssumption DEF Side, At
<1>2. IsFiniteSet(At(S, label))
  BY <1>1, FS_Subset
<1> QED BY <1>2, FS_CardinalityType DEF Num

\* When thread t of side S goes from statement a to b, one thread fewer is at
\* a and one more is at b; the rest of its side stays where it is.
LEMMA Moved ==
  ASSUME TypeOK, NEW S, Side(S), NEW t \in S,
         NEW a, NEW b, a # b, pc[t] = a, Goto(t, b)
  PROVE  /\ Num(S, a)' = Num(S, a) - 1
         /\ Num(S, b)' = Num(S, b) + 1
         /\ \A c : c # a /\ c # b => Num(S, c)' = Num(S, c)
<1>1. S \subseteq Threads /\ DOMAIN pc = Threads
  BY DEF Side, Threads, TypeOK
<1>2. \A x \in S : pc'[x] = IF x = t THEN b ELSE pc[x]
  BY <1>1 DEF Goto
<1>3. At(S, a)' = At(S, a) \ {t} /\ t \in At(S, a)
  BY <1>2 DEF At
<1>4. At(S, b)' = At(S, b) \cup {t} /\ t \notin At(S, b)
  BY <1>2 DEF At
<1>5. \A c : c # a /\ c # b => At(S, c)' = At(S, c)
  BY <1>2 DEF At
<1>6. Num(S, a)' = Num(S, a) - 1
  BY <1>3, NumType, FS_RemoveElement DEF Num
<1>7. Num(S, b)' = Num(S, b) + 1
  BY <1>4, NumType, FS_AddElement DEF Num
<1> QED BY <1>5, <1>6, <1>7 DEF Num

\* A step of a thread leaves the other side where it is.
LEMMA NotMoved ==
  ASSUME TypeOK, NEW S, Side(S), NEW t \in Threads \ S, NEW b, Goto(t, b), NEW c
  PROVE  Num(S, c)' = Num(S, c)
<1>1. S \subseteq Threads /\ DOMAIN pc = Threads
  BY DEF Side, Threads, TypeOK
<1>2. \A x \in S : pc'[x] = pc[x]
  BY <1>1 DEF Goto
<1>3. At(S, c)' = At(S, c)
  BY <1>2 DEF At
<1> QED BY <1>3 DEF Num

\* The two conservation laws, in terms of Num.
LEMMA Laws ==
  /\ SlotsConserved <=> n = empty + fill + Num(Producers, "print") + Num(Producers, "V")
                              + Num(Consumers, "print") + Num(Consumers, "V")
  /\ TextIsFill <=> depth = fill + Num(Producers, "V") + Num(Consumers, "print")
BY DEF SlotsConserved, TextIsFill, Num

\* Initially all slots are in `empty' and nobody is between P and V.
LEMMA InitIInv == Init => IInv
<1> SUFFICES ASSUME Init PROVE IInv
  OBVIOUS
<1>1. TypeOK
  BY PcAssumption DEF Init, TypeOK, Threads
<1>2. \A S, l : S \subseteq Threads /\ l # "P" => At(S, l) = {}
  BY DEF Init, At
<1>3. \A S, l : S \subseteq Threads /\ l # "P" => Num(S, l) = 0
  BY <1>2, FS_EmptySet DEF Num
<1>4. /\ Num(Producers, "print") = 0 /\ Num(Producers, "V") = 0
      /\ Num(Consumers, "print") = 0 /\ Num(Consumers, "V") = 0
  BY <1>3 DEF Threads
<1> QED BY <1>1, <1>4, Laws, PcAssumption DEF IInv, Init

\* One step of any thread keeps the conservation laws.
LEMMA StepIInv ==
  ASSUME IInv, NEW t \in Threads, Step(t)
  PROVE  IInv'
<1>1. TypeOK /\ SlotsConserved /\ TextIsFill
  BY DEF IInv
<1>2. TypeOK'
  BY <1>1 DEF TypeOK, Step, Psem, Printf, Vsem, Goto
<1>3. \A S, l : Side(S) => Num(S, l) \in Nat
  BY NumType
<1>4. Side(Producers) /\ Side(Consumers)
  BY DEF Side
<1> DEFINE Pr(l) == Num(Producers, l)
           Co(l) == Num(Consumers, l)
<1>5. /\ Pr("print") \in Nat /\ Pr("V") \in Nat /\ Pr("P") \in Nat
      /\ Co("print") \in Nat /\ Co("V") \in Nat /\ Co("P") \in Nat
  BY <1>3, <1>4
<1>5a. /\ SlotsConserved' <=> n = empty' + fill' + Pr("print")' + Pr("V")'
                                  + Co("print")' + Co("V")'
      /\ TextIsFill' <=> depth' = fill' + Pr("V")' + Co("print")'
  BY DEF SlotsConserved, TextIsFill, Num
<1>6. CASE t \in Producers
  <2>1. t \in Threads \ Consumers
    BY <1>6, PcAssumption
  <2>2. ASSUME NEW b, Goto(t, b) PROVE Co("print")' = Co("print") /\ Co("V")' = Co("V")
    BY <1>1, <1>4, <2>1, <2>2, NotMoved
  <2>3. CASE Psem(t)
    <3>1. Pr("print")' = Pr("print") + 1 /\ Pr("V")' = Pr("V")
      BY <1>1, <1>4, <1>6, <2>3, Moved DEF Psem
    <3>2. Co("print")' = Co("print") /\ Co("V")' = Co("V")
      BY <2>2, <2>3 DEF Psem
    <3>3. empty' = empty - 1 /\ fill' = fill /\ depth' = depth
      BY <1>6, <2>3 DEF Psem
    <3> QED BY <1>1, <1>2, <1>5, <3>1, <3>2, <3>3, <1>5a, Laws DEF IInv, TypeOK
  <2>4. CASE Printf(t)
    <3>1. Pr("print")' = Pr("print") - 1 /\ Pr("V")' = Pr("V") + 1
      BY <1>1, <1>4, <1>6, <2>4, Moved DEF Printf
    <3>2. Co("print")' = Co("print") /\ Co("V")' = Co("V")
      BY <2>2, <2>4 DEF Printf
    <3>3. empty' = empty /\ fill' = fill /\ depth' = depth + 1
      BY <1>6, <2>4 DEF Printf
    <3> QED BY <1>1, <1>2, <1>5, <3>1, <3>2, <3>3, <1>5a, Laws DEF IInv, TypeOK
  <2>5. CASE Vsem(t)
    <3>1. Pr("print")' = Pr("print") /\ Pr("V")' = Pr("V") - 1
      BY <1>1, <1>4, <1>6, <2>5, Moved DEF Vsem
    <3>2. Co("print")' = Co("print") /\ Co("V")' = Co("V")
      BY <2>2, <2>5 DEF Vsem
    <3>3. empty' = empty /\ fill' = fill + 1 /\ depth' = depth
      BY <1>6, <2>5 DEF Vsem
    <3> QED BY <1>1, <1>2, <1>5, <3>1, <3>2, <3>3, <1>5a, Laws DEF IInv, TypeOK
  <2> QED BY <2>3, <2>4, <2>5 DEF Step
<1>7. CASE t \in Consumers
  <2>1. t \in Threads \ Producers /\ t \notin Producers
    BY <1>7, PcAssumption
  <2>2. ASSUME NEW b, Goto(t, b) PROVE Pr("print")' = Pr("print") /\ Pr("V")' = Pr("V")
    BY <1>1, <1>4, <2>1, <2>2, NotMoved
  <2>3. CASE Psem(t)
    <3>1. Co("print")' = Co("print") + 1 /\ Co("V")' = Co("V")
      BY <1>1, <1>4, <1>7, <2>3, Moved DEF Psem
    <3>2. Pr("print")' = Pr("print") /\ Pr("V")' = Pr("V")
      BY <2>2, <2>3 DEF Psem
    <3>3. empty' = empty /\ fill' = fill - 1 /\ depth' = depth
      BY <2>1, <2>3 DEF Psem
    <3> QED BY <1>1, <1>2, <1>5, <3>1, <3>2, <3>3, <1>5a, Laws DEF IInv, TypeOK
  <2>4. CASE Printf(t)
    <3>1. Co("print")' = Co("print") - 1 /\ Co("V")' = Co("V") + 1
      BY <1>1, <1>4, <1>7, <2>4, Moved DEF Printf
    <3>2. Pr("print")' = Pr("print") /\ Pr("V")' = Pr("V")
      BY <2>2, <2>4 DEF Printf
    <3>3. empty' = empty /\ fill' = fill /\ depth' = depth - 1
      BY <2>1, <2>4 DEF Printf
    <3> QED BY <1>1, <1>2, <1>5, <3>1, <3>2, <3>3, <1>5a, Laws DEF IInv, TypeOK
  <2>5. CASE Vsem(t)
    <3>1. Co("print")' = Co("print") /\ Co("V")' = Co("V") - 1
      BY <1>1, <1>4, <1>7, <2>5, Moved DEF Vsem
    <3>2. Pr("print")' = Pr("print") /\ Pr("V")' = Pr("V")
      BY <2>2, <2>5 DEF Vsem
    <3>3. empty' = empty + 1 /\ fill' = fill /\ depth' = depth
      BY <2>1, <2>5 DEF Vsem
    <3> QED BY <1>1, <1>2, <1>5, <3>1, <3>2, <3>3, <1>5a, Laws DEF IInv, TypeOK
  <2> QED BY <2>3, <2>4, <2>5 DEF Step
<1> QED BY <1>6, <1>7 DEF Threads

\* Every step keeps the inductive invariant.
LEMMA NextIInv == IInv /\ [Next]_vars => IInv'
<1> SUFFICES ASSUME IInv, [Next]_vars PROVE IInv'
  OBVIOUS
<1>1. CASE Next
  BY <1>1, StepIInv DEF Next, producer, consumer, Threads
<1>2. CASE UNCHANGED vars
  BY <1>2 DEF vars, IInv, TypeOK, SlotsConserved, TextIsFill, At
<1> QED BY <1>1, <1>2

\* pc-sem.c loses and invents no slot, and its text follows the semaphores.
THEOREM Invariance == Spec => []IInv
BY InitIInv, NextIInv, PTL DEF Spec

\* The nesting is bounded because the slots it counts are among the n.
LEMMA IInvWellNested == IInv => WellNested
<1> SUFFICES ASSUME IInv PROVE WellNested
  OBVIOUS
<1>1. /\ Num(Producers, "print") \in Nat /\ Num(Producers, "V") \in Nat
      /\ Num(Consumers, "print") \in Nat /\ Num(Consumers, "V") \in Nat
  BY NumType DEF Side
<1> QED BY <1>1, Laws, PcAssumption DEF IInv, TypeOK, WellNested

\* pc-check.py's assertion never fails on the output of pc-sem.c, although
\* its threads print without holding a mutex.
THEOREM OutputWellNested == Spec => []WellNested
BY Invariance, IInvWellNested, PTL

\* Every printf of pc-sem.c is a step Parens allows, every other step prints
\* nothing: the safety half of ImplementsParens.
THEOREM OutputIsBalanced == Spec => ParenSpec!Init /\ [][ParenSpec!Next]_depth
<1>1. Init => ParenSpec!Init
  BY DEF Init, ParenSpec!Init
<1>2. ASSUME IInv, [Next]_vars PROVE [ParenSpec!Next]_depth
  <2>1. ASSUME NEW t \in Threads, Printf(t) PROVE ParenSpec!Next
    <3>1. IInv' /\ (IInv' => WellNested') /\ WellNested
      BY <1>2, NextIInv, IInvWellNested, PTL
    <3>2. depth \in Int /\ depth' = IF t \in Producers THEN depth + 1 ELSE depth - 1
      BY <1>2, <2>1 DEF Printf, IInv, TypeOK
    <3> QED BY <3>1, <3>2, PcAssumption
            DEF WellNested, ParenSpec!Next, ParenSpec!Open, ParenSpec!Close
  <2>2. ASSUME NEW t \in Threads, Step(t), ~Printf(t) PROVE UNCHANGED depth
    BY <2>2 DEF Step, Psem, Vsem
  <2>3. CASE UNCHANGED vars
    BY <2>3 DEF vars
  <2> QED BY <1>2, <2>1, <2>2, <2>3 DEF Next, producer, consumer, Threads
<1> QED BY <1>1, <1>2, Invariance, PTL DEF Spec
=============================================================================
