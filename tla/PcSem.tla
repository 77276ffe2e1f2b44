-------------------------------- MODULE PcSem --------------------------------
(***************************************************************************)
(* thread-synchronization/pc-sem.c: producer-consumer with two counting    *)
(* semaphores and no mutex.  Several threads may be between P and V at the *)
(* same time, so the text is printed by concurrent printfs.                *)
(* pc[t] is "P", "print" or "V", the next statement of thread t.           *)
(***************************************************************************)
EXTENDS Integers, FiniteSets

CONSTANTS Producers, Consumers, \* the threads that run producer() and consumer()
          n                     \* atoi(argv[1])

Threads == Producers \cup Consumers

ASSUME PcAssumption == /\ Producers \cap Consumers = {}
                       /\ IsFiniteSet(Producers)
                       /\ IsFiniteSet(Consumers)
                       /\ n \in Nat

VARIABLES pc,
          fill, empty,          \* the values of the two semaphores
          depth                 \* nesting of the text printed so far

vars == <<pc, fill, empty, depth>>

Init == /\ pc = [t \in Threads |-> "P"]
        /\ fill = 0
        /\ empty = n
        /\ depth = 0

Goto(t, label) == pc' = [pc EXCEPT ![t] = label]

\* P (sem_wait): blocks until the semaphore is positive, then takes one.
Psem(t) == /\ pc[t] = "P"
           /\ IF t \in Producers
                THEN empty > 0 /\ empty' = empty - 1 /\ fill' = fill
                ELSE fill > 0 /\ fill' = fill - 1 /\ empty' = empty
           /\ Goto(t, "print")
           /\ UNCHANGED depth

Printf(t) == /\ pc[t] = "print"
             /\ depth' = IF t \in Producers THEN depth + 1 ELSE depth - 1
             /\ Goto(t, "V")
             /\ UNCHANGED <<fill, empty>>

\* Bug: a consumer gives its slot back to `fill'.
Bug_Vsem(t) == /\ pc[t] = "V"
               /\ fill' = fill + 1
               /\ Goto(t, "P")
               /\ UNCHANGED <<depth, empty>>

\* Bug: a consumer forgets V(&empty), so that slots leak.
Bug_VsemLeak(t) == /\ pc[t] = "V"
                   /\ fill' = IF t \in Producers THEN fill + 1 ELSE fill
                   /\ Goto(t, "P")
                   /\ UNCHANGED <<depth, empty>>

\* V (sem_post).
Vsem(t) == /\ pc[t] = "V"
           /\ IF t \in Producers
                THEN fill' = fill + 1 /\ empty' = empty
                ELSE empty' = empty + 1 /\ fill' = fill
           /\ Goto(t, "P")
           /\ UNCHANGED depth

Step(t) == Psem(t) \/ Printf(t) \/ Vsem(t)

producer(p) == p \in Producers /\ Step(p)

consumer(c) == c \in Consumers /\ Step(c)

Next == \/ \E p \in Producers : producer(p)
        \/ \E c \in Consumers : consumer(c)

\* Every thread that can run is run; who gets a contended semaphore is open.
Spec == Init /\ [][Next]_vars /\ \A t \in Threads : WF_vars(Step(t))

-----------------------------------------------------------------------------
\* Every variable has the values the code gives it.
TypeOK == /\ pc \in [Threads -> {"P", "print", "V"}]
          /\ fill \in Nat /\ empty \in Nat
          /\ depth \in Int

At(S, label) == {t \in S : pc[t] = label}

\* Slots are neither lost nor invented: every one of the n slots is in one of
\* the semaphores or with a thread between its P and its V.
SlotsConserved ==
  n = empty + fill + Cardinality(At(Producers, "print")) + Cardinality(At(Producers, "V"))
                   + Cardinality(At(Consumers, "print")) + Cardinality(At(Consumers, "V"))

\* Without a mutex the text does not follow one variable: its nesting is
\* `fill', plus the "(" that are printed and not posted yet, plus the items
\* that are taken and whose ")" is not printed yet.
TextIsFill == depth = fill + Cardinality(At(Producers, "V"))
                           + Cardinality(At(Consumers, "print"))

\* The inductive invariant.
IInv == TypeOK /\ SlotsConserved /\ TextIsFill

\* The assertion of pc-check.py line 9: concurrent printfs never make the
\* text unbalanced or deeper than n.
WellNested == 0 <= depth /\ depth <= n

\* The text is balanced, of depth at most n, and grows for ever.
ParenSpec == INSTANCE Parens
ImplementsParens == ParenSpec!Spec
=============================================================================
