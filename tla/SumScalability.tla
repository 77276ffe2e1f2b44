--------------------------- MODULE SumScalability ---------------------------
(***************************************************************************)
(* mutual_exclusion/sum-scalability-spin.c and -mutex.c with the thread    *)
(* pool of mutual_exclusion/thread.h: main creates nthread threads, each   *)
(* adds 1 to `sum' n times under a lock, main joins them and asserts the   *)
(* total.  The two programs differ in the lock only.  A spin_lock whose    *)
(* exchange finds the lock taken writes the value that is there already    *)
(* and tries again, so a spinning and a sleeping thread are the same here: *)
(* both wait until `lock' is 0.                                            *)
(*   main:  "argv" (n is computed), "create", "join", "assert",            *)
(*          "cleanup" (the destructor joins again), "exit", "aborted",     *)
(*          "fault"                                                        *)
(*   pc[t]: "free" (slot not used yet), "loop", "lock", "load", "store",   *)
(*          "unlock", "done"                                               *)
(***************************************************************************)
EXTENDS Integers, FiniteSets

CONSTANTS N,                    \* #define N, the additions to share out
          NTHREAD,              \* #define NTHREAD, the slots of the pool
          Args                  \* the values of atoi(argv[1]) to consider

ASSUME SumAssumption == N \in Nat /\ NTHREAD \in Nat /\ Args \subseteq Int

Slots == 1 .. NTHREAD           \* tpool[id - 1] is the slot of thread id

\* With a pool of three slots and seven additions: arguments on both sides of
\* its bounds, of which two and three do not divide seven, and -8 makes n = 0.
MCArgs == {-8} \cup (-2 .. 4)

VARIABLES nthread, main,
          created,              \* tptr - tpool
          index,                \* the i of join(), from 1
          status,               \* tpool[..].status
          lock, sum,
          pc, i, reg            \* per thread: statement, loop counter, sum read

vars == <<nthread, main, created, index, status, lock, sum, pc, i, reg>>

\* C's division rounds towards zero.
n == IF nthread > 0 THEN N \div nthread ELSE -(N \div (-nthread))

Init == /\ nthread \in Args
        /\ main = "argv" /\ created = 0 /\ index = 1
        /\ status = [t \in Slots |-> "T_FREE"]
        /\ lock = 0 /\ sum = 0
        /\ pc = [t \in Slots |-> "free"]
        /\ i = [t \in Slots |-> 0]
        /\ reg = [t \in Slots |-> 0]

mainVars == <<nthread, main, created, index, status>>
threadVars == <<lock, sum, i, reg>>

\* n = N / nthread: dividing by zero kills the process.
ReadArgs == /\ main = "argv"
            /\ main' = IF nthread = 0 THEN "fault" ELSE "create"
            /\ UNCHANGED <<nthread, created, index, status, pc, threadVars>>

\* Bug: create() without the check that the pool has a free slot left; the
\* last slot is used twice.
Bug_Create ==
  /\ main = "create"
  /\ IF created < nthread
       THEN LET t == IF created < NTHREAD THEN created + 1 ELSE NTHREAD
            IN  /\ created' = created + 1
                /\ status' = [status EXCEPT ![t] = "T_LIVE"]
                /\ pc' = [pc EXCEPT ![t] = "loop"]
                /\ UNCHANGED main
       ELSE main' = "join" /\ UNCHANGED <<created, status, pc>>
  /\ UNCHANGED <<nthread, index, threadVars>>

\* The loop of calls to create(), which asserts that a slot is free.
Create ==
  /\ main = "create"
  /\ IF created < nthread
       THEN IF created < NTHREAD
              THEN /\ created' = created + 1
                   /\ status' = [status EXCEPT ![created + 1] = "T_LIVE"]
                   /\ pc' = [pc EXCEPT ![created + 1] = "loop"]
                   /\ UNCHANGED main
              ELSE main' = "aborted" /\ UNCHANGED <<created, status, pc>>
       ELSE main' = "join" /\ UNCHANGED <<created, status, pc>>
  /\ UNCHANGED <<nthread, index, threadVars>>

\* Bug: join() stops one slot early.
Bug_Join(at, next) ==
  /\ main = at
  /\ IF index < NTHREAD
       THEN /\ status[index] = "T_LIVE" => pc[index] = "done"
            /\ status' = [status EXCEPT ![index] = IF @ = "T_LIVE" THEN "T_DEAD" ELSE @]
            /\ index' = index + 1
            /\ UNCHANGED main
       ELSE main' = next /\ index' = 1 /\ UNCHANGED status
  /\ UNCHANGED <<nthread, created, pc, threadVars>>

\* join() goes through all slots and waits for the thread of each live one.
Join(at, next) ==
  /\ main = at
  /\ IF index <= NTHREAD
       THEN /\ status[index] = "T_LIVE" => pc[index] = "done"
            /\ status' = [status EXCEPT ![index] = IF @ = "T_LIVE" THEN "T_DEAD" ELSE @]
            /\ index' = index + 1
            /\ UNCHANGED main
       ELSE main' = next /\ index' = 1 /\ UNCHANGED status
  /\ UNCHANGED <<nthread, created, pc, threadVars>>

\* assert(sum == n * nthread).
Assert == /\ main = "assert"
          /\ main' = IF sum = n * nthread THEN "cleanup" ELSE "aborted"
          /\ UNCHANGED <<nthread, created, index, status, pc, threadVars>>

Main == ReadArgs \/ Create \/ Join("join", "assert") \/ Assert \/ Join("cleanup", "exit")

Goto(t, from, to) == pc[t] = from /\ pc' = [pc EXCEPT ![t] = to]

Loop(t) == /\ Goto(t, "loop", IF i[t] < n THEN "lock" ELSE "done")
           /\ UNCHANGED threadVars

\* Bug: the value read and the value written are two separate operations.
Bug_Lock(t) == /\ Goto(t, "lock", "load")
               /\ lock' = 1
               /\ UNCHANGED <<sum, i, reg>>

\* The exchange that finds 0 (spin_lock), or mutex_lock.
Lock(t) == /\ Goto(t, "lock", "load")
           /\ lock = 0 /\ lock' = 1
           /\ UNCHANGED <<sum, i, reg>>

\* sum++ is a load and a store; only the lock makes it one.
Load(t) == /\ Goto(t, "load", "store")
           /\ reg' = [reg EXCEPT ![t] = sum]
           /\ UNCHANGED <<lock, sum, i>>

Store(t) == /\ Goto(t, "store", "unlock")
            /\ sum' = reg[t] + 1
            /\ UNCHANGED <<lock, i, reg>>

\* The exchange that writes 0 (spin_unlock), or mutex_unlock; then i++.
Unlock(t) == /\ Goto(t, "unlock", "loop")
             /\ lock' = 0
             /\ i' = [i EXCEPT ![t] = @ + 1]
             /\ UNCHANGED <<sum, reg>>

\* A failed assert or a fault takes all threads down with the process.
Tsum(t) == /\ main \notin {"aborted", "fault"}
           /\ Loop(t) \/ Lock(t) \/ Load(t) \/ Store(t) \/ Unlock(t)
           /\ UNCHANGED mainVars

Next == Main \/ \E t \in Slots : Tsum(t)

\* All threads are run when they can run; the lock is not fair.
Spec == Init /\ [][Next]_vars /\ WF_vars(Main) /\ \A t \in Slots : WF_vars(Tsum(t))

-----------------------------------------------------------------------------
MainLabels == {"argv", "create", "join", "assert", "cleanup", "exit", "aborted", "fault"}
ThreadLabels == {"free", "loop", "lock", "load", "store", "unlock", "done"}

\* Every variable has the values the code gives it.
TypeOK == /\ nthread \in Args /\ main \in MainLabels
          /\ created \in 0 .. NTHREAD /\ index \in 1 .. NTHREAD + 1
          /\ status \in [Slots -> {"T_FREE", "T_LIVE", "T_DEAD"}]
          /\ lock \in {0, 1} /\ sum \in Nat
          /\ pc \in [Slots -> ThreadLabels]
          /\ i \in [Slots -> Nat] /\ reg \in [Slots -> Nat]

\* At most one thread is between lock and unlock, and the lock shows it.
InCritical(t) == pc[t] \in {"load", "store", "unlock"}

Exclusion == /\ \A s, t \in Slots : InCritical(s) /\ InCritical(t) => s = t
             /\ lock = 1 <=> \E t \in Slots : InCritical(t)

\* The additions thread t has made: pairs <<t, j>>, one for each round j.
Done == {d \in Slots \X (0 .. n - 1) :
           \/ d[2] < i[d[1]]
           \/ d[2] = i[d[1]] /\ pc[d[1]] = "unlock"}

\* `sum' counts every addition once: none is lost, at any moment.
NoUpdateLost == nthread > 0 => sum = Cardinality(Done)

\* What each thread knows: the sum it read is current when it writes it back,
\* it is inside its loop bound, and a finished thread has done all its rounds.
LocalState == \A t \in Slots :
  /\ pc[t] = "store" => reg[t] = sum
  /\ pc[t] \in {"lock", "load", "store", "unlock"} => i[t] < n
  /\ pc[t] = "loop" => i[t] <= n
  /\ pc[t] = "done" => i[t] = n
  /\ pc[t] = "free" => i[t] = 0

\* What main knows of the pool: the used slots are the first `created' ones,
\* and join() has passed only slots whose thread is done.
PoolState ==
  /\ main \in {"argv", "fault"} => created = 0
  /\ main \in {"argv", "create"} => index = 1
  /\ main # "argv" /\ main # "fault" => nthread # 0
  /\ main \in {"join", "assert", "cleanup", "exit"} => created >= nthread
  /\ nthread > 0 => created <= nthread
  /\ nthread <= 0 => created = 0
  /\ \A t \in Slots : /\ status[t] = "T_FREE" <=> t > created
                      /\ pc[t] = "free" <=> t > created
                      /\ status[t] = "T_DEAD" => pc[t] = "done"
  /\ main = "join" => \A t \in 1 .. index - 1 : status[t] # "T_LIVE"
  /\ main \in {"assert", "cleanup", "exit"} => \A t \in Slots : status[t] # "T_LIVE"

\* The inductive invariant.
IInv == TypeOK /\ Exclusion /\ NoUpdateLost /\ LocalState /\ PoolState

\* The assertion of line 25 holds whenever it is reached with at least one
\* thread: no addition is lost and join() waits for all of them.  (With a
\* negative argument no thread is made and the assertion fails.)
SumIsExact == main = "assert" /\ nthread > 0 => sum = n * nthread

\* The process comes to an end, for every argument: more threads than slots
\* abort it in create(), zero divides by zero, and a negative number makes no
\* thread and fails the assertion of line 25 unless it is so large that n is 0.
Implied == IF nthread = 0 THEN "fault"
           ELSE IF nthread \in Slots \/ nthread < -N THEN "exit" ELSE "aborted"
EndsAsArgumentSays == <>[](main = Implied)

\* The part of it that does not depend on fairness.
EndsNoOtherWay == main \in {"fault", "exit", "aborted"} => main = Implied

\* Why: a negative argument makes no thread, so nobody adds.
Outcome == /\ main = "fault" => nthread = 0
           /\ main \in {"cleanup", "exit"} => nthread \in Slots \/ nthread < -N
           /\ main = "aborted" => nthread # 0 /\ nthread \notin Slots /\ ~(nthread < -N)
           /\ nthread <= 0 => sum = 0
=============================================================================
