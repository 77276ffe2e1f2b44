------------------------------ MODULE SumAtomic ------------------------------
(***************************************************************************)
(* mutual_exclusion/sum-atomic.c on the thread library concurrency/thread.h *)
(* (a linked list of threads, joined by a destructor after main returns).  *)
(* join(Tsum) joins nothing: it stores Tsum as the function that join_all  *)
(* calls when all threads are joined.  So main prints `sum' while the      *)
(* threads run, and Tsum runs once more, in the main thread, at the end.   *)
(*   main:  "create", "join", "print", "join_all", "free", "join_fn",      *)
(*          "exit"                                                         *)
(*   pc[t]: "new" (not created), "entry" (entry_all), "run" (in Tsum),     *)
(*          "done"                                                         *)
(* pthread_create is taken to succeed; its result is not checked.          *)
(***************************************************************************)
EXTENDS Integers, Sequences, FiniteSets

CONSTANTS K,                    \* calls of create() in main, at least one
          N                     \* #define N, a natural number

Ids == 1 .. K
Main == 0                       \* the main thread, when it runs join_fn

VARIABLES main,
          threads,              \* the list, newest first: node id is `id'
          freed,                \* the nodes given back to malloc
          join_fn,              \* is join_fn set?
          sum, pc,
          i                     \* the loop counter of every call of Tsum

vars == <<main, threads, freed, join_fn, sum, pc, i>>

Init == /\ main = "create"
        /\ threads = <<>> /\ freed = {} /\ join_fn = FALSE
        /\ sum = 0
        /\ pc = [t \in Ids |-> "new"]
        /\ i = [t \in Ids \cup {Main} |-> 0]

\* create(): the node gets the number after the newest one's and is the new
\* head of the list; then the thread starts.
Create == /\ main = "create"
          /\ LET id == IF threads = <<>> THEN 1 ELSE Head(threads) + 1
             IN  /\ threads' = <<id>> \o threads
                 /\ pc' = [pc EXCEPT ![id] = "entry"]
                 /\ main' = IF id = K THEN "join" ELSE "create"
          /\ UNCHANGED <<freed, join_fn, sum, i>>

\* join(fn).
SetJoinFn == /\ main = "join"
             /\ join_fn' = TRUE
             /\ main' = "print"
             /\ UNCHANGED <<threads, freed, sum, pc, i>>

\* printf and the return from main; the destructor runs next.
Printf == /\ main = "print"
          /\ main' = "join_all"
          /\ UNCHANGED <<threads, freed, join_fn, sum, pc, i>>

\* Bug: the list is walked without waiting for the threads.
Bug_PthreadJoin == /\ main = "join_all"
                   /\ main' = IF threads = <<>> THEN "join_fn" ELSE "free"
                   /\ UNCHANGED <<threads, freed, join_fn, sum, pc, i>>

\* The head of the loop in join_all: wait for the newest thread.
PthreadJoin == /\ main = "join_all"
               /\ IF threads = <<>>
                    THEN main' = "join_fn"
                    ELSE pc[Head(threads)] = "done" /\ main' = "free"
               /\ UNCHANGED <<threads, freed, join_fn, sum, pc, i>>

\* The rest of the loop body: free the node and go to the next one.
Free == /\ main = "free"
        /\ freed' = freed \cup {Head(threads)}
        /\ threads' = Tail(threads)
        /\ main' = "join_all"
        /\ UNCHANGED <<join_fn, sum, pc, i>>

\* One round of the loop in Tsum: `lock addq' is one atomic step.
Add(t) == i[t] < N /\ sum' = sum + 1 /\ i' = [i EXCEPT ![t] = @ + 1]

\* join_fn?join_fn():0 at the end of join_all.
JoinFn == /\ main = "join_fn"
          /\ IF join_fn /\ i[Main] < N
               THEN Add(Main) /\ UNCHANGED main
               ELSE main' = "exit" /\ UNCHANGED <<sum, i>>
          /\ UNCHANGED <<threads, freed, join_fn, pc>>

MainThread == Create \/ SetJoinFn \/ Printf \/ PthreadJoin \/ Free \/ JoinFn

\* entry_all reads the entry point and the id from the node and calls Tsum.
EntryAll(t) == /\ pc[t] = "entry"
               /\ pc' = [pc EXCEPT ![t] = "run"]
               /\ UNCHANGED <<main, threads, freed, join_fn, sum, i>>

Tsum(t) == /\ pc[t] = "run"
           /\ IF i[t] < N THEN Add(t) /\ UNCHANGED pc
                          ELSE pc' = [pc EXCEPT ![t] = "done"] /\ UNCHANGED <<sum, i>>
           /\ UNCHANGED <<main, threads, freed, join_fn>>

Next == MainThread \/ \E t \in Ids : EntryAll(t) \/ Tsum(t)

\* All threads are run when they can run.
Spec == /\ Init /\ [][Next]_vars
        /\ WF_vars(MainThread)
        /\ \A t \in Ids : WF_vars(EntryAll(t) \/ Tsum(t))

-----------------------------------------------------------------------------
\* The library never gives a node back before its thread has read it: a slow
\* thread may reach entry_all long after main has returned.
ReadsLiveNode == \A t \in Ids : pc[t] = "entry" => t \notin freed

\* At the end of the process all nodes are freed and `sum' is exact: N for
\* each thread, and N more for the Tsum that join_fn runs.
ExitsClean == main = "exit" => /\ freed = Ids /\ threads = <<>>
                               /\ sum = (K + 1) * N
-----------------------------------------------------------------------------
\* Why the two hold.
TypeOK == /\ main \in {"create", "join", "print", "join_all", "free", "join_fn", "exit"}
          /\ threads \in Seq(Ids) /\ freed \subseteq Ids
          /\ join_fn \in BOOLEAN /\ sum \in Nat
          /\ pc \in [Ids -> {"new", "entry", "run", "done"}]
          /\ i \in [Ids \cup {Main} -> 0 .. N]

\* The list holds the numbers from its length down to 1.  While main creates,
\* later numbers are not in use; after that they are freed, and their threads
\* have ended.
List == /\ \A k \in 1 .. Len(threads) : threads[k] = Len(threads) + 1 - k
        /\ Len(threads) <= K
        /\ \A t \in Ids : /\ pc[t] = "new" <=> main = "create" /\ t > Len(threads)
                          /\ t \in freed <=> main # "create" /\ t > Len(threads)
                          /\ t \in freed => pc[t] = "done"
        /\ main = "create" => Len(threads) < K
        /\ main \in {"join", "print"} => Len(threads) = K
        /\ main = "free" => Len(threads) > 0 /\ pc[Len(threads)] = "done"
        /\ main \in {"join_fn", "exit"} => Len(threads) = 0

\* How far each call of Tsum is.
Rounds == /\ \A t \in Ids : /\ pc[t] \in {"new", "entry"} => i[t] = 0
                            /\ pc[t] = "done" => i[t] = N
          /\ main \notin {"join_fn", "exit"} => i[Main] = 0
          /\ main = "exit" => i[Main] = N
          /\ join_fn <=> main \notin {"create", "join"}

\* The additions made, as pairs of a thread and a round: none is lost.
Additions == {a \in (Ids \cup {Main}) \X (0 .. N - 1) : a[2] < i[a[1]]}
NoAddLost == sum = Cardinality(Additions)

IInv == TypeOK /\ List /\ Rounds /\ NoAddLost
=============================================================================
