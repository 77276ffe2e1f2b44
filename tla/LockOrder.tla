----------------------------- MODULE LockOrder -----------------------------
(***************************************************************************)
(* simulate-deadlock: two threads take the same two mutexes in opposite    *)
(* orders, each sleeping a second between its two locks.  The program      *)
(* exists in Rust (src/main.rs; the guards unlock when the closure ends,   *)
(* the second one first) and in C (deadlock.c; explicit unlocks in the     *)
(* same order).  A sleep promises nothing about what others do meanwhile.  *)
(*   pc[t]: "new" (not spawned), "ask1", "first", "got1", "sleep", "ask2", *)
(*          "second", "got2", "both", "one", "ret", "done"                 *)
(*   main:  "spawnA", "spawnB", "joinA", "joinB", "print", "exit"          *)
(***************************************************************************)
Threads == {"A", "B"}           \* also the names of the two resources

VARIABLES owner,                \* MUTEX_A and MUTEX_B: the holder, or "nobody"
          pc, main

vars == <<owner, pc, main>>

Init == /\ owner = [m \in Threads |-> "nobody"]
        /\ pc = [t \in Threads |-> "new"]
        /\ main = "spawnA"

\* Thread t locks its own resource first and the other thread's second.
Other(t) == IF t = "A" THEN "B" ELSE "A"

Goto(t, from, to) == pc[t] = from /\ pc' = [pc EXCEPT ![t] = to]

Acquire(t, m) == owner[m] = "nobody" /\ owner' = [owner EXCEPT ![m] = t]
Release(m) == owner' = [owner EXCEPT ![m] = "nobody"]

\* The four messages of each thread and the sleep change no shared state.
Say(t) == /\ \/ Goto(t, "ask1", "first")
             \/ Goto(t, "got1", "sleep")
             \/ Goto(t, "ask2", "second")
             \/ Goto(t, "got2", "both")
          /\ UNCHANGED owner
Sleep(t) == Goto(t, "sleep", "ask2") /\ UNCHANGED owner

LockFirst(t) == Goto(t, "first", "got1") /\ Acquire(t, t)
LockSecond(t) == Goto(t, "second", "got2") /\ Acquire(t, Other(t))
UnlockSecond(t) == Goto(t, "both", "one") /\ Release(Other(t))

\* Bug: the first resource stays locked (a leaked guard).
Bug_UnlockFirst(t) == Goto(t, "one", "ret") /\ UNCHANGED owner

UnlockFirst(t) == Goto(t, "one", "ret") /\ Release(t)

\* The thread function returns; from here on the thread can be joined.
ThreadReturn(t) == Goto(t, "ret", "done") /\ UNCHANGED owner

Run(t) == /\ \/ Say(t) \/ Sleep(t) \/ LockFirst(t) \/ LockSecond(t)
             \/ UnlockSecond(t) \/ UnlockFirst(t) \/ ThreadReturn(t)
          /\ UNCHANGED main

Spawn(t, from, to) == /\ main = from /\ main' = to
                      /\ Goto(t, "new", "ask1")
                      /\ UNCHANGED owner

Join(t, from, to) == /\ main = from /\ main' = to
                     /\ pc[t] = "done"
                     /\ UNCHANGED <<owner, pc>>

\* The last statement: "This is not printed", or "exit" in C.
Println == main = "print" /\ main' = "exit" /\ UNCHANGED <<owner, pc>>

Main == \/ Spawn("A", "spawnA", "spawnB")
        \/ Spawn("B", "spawnB", "joinA")
        \/ Join("A", "joinA", "joinB")
        \/ Join("B", "joinB", "print")
        \/ Println

Next == Main \/ \E t \in Threads : Run(t)

\* All three threads are run when they can run.
Spec == Init /\ [][Next]_vars /\ WF_vars(Main) /\ \A t \in Threads : WF_vars(Run(t))

-----------------------------------------------------------------------------
\* Each thread has its first resource and waits for the other's.
Crossed == \A t \in Threads : owner[t] = t /\ pc[t] = "second"

\* The two ways in which the program can come to rest.
AtRest == Crossed \/ main = "exit"
=============================================================================
