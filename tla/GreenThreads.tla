---------------------------- MODULE GreenThreads ----------------------------
(***************************************************************************)
(* green-thread-explained: a cooperative scheduler with MAX_THREADS slots. *)
(* One CPU executes; `pc' is what it executes for the thread `current':    *)
(*   "main" (spawning), "run" (the loop of Runtime::run), "task" (a        *)
(*   closure), "guard", and the three ends "exit", "panic", "crash".       *)
(* A stack is a function from offsets below its aligned top to the words   *)
(* that decide where a `ret' goes.  The frames below a closure's own are   *)
(* one word, at -32: the return address into t_yield while it is suspended.*)
(* No closure yields: the calls of yield_thread() are commented out, and   *)
(* the function does not exist.                                            *)
(***************************************************************************)
EXTENDS Integers, Sequences

CONSTANTS MAX_THREADS,
          Works                 \* the programs main may be: for each spawn
                                \* the rounds of println! of its closure

ASSUME SlotsAssumption == MAX_THREADS \in Nat \ {0}
ASSUME WorksAssumption == Works \subseteq Seq(Nat)

VARIABLES work,                 \* main as compiled
          pc, current, state, rsp, stack,
          spawned,              \* spawn calls done
          left                  \* rounds left of each thread's closure

vars == <<work, pc, current, state, rsp, stack, spawned, left>>

Slots == 0..MAX_THREADS-1
State == {"Available", "Running", "Ready"}
Words == {"null", "guard", "task", "t_yield"}
Offsets == {-32, -24, -16, -8, 0}
Ended == {"exit", "panic", "crash"}

\* Runtime::new and init: the base thread runs, the others are available.
\* The stacks are zeroed and the contexts are the default, all zeros.
Init == /\ work \in Works
        /\ pc = "main" /\ current = 0
        /\ state = [t \in Slots |-> IF t = 0 THEN "Running" ELSE "Available"]
        /\ rsp = [t \in Slots |-> 0]
        /\ stack = [t \in Slots |-> [o \in Offsets |-> "null"]]
        /\ spawned = 0 /\ left = [t \in Slots |-> 0]

Available == {t \in Slots : state[t] = "Available"}

\* Bug: the slot is prepared and never made ready.
Bug_Spawn(t) ==
    /\ stack' = [stack EXCEPT ![t][-16] = "guard", ![t][-32] = "task"]
    /\ rsp' = [rsp EXCEPT ![t] = -32]
    /\ UNCHANGED state

\* The words written on the new stack, skip (136) being commented out.
Spawn(t) ==
    /\ stack' = [stack EXCEPT ![t][-16] = "guard", ![t][-32] = "task"]
    /\ rsp' = [rsp EXCEPT ![t] = -32]
    /\ state' = [state EXCEPT ![t] = "Ready"]

\* main's next spawn takes the first available slot, or panics.
SpawnTask == /\ pc = "main" /\ spawned < Len(work)
             /\ \E t \in Available :
                   /\ \A u \in Available : t <= u
                   /\ Spawn(t)
                   /\ left' = [left EXCEPT ![t] = work[spawned + 1]]
             /\ spawned' = spawned + 1
             /\ UNCHANGED <<work, pc, current>>

SpawnPanics == /\ pc = "main" /\ spawned < Len(work) /\ Available = {}
               /\ pc' = "panic"
               /\ UNCHANGED <<work, current, state, rsp, stack, spawned, left>>

StartRun == /\ pc = "main" /\ spawned = Len(work)
            /\ pc' = "run"
            /\ UNCHANGED <<work, current, state, rsp, stack, spawned, left>>

\* Where thread t goes on when a `ret' pops the word w.
Landing(w, t) == CASE w = "null" -> "crash"
                   [] w = "guard" -> "guard"
                   [] w = "task" -> "task"
                   [] w = "t_yield" -> IF t = 0 THEN "run" ELSE "task"

\* The steps from `current' to t in the ring of slots.
Distance(t) == IF t >= current THEN t - current ELSE t - current + MAX_THREADS

Ready == {t \in Slots : state[t] = "Ready"}

\* Bug: the thread that yields keeps its mark.
Bug_Mark(pos) == state' = [state EXCEPT ![pos] = "Running"]

\* The thread that yields becomes ready, unless it is available.
Mark(pos) == state' = [state EXCEPT
                 ![current] = IF @ = "Available" THEN @ ELSE "Ready",
                 ![pos] = "Running"]

\* switch (not in the repository): save the old stack pointer, load the new
\* one and return to the word found there.
Switch(old, new) ==
    LET saved == [stack EXCEPT ![old][-32] = "t_yield"]
        ptrs == [rsp EXCEPT ![old] = -32]
    IN /\ stack' = saved
       /\ rsp' = [ptrs EXCEPT ![new] = @ + 8]
       /\ pc' = Landing(saved[new][ptrs[new]], new)

\* t_yield finds the next ready slot after `current' and switches to it.
t_yield == /\ \E pos \in Ready :
                 /\ \A t \in Ready : Distance(pos) <= Distance(t)
                 /\ Mark(pos)
                 /\ current' = pos
                 /\ Switch(current, pos)
           /\ UNCHANGED <<work, spawned, left>>

\* t_yield comes back to `current' and returns false.
t_yieldFalse(next) ==
    /\ Ready = {}
    /\ pc' = next
    /\ UNCHANGED <<work, current, state, rsp, stack, spawned, left>>

\* The loop of run: it ends the process when t_yield returns false.
Run == pc = "run" /\ (t_yield \/ t_yieldFalse("exit"))

\* A round of a closure: its println!.
Round == /\ pc = "task" /\ left[current] > 0
         /\ left' = [left EXCEPT ![current] = @ - 1]
         /\ UNCHANGED <<work, pc, current, state, rsp, stack, spawned>>

\* A closure, or guard, whose body is empty, is over and pops its return
\* address.
AtReturn == pc = "guard" \/ (pc = "task" /\ left[current] = 0)
Return == /\ AtReturn
          /\ pc' = Landing(stack[current][rsp[current]], current)
          /\ rsp' = [rsp EXCEPT ![current] = @ + 8]
          /\ UNCHANGED <<work, current, state, stack, spawned, left>>

Next == SpawnTask \/ SpawnPanics \/ StartRun \/ Run \/ Round \/ Return

\* There is one CPU and it goes on executing.
Spec == Init /\ [][Next]_vars /\ WF_vars(Next)

-----------------------------------------------------------------------------
\* Exactly the current thread is marked Running, and the base thread is the
\* one that executes main and run.
OneRunning == /\ \A t \in Slots : state[t] = "Running" <=> t = current
              /\ pc \in {"main", "run", "exit", "panic"} => current = 0
              /\ pc \in {"task", "guard", "crash"} => current /= 0

\* A ready thread's saved stack pointer is at a word that continues it: the
\* closure, or t_yield for a thread that has run before.
Resumable == \A t \in Slots : state[t] = "Ready" =>
                /\ rsp[t] = -32
                /\ stack[t][-32] \in IF t = 0 THEN {"t_yield"} ELSE {"task", "t_yield"}

\* t_yield, spawn: the states of the slots say who runs, and every slot that
\* t_yield can pick can be switched to.
SwitchesSafely == OneRunning /\ Resumable

\* How the process must end.  A closure that returns finds no return address,
\* and run can exit only if nothing was spawned.
Verdict == IF Len(work) >= MAX_THREADS THEN "panic"
           ELSE IF work = <<>> THEN "exit" ELSE "crash"
Ends == pc = Verdict

\* The comment on guard (line 146): it `will be called when the task we provide
\* finishes and the function returns'.  It is not a property of this program:
\* see the run green_guard.
GuardIsCalled == (pc = "task" /\ left[current] = 0) ~> pc = "guard"

\* main as it is.
MainWorks == {<<10, 15>>}

-----------------------------------------------------------------------------
\* Why SwitchesSafely holds, and why guard never runs.
TypeOK == /\ work \in Seq(Nat)
          /\ pc \in {"main", "run", "task"} \cup Ended
          /\ current \in Slots
          /\ state \in [Slots -> State]
          /\ rsp \in [Slots -> {-32, -24, -16, 0}]
          /\ stack \in [Slots -> [Offsets -> Words]]
          /\ spawned \in Slots
          /\ left \in [Slots -> Nat]

\* Slots are handed out in order and never become available again.
NeverReaped == \A t \in Slots : state[t] = "Available" <=> t > spawned

\* The return address of every closure is the word that spawn leaves out.
NoReturnAddress == /\ \A t \in Slots : stack[t][-24] = "null"
                   /\ pc = "task" => rsp[current] = -24

IInv == TypeOK /\ OneRunning /\ NeverReaped /\ Resumable /\ NoReturnAddress
        /\ (pc = "main" => spawned <= Len(work))
        /\ (pc = "exit" => spawned = 0)
=============================================================================
