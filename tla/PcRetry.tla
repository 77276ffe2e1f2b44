------------------------------- MODULE PcRetry -------------------------------
(***************************************************************************)
(* thread-synchronization/pc.c: producer-consumer with a mutex alone.  A   *)
(* thread whose condition is false gives the mutex back and tries again    *)
(* (`goto retry'), so waiting is spinning.  Here count changes before the  *)
(* character is printed (lines 32-33, 46-47).                              *)
(*   "lock"  mutex_lock         "test"  the `if'      "retry" lines 29, 43 *)
(*   "count" count++, count--   "print" printf        "unlock" lines 34, 48 *)
(***************************************************************************)
EXTENDS Integers, Mutex

CONSTANTS Producers, Consumers,   \* disjoint; Threads is their union
          n                       \* the buffer's size, a natural number

VARIABLES pc, count, depth

vars == <<lk, pc, count, depth>>

Init == /\ MutexInit
        /\ pc = [t \in Threads |-> "lock"]
        /\ count = 0
        /\ depth = 0

Goto(t, label) == pc' = [pc EXCEPT ![t] = label]

MustRetry(t) == \/ t \in Producers /\ ~(count # n)
                \/ t \in Consumers /\ ~(count # 0)

\* Bug: the condition is tested before the mutex is taken.
Bug_Lock(t) == /\ pc[t] = "lock"
               /\ lk' = lk
               /\ Goto(t, "test")
               /\ UNCHANGED <<count, depth>>

Lock(t) == /\ pc[t] = "lock"
           /\ mutex_lock(t)
           /\ Goto(t, "test")
           /\ UNCHANGED <<count, depth>>

Test(t) == /\ pc[t] = "test"
           /\ Goto(t, IF MustRetry(t) THEN "retry" ELSE "count")
           /\ UNCHANGED <<lk, count, depth>>

\* Bug: `goto retry' without the unlock before it.
Bug_Retry(t) == /\ pc[t] = "retry"
                /\ Goto(t, "lock")
                /\ UNCHANGED <<lk, count, depth>>

Retry(t) == /\ pc[t] = "retry"
            /\ mutex_unlock
            /\ Goto(t, "lock")
            /\ UNCHANGED <<count, depth>>

Count(t) == /\ pc[t] = "count"
            /\ count' = IF t \in Producers THEN count + 1 ELSE count - 1
            /\ Goto(t, "print")
            /\ UNCHANGED <<lk, depth>>

Printf(t) == /\ pc[t] = "print"
             /\ depth' = IF t \in Producers THEN depth + 1 ELSE depth - 1
             /\ Goto(t, "unlock")
             /\ UNCHANGED <<lk, count>>

Unlock(t) == /\ pc[t] = "unlock"
             /\ mutex_unlock
             /\ Goto(t, "lock")
             /\ UNCHANGED <<count, depth>>

Step(t) == Lock(t) \/ Test(t) \/ Retry(t) \/ Count(t) \/ Printf(t) \/ Unlock(t)

Tproduce(p) == p \in Producers /\ Step(p)

Tconsume(c) == c \in Consumers /\ Step(c)

Next == \/ \E p \in Producers : Tproduce(p)
        \/ \E c \in Consumers : Tconsume(c)

\* Every thread that can run is run; the mutex is not fair.
Spec == Init /\ [][Next]_vars /\ \A t \in Threads : WF_vars(Step(t))

-----------------------------------------------------------------------------
\* The text is always a prefix of a balanced string of depth at most n
\* (pc.c 1-9): the safety half of Parens.
ParenSpec == INSTANCE Parens
OutputBalanced == ParenSpec!Init /\ [][ParenSpec!Next]_depth

\* A step that makes the text longer, and a thread about to retry.
TextGrows == ParenSpec!Next
Retrying == \E t \in Threads : pc[t] = "retry"
-----------------------------------------------------------------------------
\* Why OutputBalanced holds.
TypeOK == /\ lk \in Threads \cup {NoThread}
          /\ pc \in [Threads -> {"lock", "test", "retry", "count", "print", "unlock"}]
          /\ count \in 0 .. n /\ depth \in 0 .. n

MutexHeld == \A t \in Threads : pc[t] # "lock" <=> lk = t

\* The tested condition still holds when count changes, and the text follows
\* count with the next printf.
InStep == /\ \A t \in Threads : pc[t] = "count" => ~MustRetry(t)
          /\ \A t \in Threads : pc[t] = "print" =>
                count = IF t \in Producers THEN depth + 1 ELSE depth - 1
          /\ (\A t \in Threads : pc[t] # "print") => count = depth

IInv == TypeOK /\ MutexHeld /\ InStep
=============================================================================
