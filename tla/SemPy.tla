-------------------------------- MODULE SemPy --------------------------------
(***************************************************************************)
(* thread-synchronization/sem.py: a model of a semaphore, written for the  *)
(* model checker of concurrency/model-checker.py.  `waits' is the string   *)
(* of waiting thread ids.  V hands the token to the first waiter without   *)
(* ever making it visible in `token'.  One step is one line, as in the     *)
(* checker, which switches threads in front of every line.                 *)
(*   pc[t]: "P", "spin", "enter" (cs = True), "leave" (del cs), "V", "done" *)
(***************************************************************************)
EXTENDS Integers, Sequences, SequencesExt

CONSTANTS Tids,                 \* the program has '1' and '2'
          Tokens                \* token = 1 in the program; a natural number

VARIABLES token, waits, pc

vars == <<token, waits, pc>>

Init == /\ token = Tokens
        /\ waits = <<>>
        /\ pc = [t \in Tids |-> "P"]

Goto(t, from, to) == pc[t] = from /\ pc' = [pc EXCEPT ![t] = to]

\* Bug: a thread that gets no token is not queued.
Bug_P(t) == /\ Goto(t, "P", "spin")
            /\ token' = IF token > 0 THEN token - 1 ELSE token
            /\ UNCHANGED waits

P(t) == /\ Goto(t, "P", "spin")
        /\ IF token > 0
             THEN token' = token - 1 /\ UNCHANGED waits
             ELSE waits' = Append(waits, t) /\ UNCHANGED token

\* while tid in self.waits: pass.
Spin(t) == /\ Goto(t, "spin", "enter")
           /\ ~Contains(waits, t)
           /\ UNCHANGED <<token, waits>>

Enter(t) == Goto(t, "enter", "leave") /\ UNCHANGED <<token, waits>>

Leave(t) == Goto(t, "leave", "V") /\ UNCHANGED <<token, waits>>

\* Bug: V always gives the token back and never wakes anybody.
Bug_V(t) == /\ Goto(t, "V", "done")
            /\ token' = token + 1
            /\ UNCHANGED waits

V(t) == /\ Goto(t, "V", "done")
        /\ IF waits # <<>>
             THEN waits' = Tail(waits) /\ UNCHANGED token
             ELSE token' = token + 1 /\ UNCHANGED waits

Thread(t) == P(t) \/ Spin(t) \/ Enter(t) \/ Leave(t) \/ V(t)

Next == \E t \in Tids : Thread(t)

\* Every thread that can go on does.
Spec == Init /\ [][Next]_vars /\ \A t \in Tids : WF_vars(Thread(t))

-----------------------------------------------------------------------------
\* The threads whose local variable cs exists (localvar of the markers).
InCs == {t \in Tids : pc[t] = "leave"}

\* mark_both never paints a state red: no more threads are in the critical
\* section than there are tokens.
NeverRed == Cardinality(InCs) <= Tokens

\* Nobody is queued while a token is free, and every queued thread is asleep
\* in its loop, once: the hand-over in V neither skips nor doubles a waiter.
QueueIsSound == /\ waits # <<>> => token = 0
                /\ \A k \in DOMAIN waits : pc[waits[k]] = "spin"
                /\ IsInjective(waits)

\* Every thread is through its critical section.
AllThrough == \A t \in Tids : pc[t] = "done"
-----------------------------------------------------------------------------
\* Why the two hold.
TypeOK == /\ token \in Nat /\ waits \in Seq(Tids)
          /\ pc \in [Tids -> {"P", "spin", "enter", "leave", "V", "done"}]

\* A token is either visible or with one of the threads that P let through or
\* that V took out of the queue.
Holders == {t \in Tids : \/ pc[t] \in {"enter", "leave", "V"}
                         \/ pc[t] = "spin" /\ ~Contains(waits, t)}
TokensKept == token + Cardinality(Holders) = Tokens

IInv == TypeOK /\ TokensKept /\ QueueIsSound
=============================================================================
