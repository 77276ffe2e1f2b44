------------------------------ MODULE Mandelbrot ------------------------------
(***************************************************************************)
(* scheduling/mandelbrot.c on the pool of mutual_exclusion/thread.h: NT    *)
(* workers draw the columns that belong to them and add to `done' without  *)
(* a lock; one thread shows the picture until `done' is NT, and saves it.  *)
(* A pixel is drawn or not; each is written by one worker only, so that    *)
(* the preview's racing reads matter to nobody.  `done' is volatile: the   *)
(* ++ is a load and a store.                                               *)
(*   main:  "create", "join", "exit"; "abort" (the pool's assertion),      *)
(*          "fpe" (a division by zero) and "assert" (popen or fopen fails) *)
(*          end the process                                                *)
(*   pc[t]: "new", "draw", "load", "store", "done"                         *)
(*   disp:  "new", "show", "sleep", "save", "done"                         *)
(***************************************************************************)
EXTENDS Integers, FiniteSets

CONSTANTS W,                    \* columns, 6400 in the program
          NTHREAD,              \* slots of the pool, 64 in thread.h
          Args                  \* values of atoi(argv[1])

VARIABLES NT, main, pc, i, reg, done, drawn, disp

vars == <<NT, main, pc, i, reg, done, drawn, disp>>

Slots == 1..NTHREAD

Init == /\ NT \in Args /\ main = "create"
        /\ pc = [t \in Slots |-> "new"]
        /\ i = [t \in Slots |-> 0] /\ reg = [t \in Slots |-> 0]
        /\ done = 0 /\ drawn = {} /\ disp = "new"

Running == main \in {"create", "join"}
Goto(t, from, to) == Running /\ pc[t] = from /\ pc' = [pc EXCEPT ![t] = to]

\* How many workers were created; the next one gets the next slot.
Created == Cardinality({t \in Slots : pc[t] # "new"})

CreateWorker == /\ main = "create" /\ Created < NT
                /\ IF Created < NTHREAD
                     THEN pc' = [pc EXCEPT ![Created + 1] = "draw"] /\ UNCHANGED main
                     ELSE main' = "abort" /\ UNCHANGED pc
                /\ UNCHANGED <<NT, i, reg, done, drawn, disp>>

CreateDisplay == /\ main = "create" /\ Created >= NT
                 /\ IF Created < NTHREAD
                      THEN main' = "join" /\ disp' = "show"
                      ELSE main' = "abort" /\ UNCHANGED disp
                 /\ UNCHANGED <<NT, pc, i, reg, done, drawn>>

\* join() passes when every thread has returned, and main returns.
Join == /\ main = "join" /\ disp = "done"
        /\ \A t \in Slots : pc[t] \in {"new", "done"}
        /\ main' = "exit"
        /\ UNCHANGED <<NT, pc, i, reg, done, drawn, disp>>

\* belongs, where W / NT is not 0.
belongs(x, t) == x \div (W \div NT) = t

\* A column of Tworker's loops.
Draw(t) == /\ W \div NT # 0 /\ i[t] < W
           /\ Goto(t, "draw", IF i[t] + 1 < W THEN "draw" ELSE "load")
           /\ drawn' = IF belongs(i[t], t - 1) THEN drawn \cup {<<i[t], t>>} ELSE drawn
           /\ i' = [i EXCEPT ![t] = @ + 1]
           /\ UNCHANGED <<NT, main, reg, done, disp>>

\* x / (W / NT) with more workers than columns.
DivideByZero(t) == /\ W \div NT = 0 /\ Goto(t, "draw", "draw")
                   /\ main' = "fpe"
                   /\ UNCHANGED <<NT, i, reg, done, drawn, disp>>

Load(t) == /\ Goto(t, "load", "store") /\ reg' = [reg EXCEPT ![t] = done]
           /\ UNCHANGED <<NT, main, i, done, drawn, disp>>
Store(t) == /\ Goto(t, "store", "done") /\ done' = reg[t] + 1
            /\ UNCHANGED <<NT, main, i, reg, drawn, disp>>

Tworker(t) == Load(t) \/ Store(t) \/ (pc[t] = "draw" /\ (Draw(t) \/ DivideByZero(t)))

\* Bug: the picture is saved when the first worker is done.
Bug_AllDone == done # 0
AllDone == done = NT

\* display and the test; the sleep; the image file.
Show == /\ disp = "show" /\ disp' = IF AllDone THEN "save" ELSE "sleep"
Sleep == disp = "sleep" /\ disp' = "show"
Save == disp = "save" /\ disp' = "done"
Tdisplay == /\ Running /\ (Show \/ Sleep \/ Save)
            /\ UNCHANGED <<NT, main, pc, i, reg, done, drawn>>

\* assert(fp), before the picture is shown or saved.
OpenFails == /\ Running /\ disp \in {"show", "save"}
             /\ main' = "assert"
             /\ UNCHANGED <<NT, pc, i, reg, done, drawn, disp>>

Main == CreateWorker \/ CreateDisplay \/ Join

Next == Main \/ Tdisplay \/ OpenFails \/ \E t \in Slots : Tworker(t)

-----------------------------------------------------------------------------
\* Tdisplay, Tworker: however many additions to `done' are lost, the image is
\* saved only when every worker is through; each of the NT * (W / NT) first
\* columns was then drawn by one worker, and the rest of them by nobody.
ImageComplete == disp \in {"save", "done"} =>
    /\ \A t \in Slots : pc[t] \in {"new", "done"}
    /\ {d[1] : d \in drawn} = 0..(IF NT = 0 THEN 0 ELSE NT * (W \div NT)) - 1
    /\ \A d, e \in drawn : d[1] = e[1] => d = e

\* The display shows the picture for ever: some ++ of done was lost, or NT < 0.
LoopsForEver == /\ main = "join" /\ disp \in {"show", "sleep"} /\ (done < Created \/ NT < 0)
                /\ \A t \in Slots : pc[t] \in {"new", "done"}

\* How a run with argument NT can come to rest.
AtRest == \/ main = "exit" /\ NT \in 0..(NTHREAD - 1)
          \/ main = "abort" /\ NT >= NTHREAD
          \/ main = "fpe" /\ NT > W
          \/ main = "assert" /\ disp \in {"show", "save"} /\ NT < NTHREAD
          \/ LoopsForEver /\ NT < NTHREAD
-----------------------------------------------------------------------------
\* Why ImageComplete holds.
TypeOK == /\ NT \in Args /\ main \in {"create", "join", "exit", "abort", "fpe", "assert"}
          /\ pc \in [Slots -> {"new", "draw", "load", "store", "done"}]
          /\ i \in [Slots -> 0 .. W] /\ reg \in [Slots -> Nat] /\ done \in Nat
          /\ drawn \subseteq (0 .. W - 1) \X Slots
          /\ disp \in {"new", "show", "sleep", "save", "done"}

\* The workers have the first slots, and there are NT of them, or none if NT
\* is negative, when the display is created.
Pool == /\ \A t \in Slots : pc[t] # "new" <=> t <= Created
        /\ Created <= NT \/ Created = 0
        /\ disp = "new" => main \in {"create", "abort", "fpe"}
        /\ disp # "new" => Created = IF NT < 0 THEN 0 ELSE NT

\* A worker is through when it has gone over all columns; it has drawn its own.
Columns == /\ \A t \in Slots : /\ pc[t] = "new" => i[t] = 0
                               /\ pc[t] = "draw" => i[t] < W
                               /\ pc[t] \in {"load", "store", "done"} =>
                                     i[t] = W /\ W \div NT # 0
           /\ \A x \in 0 .. W - 1, t \in Slots :
                 <<x, t>> \in drawn <=> x < i[t] /\ belongs(x, t - 1)

\* `done' never runs ahead of the workers that are through.
Through == {t \in Slots : pc[t] = "done"}
NeverAhead == /\ done <= Cardinality(Through)
              /\ \A t \in Slots : pc[t] = "store" => reg[t] <= Cardinality(Through)

Saved == disp \in {"save", "done"} => /\ NT >= 0
                                      /\ \A t \in Slots : pc[t] \in {"new", "done"}

IInv == TypeOK /\ Pool /\ Columns /\ NeverAhead /\ Saved
=============================================================================
