---------------------------- MODULE ScopedThreads ----------------------------
(***************************************************************************)
(* The test send_sync of i5_standard_traits.rs: three scoped threads share *)
(* a string by reference, the owner changes it when the scope is over; then*)
(* one thread gets it by mutable reference, and the owner changes it again.*)
(* A string is the sequence of the pieces it was put together from.        *)
(*   pc:  "spawn", "join", "append", "println" in the first half, and      *)
(*        "spawn2", "join2", "append2", "println2", "end" in the second    *)
(*   run: what each scoped thread does next, "none", "append", "println",  *)
(*        "done"                                                           *)
(***************************************************************************)
EXTENDS Integers, Sequences, FiniteSets

CONSTANT READERS                \* 3

VARIABLES pc, run, n,           \* n: the loop of the first scope
          greeting, out

vars == <<pc, run, n, greeting, out>>

Readers == 0..READERS-1
Writer == READERS
Scoped == Readers \cup {Writer}

Init == /\ pc = "spawn" /\ n = 0
        /\ run = [t \in Scoped |-> "none"]
        /\ greeting = <<"Hello">> /\ out = <<>>

\* A line is the string and the reader's number, -1 where none is printed.
Line(text, t) == [text |-> text, n |-> t]
Println(line) == out' = Append(out, line)

\* for n in 0..3 { s.spawn(...) }: threads run as soon as they are spawned.
Spawn == /\ pc = "spawn" /\ n < READERS
         /\ run' = [run EXCEPT ![n] = "println"]
         /\ n' = n + 1
         /\ pc' = IF n' = READERS THEN "join" ELSE "spawn"
         /\ UNCHANGED <<greeting, out>>

\* Bug: a scope that does not wait for its threads.
Bug_Join(S) == TRUE

\* The end of thread::scope waits for every thread spawned in it.
Join(S) == \A t \in S : run[t] = "done"

ScopeEnds == /\ pc = "join" /\ Join(Readers) /\ pc' = "append"
             /\ UNCHANGED <<run, n, greeting, out>>

\* greeting += " world"; println!
OwnerAppends == /\ pc = "append" /\ pc' = "println"
                /\ greeting' = Append(greeting, " world")
                /\ UNCHANGED <<run, n, out>>
OwnerPrints == /\ pc = "println" /\ pc' = "spawn2"
               /\ Println(Line(greeting, -1)) /\ greeting' = <<"Hello">>
               /\ UNCHANGED <<run, n>>

SpawnWriter == /\ pc = "spawn2" /\ pc' = "join2"
               /\ run' = [run EXCEPT ![Writer] = "append"]
               /\ UNCHANGED <<n, greeting, out>>
ScopeEnds2 == /\ pc = "join2" /\ Join({Writer}) /\ pc' = "append2"
              /\ UNCHANGED <<run, n, greeting, out>>
OwnerAppends2 == /\ pc = "append2" /\ pc' = "println2"
                 /\ greeting' = Append(greeting, "!!!")
                 /\ UNCHANGED <<run, n, out>>
OwnerPrints2 == /\ pc = "println2" /\ pc' = "end"
                /\ Println(Line(greeting, -1))
                /\ UNCHANGED <<run, n, greeting>>

Owner == \/ Spawn \/ ScopeEnds \/ OwnerAppends \/ OwnerPrints
         \/ SpawnWriter \/ ScopeEnds2 \/ OwnerAppends2 \/ OwnerPrints2

\* The closures of the first scope print the string and their number.
Reader(t) == /\ t \in Readers /\ run[t] = "println"
             /\ run' = [run EXCEPT ![t] = "done"]
             /\ Println(Line(greeting, t))
             /\ UNCHANGED <<pc, n, greeting>>

\* The closure of the second scope appends, then prints.
WriterAppends == /\ run[Writer] = "append"
                 /\ run' = [run EXCEPT ![Writer] = "println"]
                 /\ greeting' = Append(greeting, " world")
                 /\ UNCHANGED <<pc, n, out>>
WriterPrints == /\ run[Writer] = "println"
                /\ run' = [run EXCEPT ![Writer] = "done"]
                /\ Println(Line(greeting, -1))
                /\ UNCHANGED <<pc, n, greeting>>

Next == Owner \/ WriterAppends \/ WriterPrints \/ \E t \in Readers : Reader(t)

-----------------------------------------------------------------------------
\* The lines the comments of the test promise: "Hello n" from every reader in
\* some order, then the three whole sentences in this order.
AsCommented ==
    /\ Len(out) = READERS + 3
    /\ {out[i] : i \in 1..READERS} = {Line(<<"Hello">>, t) : t \in Readers}
    /\ SubSeq(out, READERS + 1, READERS + 3) =
          <<Line(<<"Hello", " world">>, -1), Line(<<"Hello", " world">>, -1),
            Line(<<"Hello", " world", "!!!">>, -1)>>

-----------------------------------------------------------------------------
\* Why nothing else can be printed: the threads, the string and the lines
\* printed at each statement of the owner.
Early == {"append", "println", "spawn2"}
Late == {"append2", "println2", "end"}
Finished == {t \in Readers : run[t] = "done"}

World == <<"Hello", " world">>
Cheer == <<"Hello", " world", "!!!">>
Lines == [text : {<<"Hello">>, World, Cheer}, n : Int]
Script == <<Line(World, -1), Line(World, -1), Line(Cheer, -1)>>

\* How many sentences of the script are out.
Printed == IF pc = "spawn2" THEN 1
           ELSE IF pc = "join2" THEN (IF run[Writer] = "done" THEN 2 ELSE 1)
           ELSE IF pc \in {"append2", "println2"} THEN 2
           ELSE IF pc = "end" THEN 3 ELSE 0

Control == /\ pc \in {"spawn", "join", "join2"} \cup Early \cup Late
           /\ n \in 0..READERS
           /\ pc = "spawn" <=> n < READERS
           /\ run \in [Scoped -> {"none", "append", "println", "done"}]
           /\ \A t \in Readers : run[t] \in IF t < n THEN {"println", "done"} ELSE {"none"}
           /\ pc \notin {"spawn", "join"} => \A t \in Readers : run[t] = "done"
           /\ pc \in {"spawn", "join"} \cup Early => run[Writer] = "none"
           /\ pc = "join2" => run[Writer] # "none"
           /\ pc \in Late => run[Writer] = "done"

Greeting == greeting = IF pc \in {"println", "append2"} THEN World
                       ELSE IF pc = "join2" /\ run[Writer] # "append" THEN World
                       ELSE IF pc \in {"println2", "end"} THEN Cheer
                       ELSE <<"Hello">>

Output == /\ out \in Seq(Lines)
          /\ pc \in {"spawn", "join"} =>
                /\ Len(out) = Cardinality(Finished)
                /\ {out[i] : i \in 1..Len(out)} = {Line(<<"Hello">>, t) : t \in Finished}
          /\ pc \notin {"spawn", "join"} =>
                /\ Len(out) = READERS + Printed
                /\ {out[i] : i \in 1..READERS} = {Line(<<"Hello">>, t) : t \in Readers}
                /\ \A j \in 1..Printed : out[READERS + j] = Script[j]

IInv == Control /\ Greeting /\ Output
=============================================================================
