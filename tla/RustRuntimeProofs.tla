-------------------------- MODULE RustRuntimeProofs --------------------------
(***************************************************************************)
(* The scheduler of green-thread-explained keeps its invariant for every   *)
(* number of slots and every list of closures; an epoll queue with         *)
(* EPOLLONESHOT gives one event for each interest, for every number of     *)
(* requests and streams and every size of the vector; the scoped threads   *)
(* of send_sync print what its comments say, for every number of readers;  *)
(* the stacks that are laid out by hand and the functions of               *)
(* reference_aliasing keep their promises for every address and memory.    *)
(***************************************************************************)
EXTENDS RustRuntime, FiniteSetTheorems, SequenceTheorems, TLAPS

-----------------------------------------------------------------------------
\* send_sync.

\* ScopedThreads has the Cardinality of FiniteSets.
LEMMA ScopedCardinality == ASSUME NEW S PROVE Scoped!Cardinality(S) = Cardinality(S)
BY DEF Scoped!Cardinality, Cardinality

LEMMA ScopedLine == ASSUME NEW text \in {<<"Hello">>, Scoped!World, Scoped!Cheer}, NEW t \in Int
                    PROVE  Scoped!Line(text, t) \in Scoped!Lines
BY DEF Scoped!Line, Scoped!Lines

\* A line that is printed comes after all others.
LEMMA ScopedPrintln ==
  ASSUME NEW line \in Scoped!Lines,
         out \in Seq(Scoped!Lines), Scoped!Println(line)
  PROVE  /\ out' \in Seq(Scoped!Lines)
         /\ Len(out) \in Nat /\ Len(out') = Len(out) + 1 /\ out'[Len(out) + 1] = line
         /\ \A i \in 1..Len(out) : out'[i] = out[i]
BY DEF Scoped!Println

LEMMA ScopedInit == Scoped!Init => Scoped!IInv
<1> SUFFICES ASSUME Scoped!Init PROVE Scoped!IInv
  OBVIOUS
<1>1. Scoped!Control
  BY ScopeAssumption DEF Scoped!Init, Scoped!Control, Scoped!Scoped, Scoped!Readers, Scoped!Writer, Scoped!Early, Scoped!Late
<1>2. Scoped!Greeting
  BY DEF Scoped!Init, Scoped!Greeting
<1>3. Scoped!Finished = {}
  BY DEF Scoped!Init, Scoped!Finished, Scoped!Scoped
<1>4. out = <<>> /\ at = "spawn"
  BY DEF Scoped!Init
<1>5. Cardinality(Scoped!Finished) = 0
  BY <1>3, FS_EmptySet
<1>6. {out[i] : i \in 1..Len(out)} = {} /\ {Scoped!Line(<<"Hello">>, t) : t \in Scoped!Finished} = {}
  BY <1>3, <1>4
<1>7. out \in Seq(Scoped!Lines) /\ Len(out) = Scoped!Cardinality(Scoped!Finished)
  BY <1>4, <1>5, ScopedCardinality
<1>8. Scoped!Output
  BY <1>4, <1>6, <1>7 DEF Scoped!Output
<1> QED BY <1>1, <1>2, <1>8 DEF Scoped!IInv

\* No thread is the writer and a reader; none of them runs twice.
LEMMA ScopedControl == Scoped!Control /\ Scoped!Next => Scoped!Control'
<1> SUFFICES ASSUME Scoped!Control, Scoped!Next PROVE Scoped!Control'
  OBVIOUS
<1> USE ScopeAssumption DEF Scoped!Control, Scoped!Scoped, Scoped!Readers, Scoped!Writer, Scoped!Early, Scoped!Late
<1>1. CASE Scoped!Spawn
  BY <1>1 DEF Scoped!Spawn
<1>2. CASE Scoped!ScopeEnds
  BY <1>2 DEF Scoped!ScopeEnds, Scoped!Join
<1>3. CASE Scoped!OwnerAppends
  BY <1>3 DEF Scoped!OwnerAppends
<1>4. CASE Scoped!OwnerPrints
  BY <1>4 DEF Scoped!OwnerPrints
<1>5. CASE Scoped!SpawnWriter
  BY <1>5 DEF Scoped!SpawnWriter
<1>6. CASE Scoped!ScopeEnds2
  BY <1>6 DEF Scoped!ScopeEnds2, Scoped!Join
<1>7. CASE Scoped!OwnerAppends2
  BY <1>7 DEF Scoped!OwnerAppends2
<1>8. CASE Scoped!OwnerPrints2
  BY <1>8 DEF Scoped!OwnerPrints2
<1>9. CASE Scoped!WriterAppends
  BY <1>9 DEF Scoped!WriterAppends
<1>10. CASE Scoped!WriterPrints
  BY <1>10 DEF Scoped!WriterPrints
<1>11. ASSUME NEW t \in Scoped!Readers, Scoped!Reader(t) PROVE Scoped!Control'
  BY <1>11 DEF Scoped!Reader
<1> QED
  BY <1>1, <1>2, <1>3, <1>4, <1>5, <1>6, <1>7, <1>8, <1>9, <1>10, <1>11 DEF Scoped!Next, Scoped!Owner

\* The writer runs only while its scope waits for it, readers only before the
\* string is changed.
LEMMA ScopedWhen ==
  ASSUME Scoped!Control
  PROVE  /\ run[Scoped!Writer] \in {"append", "println"} => at = "join2"
         /\ \A t \in Scoped!Readers : run[t] = "println" => at \in {"spawn", "join"}
BY ScopeAssumption DEF Scoped!Control, Scoped!Scoped, Scoped!Readers, Scoped!Writer, Scoped!Early, Scoped!Late

LEMMA ScopedGreeting == Scoped!Control /\ Scoped!Greeting /\ Scoped!Next => Scoped!Greeting'
<1> SUFFICES ASSUME Scoped!Control, Scoped!Greeting, Scoped!Next PROVE Scoped!Greeting'
  OBVIOUS
<1> USE DEF Scoped!Greeting
<1>0. /\ Append(<<"Hello">>, " world") = Scoped!World
      /\ Append(Scoped!World, "!!!") = Scoped!Cheer
  <2>1. ASSUME NEW a, NEW b PROVE Append(<<a>>, b) = <<a, b>>
    <3>1. <<a>> \in Seq({a, b}) /\ <<a, b>> \in Seq({a, b})
      OBVIOUS
    <3> DEFINE u == Append(<<a>>, b)
    <3>2. u \in Seq({a, b}) /\ Len(u) = 2 /\ u[1] = a /\ u[2] = b
      BY <3>1
    <3> HIDE DEF u
    <3>3. Len(<<a, b>>) = 2 /\ <<a, b>>[1] = a /\ <<a, b>>[2] = b /\ 1..2 = {1, 2}
      OBVIOUS
    <3>4. u = <<a, b>>
      BY <3>1, <3>2, <3>3, SeqEqual
    <3> QED BY <3>4 DEF u
  <2>2. ASSUME NEW a, NEW b, NEW c PROVE Append(<<a, b>>, c) = <<a, b, c>>
    <3>1. <<a, b>> \in Seq({a, b, c}) /\ <<a, b, c>> \in Seq({a, b, c})
      OBVIOUS
    <3> DEFINE u == Append(<<a, b>>, c)
    <3>2. u \in Seq({a, b, c}) /\ Len(u) = 3 /\ u[1] = a /\ u[2] = b /\ u[3] = c
      BY <3>1
    <3> HIDE DEF u
    <3>3. /\ Len(<<a, b, c>>) = 3 /\ 1..3 = {1, 2, 3}
          /\ <<a, b, c>>[1] = a /\ <<a, b, c>>[2] = b /\ <<a, b, c>>[3] = c
      OBVIOUS
    <3>4. u = <<a, b, c>>
      BY <3>1, <3>2, <3>3, SeqEqual
    <3> QED BY <3>4 DEF u
  <2> QED BY <2>1, <2>2 DEF Scoped!World, Scoped!Cheer
<1>1. CASE Scoped!Spawn
  BY <1>1 DEF Scoped!Spawn
<1>2. CASE Scoped!ScopeEnds
  BY <1>2 DEF Scoped!ScopeEnds
<1>3. CASE Scoped!OwnerAppends
  BY <1>0, <1>3 DEF Scoped!OwnerAppends
<1>4. CASE Scoped!OwnerPrints
  BY <1>4 DEF Scoped!OwnerPrints
<1>5. CASE Scoped!SpawnWriter
  <2>1. run'[Scoped!Writer] = "append"
    BY <1>5, ScopeAssumption DEF Scoped!SpawnWriter, Scoped!Control, Scoped!Scoped, Scoped!Writer
  <2> QED BY <1>5, <2>1 DEF Scoped!SpawnWriter
<1>6. CASE Scoped!ScopeEnds2
  BY <1>6 DEF Scoped!ScopeEnds2, Scoped!Join
<1>7. CASE Scoped!OwnerAppends2
  BY <1>0, <1>7 DEF Scoped!OwnerAppends2
<1>8. CASE Scoped!OwnerPrints2
  BY <1>8 DEF Scoped!OwnerPrints2
<1>9. CASE Scoped!WriterAppends
  <2>1. run'[Scoped!Writer] = "println" /\ at = "join2"
    BY <1>9, ScopedWhen, ScopeAssumption DEF Scoped!WriterAppends, Scoped!Control, Scoped!Scoped, Scoped!Writer
  <2> QED BY <1>0, <1>9, <2>1 DEF Scoped!WriterAppends
<1>10. CASE Scoped!WriterPrints
  <2>1. run'[Scoped!Writer] = "done" /\ at = "join2"
    BY <1>10, ScopedWhen, ScopeAssumption DEF Scoped!WriterPrints, Scoped!Control, Scoped!Scoped, Scoped!Writer
  <2> QED BY <1>10, <2>1 DEF Scoped!WriterPrints
<1>11. ASSUME NEW t \in Scoped!Readers, Scoped!Reader(t) PROVE Scoped!Greeting'
  <2>1. at \in {"spawn", "join"}
    BY <1>11, ScopedWhen DEF Scoped!Reader
  <2> QED BY <1>11, <2>1 DEF Scoped!Reader
<1> QED
  BY <1>1, <1>2, <1>3, <1>4, <1>5, <1>6, <1>7, <1>8, <1>9, <1>10, <1>11 DEF Scoped!Next, Scoped!Owner

\* A sentence is printed by the owner or the writer when its turn has come.
LEMMA ScopedSentence ==
  ASSUME Scoped!Control, Scoped!Output, at \notin {"spawn", "join"}, at' \notin {"spawn", "join"},
         Scoped!Printed \in 0..2, Scoped!Printed' = Scoped!Printed + 1,
         Scoped!Println(Scoped!Script[Scoped!Printed + 1])
  PROVE  Scoped!Output'
<1> DEFINE k == Scoped!Printed
           line == Scoped!Script[k + 1]
<1>1. line \in Scoped!Lines
  <2>1. k + 1 \in {1, 2, 3}
    OBVIOUS
  <2>2. line \in {Scoped!Line(Scoped!World, -1), Scoped!Line(Scoped!Cheer, -1)}
    BY <2>1 DEF Scoped!Script
  <2>3. -1 \in Int
    OBVIOUS
  <2> QED BY <2>2, <2>3, ScopedLine
<1>2. /\ out' \in Seq(Scoped!Lines)
      /\ Len(out) \in Nat /\ Len(out') = Len(out) + 1 /\ out'[Len(out) + 1] = line
      /\ \A i \in 1..Len(out) : out'[i] = out[i]
  BY <1>1, ScopedPrintln DEF Scoped!Output
<1>3. /\ Len(out) = READERS + k
      /\ {out[i] : i \in 1..READERS} = {Scoped!Line(<<"Hello">>, t) : t \in Scoped!Readers}
      /\ \A j \in 1..k : out[READERS + j] = Scoped!Script[j]
  BY DEF Scoped!Output
<1> HIDE DEF k, line
<1>4. k \in 0..2 /\ Scoped!Printed' = k + 1 /\ line = Scoped!Script[k + 1]
  BY DEF k, line
<1>5. {out'[i] : i \in 1..READERS} = {out[i] : i \in 1..READERS}
  <2>1. \A i \in 1..READERS : out'[i] = out[i]
    BY <1>2, <1>3, <1>4, ScopeAssumption
  <2> QED BY <2>1
<1>6. ASSUME NEW j \in 1..(k + 1) PROVE out'[READERS + j] = Scoped!Script[j]
  <2>1. CASE j \in 1..k
    <3>1. READERS + j \in 1..Len(out)
      BY <1>3, <1>4, <2>1, ScopeAssumption
    <3> QED BY <1>2, <1>3, <2>1, <3>1
  <2>2. CASE j = k + 1
    <3>1. READERS + j = Len(out) + 1
      BY <1>3, <1>4, <2>2, ScopeAssumption
    <3> QED BY <1>2, <1>4, <2>2, <3>1
  <2> QED BY <1>4, <2>1, <2>2
<1>7. Len(out') = READERS + (k + 1)
  BY <1>2, <1>3, <1>4, ScopeAssumption
<1>8. {out'[i] : i \in 1..READERS} = {Scoped!Line(<<"Hello">>, t) : t \in Scoped!Readers}
  BY <1>3, <1>5
<1> QED BY <1>2, <1>4, <1>6, <1>7, <1>8 DEF Scoped!Output, Scoped!Line, Scoped!Script, Scoped!World, Scoped!Cheer, Scoped!Readers

\* A step that prints nothing leaves the lines as they should be.
LEMMA ScopedSilent ==
  ASSUME Scoped!Output, out' = out, Scoped!Finished' = Scoped!Finished,
         Scoped!Printed' = Scoped!Printed,
         at' \in {"spawn", "join"} <=> at \in {"spawn", "join"}
  PROVE  Scoped!Output'
BY DEF Scoped!Output, Scoped!Line, Scoped!Script, Scoped!World, Scoped!Cheer, Scoped!Readers

\* The line of a reader: its number was not printed before.
LEMMA ScopedReader ==
  ASSUME Scoped!IInv, NEW t \in Scoped!Readers, Scoped!Reader(t)
  PROVE  Scoped!Output'
<1>1. at \in {"spawn", "join"} /\ at' = at
  BY ScopedWhen DEF Scoped!Reader, Scoped!IInv
<1>2. greeting = <<"Hello">>
  BY <1>1 DEF Scoped!IInv, Scoped!Greeting
<1>3. t \in Int /\ Scoped!Readers \subseteq Scoped!Scoped
  BY ScopeAssumption DEF Scoped!Readers, Scoped!Scoped
<1>4. Scoped!Finished' = Scoped!Finished \cup {t} /\ t \notin Scoped!Finished
  BY <1>3 DEF Scoped!Reader, Scoped!Finished, Scoped!IInv, Scoped!Control, Scoped!Readers
<1>5. IsFiniteSet(Scoped!Finished)
  <2>1. IsFiniteSet(Scoped!Readers)
    BY FS_Interval, ScopeAssumption DEF Scoped!Readers
  <2>2. Scoped!Finished \subseteq Scoped!Readers
    BY DEF Scoped!Finished
  <2> QED BY <2>1, <2>2, FS_Subset
<1>6. Cardinality(Scoped!Finished') = Cardinality(Scoped!Finished) + 1
  BY <1>4, <1>5, FS_AddElement
<1> DEFINE line == Scoped!Line(<<"Hello">>, t)
<1>7. line \in Scoped!Lines
  BY <1>3, ScopedLine
<1>8. Scoped!Println(line)
  BY <1>2 DEF Scoped!Reader
<1>9. /\ out' \in Seq(Scoped!Lines)
      /\ Len(out) \in Nat /\ Len(out') = Len(out) + 1 /\ out'[Len(out) + 1] = line
      /\ \A i \in 1..Len(out) : out'[i] = out[i]
  BY <1>7, <1>8, ScopedPrintln DEF Scoped!Output, Scoped!IInv
<1>10. /\ Len(out) = Cardinality(Scoped!Finished)
       /\ {out[i] : i \in 1..Len(out)} = {Scoped!Line(<<"Hello">>, u) : u \in Scoped!Finished}
  BY <1>1, ScopedCardinality DEF Scoped!Output, Scoped!IInv
<1>11. {out'[i] : i \in 1..Len(out')} = {out[i] : i \in 1..Len(out)} \cup {line}
  <2> HIDE DEF line
  <2>1. 1..Len(out') = 1..Len(out) \cup {Len(out) + 1}
    BY <1>9
  <2> QED BY <1>9, <2>1
<1>12. {Scoped!Line(<<"Hello">>, u) : u \in Scoped!Finished'} = {Scoped!Line(<<"Hello">>, u) : u \in Scoped!Finished} \cup {line}
  BY <1>4
<1>13. Len(out') = Scoped!Cardinality(Scoped!Finished')
  BY <1>6, <1>9, <1>10, ScopedCardinality
<1>14. {out'[i] : i \in 1..Len(out')} = {Scoped!Line(<<"Hello">>, u) : u \in Scoped!Finished'}
  BY <1>10, <1>11, <1>12
<1>15. at' \in {"spawn", "join"}
  BY <1>1
<1>16. out' \in Seq(Scoped!Lines)
  BY <1>9
<1> HIDE DEF line
<1> QED BY <1>13, <1>14, <1>15, <1>16 DEF Scoped!Output, Scoped!Line, Scoped!Lines, Scoped!World, Scoped!Cheer

\* When the first scope ends every reader has printed.
LEMMA ScopedAllPrinted ==
  ASSUME Scoped!Output, at = "join", Scoped!ScopeEnds
  PROVE  Scoped!Output'
<1>1. Scoped!Finished = Scoped!Readers
  BY DEF Scoped!ScopeEnds, Scoped!Join, Scoped!Finished
<1>2. Cardinality(Scoped!Readers) = READERS
  <2>1. Cardinality(0..READERS-1) = READERS - 1 - 0 + 1
    BY FS_Interval, ScopeAssumption
  <2> QED BY <2>1, ScopeAssumption DEF Scoped!Readers
<1>3. /\ out \in Seq(Scoped!Lines) /\ Len(out) = READERS
      /\ {out[i] : i \in 1..READERS} = {Scoped!Line(<<"Hello">>, t) : t \in Scoped!Readers}
  BY <1>1, <1>2, ScopedCardinality DEF Scoped!Output
<1>4. out' = out /\ at' = "append" /\ Scoped!Printed' = 0
  BY DEF Scoped!ScopeEnds, Scoped!Printed
<1>5. READERS = READERS + 0 /\ \A j \in 1..0 : FALSE
  BY ScopeAssumption
<1> QED BY <1>3, <1>4, <1>5 DEF Scoped!Output, Scoped!Readers, Scoped!Line, Scoped!Script, Scoped!World, Scoped!Cheer

LEMMA ScopedOutput == Scoped!IInv /\ Scoped!Next => Scoped!Output'
<1> SUFFICES ASSUME Scoped!IInv, Scoped!Next PROVE Scoped!Output'
  OBVIOUS
<1>0. /\ Scoped!Control /\ Scoped!Greeting /\ Scoped!Output
      /\ run \in [Scoped!Scoped -> {"none", "append", "println", "done"}]
      /\ Scoped!Writer \in Scoped!Scoped /\ Scoped!Writer \notin Scoped!Readers
  BY ScopeAssumption DEF Scoped!IInv, Scoped!Control, Scoped!Scoped, Scoped!Writer, Scoped!Readers
<1>s. /\ Scoped!Script[1] = Scoped!Line(Scoped!World, -1)
      /\ Scoped!Script[2] = Scoped!Line(Scoped!World, -1)
      /\ Scoped!Script[3] = Scoped!Line(Scoped!Cheer, -1)
  BY DEF Scoped!Script
<1>1. CASE Scoped!Spawn
  <2>1. n \in Scoped!Readers /\ run[n] = "none"
    <3>1. n \in 0..READERS /\ n < READERS /\ ~(n < n)
      BY <1>0, <1>1, ScopeAssumption DEF Scoped!Spawn, Scoped!Control
    <3>2. n \in Scoped!Readers
      BY <3>1, ScopeAssumption DEF Scoped!Readers
    <3> QED BY <1>0, <3>1, <3>2 DEF Scoped!Control
  <2>2. run'[n] = "println" /\ \A t \in Scoped!Readers : t # n => run'[t] = run[t]
    BY <1>0, <1>1, <2>1 DEF Scoped!Spawn, Scoped!Scoped
  <2>3. Scoped!Finished' = Scoped!Finished
    BY <2>1, <2>2 DEF Scoped!Finished, Scoped!Readers
  <2>4. Scoped!Printed' = Scoped!Printed
    BY <1>1 DEF Scoped!Spawn, Scoped!Printed
  <2> QED BY ScopedSilent, <1>0, <1>1, <2>3, <2>4 DEF Scoped!Spawn
<1>2. CASE Scoped!ScopeEnds
  BY <1>0, <1>2, ScopedAllPrinted DEF Scoped!ScopeEnds
<1>3. CASE Scoped!OwnerAppends
  <2>1. Scoped!Finished' = Scoped!Finished
    BY <1>3 DEF Scoped!OwnerAppends, Scoped!Finished, Scoped!Readers
  <2>2. Scoped!Printed' = Scoped!Printed
    BY <1>3 DEF Scoped!OwnerAppends, Scoped!Printed
  <2> QED BY ScopedSilent, <1>0, <1>3, <2>1, <2>2 DEF Scoped!OwnerAppends
<1>4. CASE Scoped!OwnerPrints
  <2>1. greeting = Scoped!World /\ Scoped!Printed = 0 /\ Scoped!Printed' = 1
    BY <1>0, <1>4 DEF Scoped!OwnerPrints, Scoped!Greeting, Scoped!Printed
  <2> QED BY ScopedSentence, <1>0, <1>s, <1>4, <2>1 DEF Scoped!OwnerPrints
<1>5. CASE Scoped!SpawnWriter
  <2>1. run'[Scoped!Writer] = "append" /\ \A t \in Scoped!Readers : run'[t] = run[t]
    BY <1>0, <1>5 DEF Scoped!SpawnWriter, Scoped!Scoped
  <2>2. Scoped!Finished' = Scoped!Finished
    BY <2>1 DEF Scoped!Finished, Scoped!Readers
  <2>3. Scoped!Printed' = Scoped!Printed
    BY <1>5, <2>1 DEF Scoped!SpawnWriter, Scoped!Printed, Scoped!Writer
  <2> QED BY ScopedSilent, <1>0, <1>5, <2>2, <2>3 DEF Scoped!SpawnWriter
<1>6. CASE Scoped!ScopeEnds2
  BY ScopedSilent, <1>0, <1>6 DEF Scoped!ScopeEnds2, Scoped!Join, Scoped!Finished, Scoped!Printed, Scoped!Readers
<1>7. CASE Scoped!OwnerAppends2
  <2>1. Scoped!Finished' = Scoped!Finished
    BY <1>7 DEF Scoped!OwnerAppends2, Scoped!Finished, Scoped!Readers
  <2>2. Scoped!Printed' = Scoped!Printed
    BY <1>7 DEF Scoped!OwnerAppends2, Scoped!Printed
  <2> QED BY ScopedSilent, <1>0, <1>7, <2>1, <2>2 DEF Scoped!OwnerAppends2
<1>8. CASE Scoped!OwnerPrints2
  <2>1. greeting = Scoped!Cheer /\ Scoped!Printed = 2 /\ Scoped!Printed' = 3
    BY <1>0, <1>8 DEF Scoped!OwnerPrints2, Scoped!Greeting, Scoped!Printed
  <2> QED BY ScopedSentence, <1>0, <1>s, <1>8, <2>1 DEF Scoped!OwnerPrints2
<1>9. CASE Scoped!WriterAppends
  <2>1. /\ run'[Scoped!Writer] = "println" /\ at = "join2" /\ run[Scoped!Writer] = "append"
        /\ \A t \in Scoped!Readers : run'[t] = run[t]
    BY <1>0, <1>9, ScopedWhen DEF Scoped!WriterAppends, Scoped!Scoped
  <2>2. Scoped!Finished' = Scoped!Finished
    BY <2>1 DEF Scoped!Finished, Scoped!Readers
  <2>3. Scoped!Printed' = Scoped!Printed
    BY <1>9, <2>1 DEF Scoped!WriterAppends, Scoped!Printed, Scoped!Writer
  <2> QED BY ScopedSilent, <1>0, <1>9, <2>2, <2>3 DEF Scoped!WriterAppends
<1>10. CASE Scoped!WriterPrints
  <2>1. run'[Scoped!Writer] = "done" /\ at = "join2" /\ run[Scoped!Writer] = "println" /\ at' = at
    BY <1>0, <1>10, ScopedWhen DEF Scoped!WriterPrints, Scoped!Scoped
  <2>2. Scoped!Printed = 1 /\ Scoped!Printed' = 2
    BY <2>1 DEF Scoped!Printed, Scoped!Writer
  <2>3. greeting = Scoped!World
    BY <1>0, <2>1 DEF Scoped!Greeting
  <2> QED BY ScopedSentence, <1>0, <1>s, <1>10, <2>1, <2>2, <2>3 DEF Scoped!WriterPrints
<1>11. ASSUME NEW t \in Scoped!Readers, Scoped!Reader(t) PROVE Scoped!Output'
  BY <1>11, ScopedReader
<1> QED
  BY <1>1, <1>2, <1>3, <1>4, <1>5, <1>6, <1>7, <1>8, <1>9, <1>10, <1>11 DEF Scoped!Next, Scoped!Owner

LEMMA ScopedNext == Scoped!IInv /\ [Scoped!Next]_Scoped!vars => Scoped!IInv'
<1> SUFFICES ASSUME Scoped!IInv, [Scoped!Next]_Scoped!vars PROVE Scoped!IInv'
  OBVIOUS
<1>1. CASE Scoped!Next
  BY <1>1, ScopedControl, ScopedGreeting, ScopedOutput DEF Scoped!IInv
<1>2. CASE UNCHANGED Scoped!vars
  <2>1. at' = at /\ run' = run /\ n' = n /\ greeting' = greeting /\ out' = out
    BY <1>2 DEF Scoped!vars
  <2>2. Scoped!Control'
    BY <2>1 DEF Scoped!IInv, Scoped!Control, Scoped!Scoped, Scoped!Readers, Scoped!Writer
  <2>3. Scoped!Greeting'
    BY <2>1 DEF Scoped!IInv, Scoped!Greeting, Scoped!Writer
  <2>4. Scoped!Output'
    BY <2>1, ScopedSilent DEF Scoped!IInv, Scoped!Finished, Scoped!Printed, Scoped!Readers, Scoped!Writer
  <2> QED BY <2>2, <2>3, <2>4 DEF Scoped!IInv
<1> QED BY <1>1, <1>2

\* At the end every line is out.
LEMMA ScopedEnd == Scoped!IInv /\ at = "end" => Scoped!AsCommented
<1> SUFFICES ASSUME Scoped!IInv, at = "end" PROVE Scoped!AsCommented
  OBVIOUS
<1>1. Scoped!Printed = 3
  BY DEF Scoped!Printed
<1>2. /\ out \in Seq(Scoped!Lines)
      /\ Len(out) = READERS + 3
      /\ {out[i] : i \in 1..READERS} = {Scoped!Line(<<"Hello">>, t) : t \in Scoped!Readers}
      /\ \A j \in 1..3 : out[READERS + j] = Scoped!Script[j]
  BY <1>1 DEF Scoped!IInv, Scoped!Output
<1> DEFINE s == SubSeq(out, READERS + 1, READERS + 3)
<1>3. Len(s) = 3 /\ \A j \in 1..3 : s[j] = Scoped!Script[j]
  <2>1. READERS + 1 \in 1..(Len(out) + 1) /\ READERS + 3 \in (READERS + 1 - 1)..Len(out)
    BY <1>2, ScopeAssumption
  <2>2. Len(s) = READERS + 3 - (READERS + 1) + 1 /\ \A j \in 1..(READERS + 3 - (READERS + 1) + 1) : s[j] = out[READERS + 1 + j - 1]
    BY <1>2, <2>1, ScopeAssumption, SubSeqProperties
  <2>3. READERS + 3 - (READERS + 1) + 1 = 3 /\ \A j \in 1..3 : READERS + 1 + j - 1 = READERS + j
    BY ScopeAssumption
  <2> QED BY <1>2, <2>2, <2>3
<1>4. s \in Seq(Scoped!Lines) 
  <2>1. \A i \in (READERS + 1)..(READERS + 3) : i \in 1..Len(out)
    BY <1>2, ScopeAssumption
  <2>2. \A i \in (READERS + 1)..(READERS + 3) : out[i] \in Scoped!Lines
    BY <1>2, <2>1
  <2>3. READERS + 1 \in Int /\ READERS + 3 \in Int
    BY ScopeAssumption
  <2> QED BY <2>2, <2>3, SubSeqProperties
<1> HIDE DEF s
<1>5. s = <<s[1], s[2], s[3]>>
  BY <1>3, <1>4
<1>6. s = <<Scoped!Line(Scoped!World, -1), Scoped!Line(Scoped!World, -1), Scoped!Line(Scoped!Cheer, -1)>>
  <2>1. /\ Scoped!Script[1] = Scoped!Line(Scoped!World, -1)
        /\ Scoped!Script[2] = Scoped!Line(Scoped!World, -1)
        /\ Scoped!Script[3] = Scoped!Line(Scoped!Cheer, -1)
    BY DEF Scoped!Script
  <2> QED BY <1>3, <1>5, <2>1
<1> QED BY <1>2, <1>6 DEF s, Scoped!AsCommented, Scoped!World, Scoped!Cheer

-----------------------------------------------------------------------------
\* Green threads.

USE SlotsAssumption, WorksAssumption DEF Slots

\* The program that runs starts with a scheduler that is in order.
LEMMA InitIInv == Init => IInv
<1> SUFFICES ASSUME Init PROVE IInv
  OBVIOUS
<1>1. TypeOK
  BY DEF Init, TypeOK, State, Words, Ended, Offsets
<1>2. OneRunning /\ NeverReaped
  BY DEF Init, OneRunning, NeverReaped
<1>3. Resumable
  BY DEF Init, Resumable
<1>4. NoReturnAddress
  BY DEF Init, NoReturnAddress, Offsets
<1>5. spawned <= Len(work) /\ pc = "main"
  BY DEF Init
<1> QED
  BY <1>1, <1>2, <1>3, <1>4, <1>5 DEF IInv

\* Spawning takes the slot after the last one that was taken.
LEMMA FirstAvailable ==
    ASSUME IInv, NEW t \in Available, \A u \in Available : t <= u
    PROVE  t = spawned + 1 /\ t \in Slots /\ state[t] = "Available" /\ t # current
<1>1. /\ t \in Slots /\ state[t] = "Available" /\ spawned \in Slots
      /\ \A u \in Slots : state[u] = "Available" <=> u > spawned
  BY DEF Available, IInv, TypeOK, NeverReaped
<1>2. spawned + 1 \in Slots
  BY <1>1
<1>3. spawned + 1 \in Available
  BY <1>1, <1>2 DEF Available
<1>4. t = spawned + 1
  BY <1>1, <1>3
<1>5. t # current
  BY <1>1 DEF IInv, OneRunning
<1> QED
  BY <1>1, <1>4, <1>5

\* spawn keeps the invariant.
LEMMA SpawnTaskIInv == IInv /\ SpawnTask => IInv'
<1> SUFFICES ASSUME IInv, SpawnTask PROVE IInv'
  OBVIOUS
<1> USE DEF IInv
<1>1. PICK t \in Available :
        /\ \A u \in Available : t <= u
        /\ Spawn(t)
        /\ left' = [left EXCEPT ![t] = work[spawned + 1]]
  BY DEF SpawnTask
<1>2. t = spawned + 1 /\ t \in Slots /\ state[t] = "Available" /\ t # current
  BY <1>1, FirstAvailable
<1>3. /\ pc = "main" /\ spawned < Len(work) /\ spawned' = spawned + 1
      /\ UNCHANGED <<work, pc, current>>
  BY DEF SpawnTask
<1>4. /\ stack' = [stack EXCEPT ![t][-16] = "guard", ![t][-32] = "task"]
      /\ rsp' = [rsp EXCEPT ![t] = -32]
      /\ state' = [state EXCEPT ![t] = "Ready"]
  BY <1>1 DEF Spawn
<1>5. /\ stack'[t][-24] = stack[t][-24] /\ stack'[t][-32] = "task"
      /\ \A u \in Slots : u # t => stack'[u] = stack[u]
      /\ stack' \in [Slots -> [Offsets -> Words]]
  <2>1. stack \in [Slots -> [Offsets -> Words]]
    BY DEF TypeOK
  <2> QED
    BY <1>2, <1>4, <2>1, SMTT(30) DEF Offsets, Words
<1>6. work[spawned + 1] \in Nat
  BY <1>3 DEF TypeOK
<1>7. TypeOK'
  <2>1. state' \in [Slots -> State] /\ rsp' \in [Slots -> {-32, -24, -16, 0}] /\ left' \in [Slots -> Nat]
    BY <1>1, <1>2, <1>4, <1>6 DEF TypeOK, State
  <2> QED
    BY <1>2, <1>3, <1>5, <2>1 DEF TypeOK
<1>8. OneRunning'
  BY <1>2, <1>3, <1>4 DEF OneRunning, TypeOK
<1>9. NeverReaped'
  BY <1>2, <1>3, <1>4 DEF NeverReaped, TypeOK
<1>10. Resumable'
  <2> SUFFICES ASSUME NEW u \in Slots, state'[u] = "Ready"
               PROVE  rsp'[u] = -32 /\ stack'[u][-32] \in IF u = 0 THEN {"t_yield"} ELSE {"task", "t_yield"}
    BY DEF Resumable
  <2>1. CASE u = t
    BY <1>2, <1>4, <1>5, <2>1 DEF TypeOK
  <2>2. CASE u # t
    BY <1>2, <1>4, <1>5, <2>2 DEF Resumable, TypeOK
  <2> QED
    BY <2>1, <2>2
<1>11. NoReturnAddress'
  BY <1>3, <1>5 DEF NoReturnAddress
<1>12. spawned' <= Len(work') /\ pc' # "exit"
  BY <1>2, <1>3 DEF TypeOK
<1> QED
  BY <1>7, <1>8, <1>9, <1>10, <1>11, <1>12

\* A switch to a ready thread lands where that thread goes on, never at an
\* address that is not there.
LEMMA Lands ==
    ASSUME IInv, NEW pos \in Ready, Switch(current, pos)
    PROVE  pc' = IF pos = 0 THEN "run" ELSE "task"
<1> USE DEF IInv
<1>1. /\ pos \in Slots /\ state[pos] = "Ready" /\ current \in Slots /\ pos # current
  BY DEF Ready, OneRunning, TypeOK
<1>2. rsp[pos] = -32 /\ stack[pos][-32] \in IF pos = 0 THEN {"t_yield"} ELSE {"task", "t_yield"}
  BY <1>1 DEF Resumable
<1>3. [stack EXCEPT ![current][-32] = "t_yield"][pos] = stack[pos]
  BY <1>1 DEF TypeOK
<1>4. [rsp EXCEPT ![current] = -32][pos] = -32
  BY <1>1, <1>2 DEF TypeOK
<1>5. pc' = Landing(stack[pos][-32], pos)
  BY <1>3, <1>4 DEF Switch
<1>6. CASE pos = 0
  BY <1>2, <1>5, <1>6 DEF Landing
<1>7. CASE pos # 0
  BY <1>2, <1>5, <1>7 DEF Landing
<1> QED
  BY <1>6, <1>7

\* t_yield keeps the invariant.
LEMMA SwitchIInv == ASSUME IInv, pc = "run", t_yield PROVE IInv'
<1> USE DEF IInv
<1>1. PICK pos \in Ready : Mark(pos) /\ current' = pos /\ Switch(current, pos)
  BY DEF t_yield
<1>2. UNCHANGED <<work, spawned, left>>
  BY DEF t_yield
<1>3. /\ pos \in Slots /\ state[pos] = "Ready" /\ current \in Slots
      /\ state[current] = "Running" /\ pos # current
  BY <1>1 DEF Ready, OneRunning, TypeOK
<1>4. rsp[pos] = -32 /\ stack[pos][-32] \in IF pos = 0 THEN {"t_yield"} ELSE {"task", "t_yield"}
  BY <1>3 DEF Resumable
<1>5. stack' = [stack EXCEPT ![current][-32] = "t_yield"]
  BY <1>1 DEF Switch
<1>6. /\ stack' \in [Slots -> [Offsets -> Words]]
      /\ stack'[current][-32] = "t_yield"
      /\ \A u \in Slots : stack'[u][-24] = stack[u][-24]
      /\ \A u \in Slots : u # current => stack'[u] = stack[u]
  <2>1. stack \in [Slots -> [Offsets -> Words]]
    BY DEF TypeOK
  <2> QED
    BY <1>3, <1>5, <2>1 DEF Offsets, Words
<1>7. rsp' = [[rsp EXCEPT ![current] = -32] EXCEPT ![pos] = -24]
  BY <1>1, <1>3, <1>4 DEF Switch, TypeOK
<1>8. rsp' \in [Slots -> {-32, -24, -16, 0}] /\ rsp'[current] = -32 /\ rsp'[pos] = -24
      /\ \A u \in Slots : u # current /\ u # pos => rsp'[u] = rsp[u]
  BY <1>3, <1>7 DEF TypeOK
<1>9. pc' = IF pos = 0 THEN "run" ELSE "task"
  BY <1>1, Lands
<1>10. state' = [[state EXCEPT ![current] = "Ready"] EXCEPT ![pos] = "Running"]
  BY <1>1, <1>3 DEF Mark, TypeOK
<1>11. /\ state' \in [Slots -> State] /\ state'[current] = "Ready" /\ state'[pos] = "Running"
       /\ \A u \in Slots : u # current /\ u # pos => state'[u] = state[u]
  BY <1>3, <1>10 DEF TypeOK, State
<1>12. TypeOK'
  BY <1>1, <1>2, <1>3, <1>6, <1>8, <1>9, <1>11 DEF TypeOK
<1>13. OneRunning'
  BY <1>1, <1>3, <1>9, <1>11 DEF OneRunning
<1>14. NeverReaped'
  BY <1>2, <1>3, <1>11 DEF NeverReaped
<1>15. Resumable'
  <2> SUFFICES ASSUME NEW u \in Slots, state'[u] = "Ready"
               PROVE  rsp'[u] = -32 /\ stack'[u][-32] \in IF u = 0 THEN {"t_yield"} ELSE {"task", "t_yield"}
    BY DEF Resumable
  <2>1. CASE u = current
    BY <1>3, <1>6, <1>8, <2>1
  <2>2. CASE u # current
    <3>1. u # pos
      BY <1>11
    <3>2. rsp'[u] = rsp[u] /\ stack'[u] = stack[u] /\ state[u] = "Ready"
      BY <1>6, <1>8, <1>11, <2>2, <3>1
    <3> QED
      BY <3>2 DEF Resumable
  <2> QED
    BY <2>1, <2>2
<1>16. NoReturnAddress'
  BY <1>1, <1>3, <1>6, <1>8 DEF NoReturnAddress
<1> QED
  BY <1>9, <1>12, <1>13, <1>14, <1>15, <1>16

\* run ends the process only when no closure was spawned.
LEMMA ExitIInv == ASSUME IInv, pc = "run", t_yieldFalse("exit") PROVE IInv'
<1> USE DEF IInv
<1>1. /\ Ready = {} /\ pc' = "exit"
      /\ UNCHANGED <<work, current, state, rsp, stack, spawned, left>>
  BY DEF t_yieldFalse
<1>2. spawned = 0
  <2> SUFFICES ASSUME spawned # 0 PROVE FALSE
    OBVIOUS
  <2>1. 1 \in Slots /\ 1 <= spawned
    BY DEF TypeOK
  <2>2. state[1] # "Available"
    BY <2>1 DEF NeverReaped, TypeOK
  <2>3. state[1] # "Running"
    BY <2>1 DEF OneRunning
  <2>4. state[1] \in State
    BY <2>1 DEF TypeOK
  <2>5. 1 \in Ready
    BY <2>1, <2>2, <2>3, <2>4 DEF Ready, State
  <2> QED
    BY <1>1, <2>5
<1>3. TypeOK'
  BY <1>1 DEF TypeOK, Ended
<1>4. OneRunning'
  BY <1>1 DEF OneRunning
<1>5. NeverReaped' /\ Resumable'
  BY <1>1 DEF NeverReaped, Resumable
<1>6. NoReturnAddress'
  BY <1>1 DEF NoReturnAddress
<1> QED
  BY <1>1, <1>2, <1>3, <1>4, <1>5, <1>6

\* A closure that returns finds the null word above it.
LEMMA ReturnIInv == IInv /\ Return => IInv'
<1> SUFFICES ASSUME IInv, Return PROVE IInv'
  OBVIOUS
<1> USE DEF IInv
<1>1. pc = "task"
  BY DEF Return, AtReturn, TypeOK, Ended
<1>2. current \in Slots /\ rsp[current] = -24 /\ stack[current][-24] = "null"
  BY <1>1 DEF NoReturnAddress, TypeOK
<1>3. /\ pc' = "crash" /\ rsp' = [rsp EXCEPT ![current] = -16]
      /\ UNCHANGED <<work, current, state, stack, spawned, left>>
  BY <1>2 DEF Return, Landing, TypeOK
<1>4. rsp' \in [Slots -> {-32, -24, -16, 0}] /\ \A u \in Slots : u # current => rsp'[u] = rsp[u]
  BY <1>2, <1>3 DEF TypeOK
<1>5. TypeOK'
  BY <1>3, <1>4 DEF TypeOK, Ended
<1>6. OneRunning' /\ NeverReaped'
  BY <1>1, <1>3 DEF OneRunning, NeverReaped
<1>7. Resumable'
  <2> SUFFICES ASSUME NEW u \in Slots, state'[u] = "Ready"
               PROVE  rsp'[u] = -32 /\ stack'[u][-32] \in IF u = 0 THEN {"t_yield"} ELSE {"task", "t_yield"}
    BY DEF Resumable
  <2>1. state[u] = "Ready" /\ u # current
    BY <1>3 DEF OneRunning
  <2> QED
    BY <1>3, <1>4, <2>1 DEF Resumable
<1>8. NoReturnAddress'
  BY <1>3 DEF NoReturnAddress
<1> QED
  BY <1>3, <1>5, <1>6, <1>7, <1>8

\* Every step keeps the invariant.
LEMMA NextIInv == IInv /\ [Next]_vars => IInv'
<1> SUFFICES ASSUME IInv, [Next]_vars PROVE IInv'
  OBVIOUS
<1>1. CASE SpawnTask
  BY <1>1, SpawnTaskIInv
<1>2. CASE SpawnPanics
  BY <1>2 DEF SpawnPanics, IInv, TypeOK, Ended, OneRunning, NeverReaped, Resumable, NoReturnAddress
<1>3. CASE StartRun
  BY <1>3 DEF StartRun, IInv, TypeOK, OneRunning, NeverReaped, Resumable, NoReturnAddress
<1>4. CASE Run
  BY <1>4, SwitchIInv, ExitIInv DEF Run
<1>5. CASE Round
  <2>1. /\ pc = "task" /\ pc' = "task" /\ left[current] > 0
        /\ left' = [left EXCEPT ![current] = @ - 1]
        /\ UNCHANGED <<work, current, state, rsp, stack, spawned>>
    BY <1>5 DEF Round
  <2>2. left' \in [Slots -> Nat]
    BY <2>1 DEF IInv, TypeOK
  <2>3. TypeOK'
    BY <2>1, <2>2 DEF IInv, TypeOK
  <2>4. OneRunning' /\ NeverReaped' /\ Resumable' /\ NoReturnAddress'
    BY <2>1 DEF IInv, OneRunning, NeverReaped, Resumable, NoReturnAddress
  <2> QED
    BY <2>1, <2>3, <2>4 DEF IInv
<1>6. CASE Return
  BY <1>6, ReturnIInv
<1>7. CASE UNCHANGED vars
  BY <1>7 DEF vars, IInv, TypeOK, OneRunning, NeverReaped, Resumable, NoReturnAddress
<1> QED
  BY <1>1, <1>2, <1>3, <1>4, <1>5, <1>6, <1>7 DEF Next

\* Runtime: the inductive invariant of the scheduler.
THEOREM Invariance == Spec => []IInv
BY InitIInv, NextIInv, PTL DEF Spec

\* The guard function is never reached, and the process exits only if main
\* spawned nothing, although main.rs:146 calls guard when a task finishes.
THEOREM GuardNeverRuns == Spec => [](pc # "guard" /\ (pc = "exit" => spawned = 0))
<1>1. IInv => pc # "guard" /\ (pc = "exit" => spawned = 0)
  BY DEF IInv, TypeOK, Ended
<1> QED
  BY <1>1, Invariance, PTL

\* t_yield and Return: a slot that was taken stays taken.
THEOREM NoSlotIsFreed == Spec => [][\A t \in Slots : state[t] # "Available" => state'[t] # "Available"]_vars
<1>1. IInv /\ IInv' /\ [Next]_vars => [\A t \in Slots : state[t] # "Available" => state'[t] # "Available"]_vars
  <2> SUFFICES ASSUME IInv, IInv', Next, NEW t \in Slots, state[t] # "Available"
               PROVE  state'[t] # "Available"
    OBVIOUS
  <2>1. spawned' >= spawned /\ spawned \in Slots /\ spawned' \in Slots
    BY DEF Next, SpawnTask, SpawnPanics, StartRun, Run, Round, Return, t_yield, t_yieldFalse, IInv, TypeOK
  <2> QED
    BY <2>1 DEF IInv, NeverReaped
<1> QED
  BY <1>1, Invariance, PTL DEF Spec

-----------------------------------------------------------------------------
\* example.rs.

\* EpollExample has the Cardinality of FiniteSets.
LEMMA SameCardinality ==
  ASSUME NEW S
  PROVE  Example!Cardinality(S) = Cardinality(S)
BY DEF Example!Cardinality, Cardinality

\* What epoll_wait reports was armed.
LEMMA ExampleReports ==
  ASSUME NEW S \in Example!Reports(interest, readable, CAPACITY)
  PROVE  S \subseteq Example!Armed
<1>1. S \subseteq Example!Firing(interest, readable)
  BY DEF Example!Reports
<1> QED BY <1>1 DEF Example!Firing, Example!Armed

\* What is outstanding can be counted.
LEMMA ExampleFinite ==
  ASSUME Example!TypeOK
  PROVE  IsFiniteSet(Example!Outstanding)
<1>1. Example!Outstanding \subseteq 1..Requests
  BY EpollAssumption DEF Example!Outstanding, Example!Armed, Example!TypeOK
<1>2. IsFiniteSet(1..Requests)
  BY EpollAssumption, FS_Interval
<1> QED BY <1>1, <1>2, FS_Subset

LEMMA ExampleInit == Example!Init => Example!IInv
<1> SUFFICES ASSUME Example!Init PROVE Example!IInv
  OBVIOUS
<1>1. /\ at = "create" /\ x = 1 /\ event_counter = 0 /\ streams = {} /\ interest = <<>>
      /\ readable = {} /\ events = {} /\ got = <<>>
  BY DEF Example!Init, Example!NoInterest
<1>2. DOMAIN interest = {} /\ 1..x-1 = {} /\ Len(got) = 0 /\ got \in Seq(1..Requests)
  BY <1>1
<1>3. interest \in [1..x-1 -> [token : 1..Requests, armed : BOOLEAN]]
  BY <1>1, <1>2
<1>4. Example!TypeOK
  BY <1>1, <1>2, <1>3, EpollAssumption DEF Example!TypeOK
<1>5. Example!Armed = {} /\ Example!Handled = {} /\ Example!Outstanding = {}
  BY <1>1, <1>2 DEF Example!Armed, Example!Handled, Example!Outstanding
<1>6. Example!Once
  BY <1>2, <1>5 DEF Example!Once, Example!Outstanding
<1>7. Example!Counted
  <2>1. Example!Cardinality(Example!Outstanding) = 0
    BY <1>5, FS_EmptySet, SameCardinality
  <2>2. event_counter = x - 1 - Len(got)
    <3>1. Len(got) = 0 /\ x = 1 /\ event_counter = 0
      BY <1>1, <1>2
    <3> QED BY <3>1
  <2>3. 1..x-1 \subseteq streams /\ events = {} /\ at = "create"
    BY <1>1, <1>2
  <2> QED BY <1>1, <2>1, <2>2, <2>3 DEF Example!Counted
<1> QED BY <1>4, <1>6, <1>7 DEF Example!IInv

\* Steps that leave the queue, the vector and the counter alone.
LEMMA ExampleMoves ==
  ASSUME Example!IInv,
         \/ Example!Panic \/ Example!EpollCreate \/ Example!Connect \/ Example!While
         \/ Example!Close \/ (\E s \in 1..Requests : Example!Answer(s))
         \/ UNCHANGED Example!vars
  PROVE  Example!IInv'
<1> USE EpollAssumption
<1>1. /\ Example!TypeOK /\ Example!Once /\ Example!Counted
      /\ UNCHANGED <<x, event_counter, interest, events, got>>
  BY DEF Example!IInv, Example!Panic, Example!EpollCreate, Example!Connect, Example!While,
         Example!Close, Example!Answer, Example!vars
<1>2. /\ Example!Armed' = Example!Armed /\ Example!Handled' = Example!Handled
      /\ Example!Outstanding' = Example!Outstanding
  BY <1>1 DEF Example!Armed, Example!Handled, Example!Outstanding
<1>3. Example!TypeOK'
  <2>1. /\ at' \in {"create", "connect", "add", "wait", "events", "close", "finished", "panic"}
        /\ streams' \subseteq 1..Requests /\ readable' \subseteq 1..Requests
    <3>1. CASE Example!Connect
      BY <1>1, <3>1 DEF Example!TypeOK, Example!Connect, Example!Goto
    <3>2. CASE Example!Panic \/ Example!EpollCreate \/ Example!While \/ Example!Close
      BY <1>1, <3>2 DEF Example!TypeOK, Example!Panic, Example!EpollCreate, Example!While,
                        Example!Close, Example!Goto
    <3>3. CASE (\E s \in 1..Requests : Example!Answer(s)) \/ UNCHANGED Example!vars
      BY <1>1, <3>3 DEF Example!TypeOK, Example!Answer, Example!vars
    <3> QED BY <3>1, <3>2, <3>3
  <2> QED BY <1>1, <2>1 DEF Example!TypeOK
<1>4. Example!Once'
  BY <1>1, <1>2 DEF Example!Once
<1>5. Example!Counted'
  <2>1. CASE Example!Panic
    BY <1>1, <1>2, <2>1 DEF Example!Counted, Example!Panic, Example!Goto
  <2>2. CASE Example!EpollCreate
    BY <1>1, <1>2, <2>2 DEF Example!Counted, Example!EpollCreate, Example!Goto
  <2>3. CASE Example!Connect
    BY <1>1, <1>2, <2>3 DEF Example!Counted, Example!Connect, Example!Goto
  <2>4. CASE Example!While
    <3>1. /\ at' = IF event_counter > 0 THEN "wait" ELSE "close"
          /\ UNCHANGED streams /\ at # "finished" /\ events = {} /\ x = Requests + 1
      BY <1>1, <2>4 DEF Example!Counted, Example!While, Example!TypeOK
    <3>2. at' = "close" => event_counter = 0
      BY <1>1, <3>1 DEF Example!TypeOK
    <3> QED BY <1>1, <1>2, <3>1, <3>2 DEF Example!Counted
  <2>5. CASE Example!Close
    BY <1>1, <1>2, <2>5 DEF Example!Counted, Example!Close, Example!Goto
  <2>6. CASE (\E s \in 1..Requests : Example!Answer(s)) \/ UNCHANGED Example!vars
    <3>1. UNCHANGED <<at, streams>>
      BY <2>6 DEF Example!Answer, Example!vars
    <3> QED BY <1>1, <1>2, <3>1 DEF Example!Counted
  <2> QED BY <2>1, <2>2, <2>3, <2>4, <2>5, <2>6
<1> QED BY <1>3, <1>4, <1>5 DEF Example!IInv

\* A new stream is armed and counted.
LEMMA ExampleCtl ==
  ASSUME Example!IInv, Example!EpollCtl
  PROVE  Example!IInv'
<1> USE EpollAssumption
<1>1. /\ Example!TypeOK /\ Example!Once /\ Example!Counted
      /\ at = "add" /\ at' = "connect" /\ interest' = Example!Added(interest, x, x)
      /\ event_counter' = event_counter + 1 /\ x' = x + 1
      /\ UNCHANGED <<streams, readable, events, got>>
  BY DEF Example!IInv, Example!EpollCtl, Example!Goto
<1>2. /\ x \in 1..Requests /\ x \in streams /\ DOMAIN interest = 1..x-1
      /\ 1..x'-1 = (1..x-1) \cup {x} /\ x \notin 1..x-1
  BY <1>1 DEF Example!Counted, Example!TypeOK
<1>3. interest' = [d \in 1..x'-1 |->
                      IF d = x THEN [token |-> x, armed |-> TRUE] ELSE interest[d]]
  BY <1>1, <1>2 DEF Example!Added
<1>4. /\ interest' \in [1..x'-1 -> [token : 1..Requests, armed : BOOLEAN]]
      /\ DOMAIN interest' = (DOMAIN interest) \cup {x}
      /\ interest'[x].token = x /\ interest'[x].armed
      /\ \A s \in DOMAIN interest : interest'[s] = interest[s]
  BY <1>1, <1>2, <1>3 DEF Example!TypeOK
<1>5. Example!TypeOK'
  <2>1. \A s \in 1..x'-1 : interest'[s].token = s
    BY <1>1, <1>2, <1>4 DEF Example!TypeOK
  <2> QED BY <1>1, <1>2, <1>4, <2>1 DEF Example!TypeOK
<1>6. /\ Example!Armed' = Example!Armed \cup {x} /\ Example!Handled' = Example!Handled
      /\ x \notin Example!Outstanding /\ x \notin Example!Handled
      /\ Example!Outstanding' = Example!Outstanding \cup {x}
  <2>1. Example!Armed' = Example!Armed \cup {x}
    BY <1>4 DEF Example!Armed
  <2>2. x \notin Example!Outstanding /\ x \notin Example!Handled
    BY <1>1, <1>2 DEF Example!Once
  <2> QED BY <1>1, <2>1, <2>2 DEF Example!Handled, Example!Outstanding
<1>7. Example!Once'
  BY <1>1, <1>4, <1>6 DEF Example!Once, Example!Outstanding
<1>8. Example!Counted'
  <2>1. IsFiniteSet(Example!Outstanding)
    BY <1>1, ExampleFinite
  <2>2. Cardinality(Example!Outstanding') = Cardinality(Example!Outstanding) + 1
    BY <1>6, <2>1, FS_AddElement
  <2>3. event_counter = Cardinality(Example!Outstanding)
    BY <1>1, SameCardinality DEF Example!Counted
  <2>4. event_counter' = Example!Cardinality(Example!Outstanding')
    BY <1>1, <2>2, <2>3, SameCardinality
  <2>5. event_counter' = x' - 1 - Len(got') /\ events' = {}
    BY <1>1 DEF Example!Counted, Example!TypeOK
  <2> QED BY <1>1, <1>2, <2>4, <2>5 DEF Example!Counted
<1> QED BY <1>5, <1>7, <1>8 DEF Example!IInv

\* What is reported goes from the armed streams to the vector.
LEMMA ExampleWait ==
  ASSUME Example!IInv, Example!EpollWait
  PROVE  Example!IInv'
<1> USE EpollAssumption
<1>1. /\ Example!TypeOK /\ Example!Once /\ Example!Counted
      /\ at = "wait" /\ at' = "events"
      /\ UNCHANGED <<x, event_counter, streams, readable, got>>
  BY DEF Example!IInv, Example!EpollWait, Example!Goto
<1>2. PICK S \in Example!Reports(interest, readable, CAPACITY) :
         interest' = Example!Reported(interest, S) /\ events' = Example!Tokens(interest, S)
  BY DEF Example!EpollWait
<1>3. S \subseteq Example!Armed /\ events = {} /\ DOMAIN interest = 1..x-1 /\ 1..x-1 \subseteq 1..Requests
  BY <1>1, ExampleReports DEF Example!Counted, Example!TypeOK
<1>4. events' = S
  <2>1. \A s \in S : interest[s].token = s
    BY <1>1, <1>3 DEF Example!Armed, Example!TypeOK
  <2> QED BY <1>2, <2>1 DEF Example!Tokens
<1>5. /\ interest' \in [1..x-1 -> [token : 1..Requests, armed : BOOLEAN]]
      /\ DOMAIN interest' = DOMAIN interest
      /\ \A s \in 1..x-1 : /\ interest'[s].token = interest[s].token
                           /\ interest'[s].armed <=> interest[s].armed /\ s \notin S
  <2>1. interest' = [s \in 1..x-1 |->
                        [interest[s] EXCEPT !.armed = interest[s].armed /\ s \notin S]]
    BY <1>2, <1>3 DEF Example!Reported
  <2>2. \A s \in 1..x-1 : interest[s] \in [token : 1..Requests, armed : BOOLEAN]
    BY <1>1 DEF Example!TypeOK
  <2>3. ASSUME NEW s \in 1..x-1
        PROVE  /\ interest'[s] \in [token : 1..Requests, armed : BOOLEAN]
               /\ interest'[s].token = interest[s].token
               /\ interest'[s].armed <=> interest[s].armed /\ s \notin S
    BY <2>1, <2>2
  <2> QED BY <1>3, <2>1, <2>3
<1>6. Example!TypeOK'
  BY <1>1, <1>3, <1>4, <1>5 DEF Example!TypeOK, Example!Armed
<1>7. /\ Example!Armed' = Example!Armed \ S /\ Example!Handled' = Example!Handled
      /\ Example!Outstanding' = Example!Outstanding
  <2>1. Example!Armed' = Example!Armed \ S
    BY <1>3, <1>5 DEF Example!Armed
  <2> QED BY <1>1, <1>3, <1>4, <2>1 DEF Example!Handled, Example!Outstanding
<1>8. Example!Once'
  BY <1>1, <1>4, <1>5, <1>7 DEF Example!Once
<1>9. Example!Counted'
  BY <1>1, <1>7 DEF Example!Counted
<1> QED BY <1>6, <1>8, <1>9 DEF Example!IInv

\* What a sequence holds after an Append, and that it still holds nothing twice.
LEMMA Appended ==
  ASSUME NEW S, NEW s \in Seq(S), NEW e \in S, NEW t, t = Append(s, e)
  PROVE  /\ {t[k] : k \in 1..Len(t)} = {s[k] : k \in 1..Len(s)} \cup {e}
         /\ (/\ e \notin {s[k] : k \in 1..Len(s)}
             /\ \A j, k \in 1..Len(s) : s[j] = s[k] => j = k)
              => \A j, k \in 1..Len(t) : t[j] = t[k] => j = k
<1>1. /\ Len(s) \in Nat /\ Len(t) = Len(s) + 1 /\ t[Len(s) + 1] = e
      /\ \A k \in 1..Len(s) : t[k] = s[k]
  OBVIOUS
<1>2. 1..Len(t) = 1..Len(s) \cup {Len(s) + 1}
  BY <1>1
<1>3. {t[k] : k \in 1..Len(t)} = {s[k] : k \in 1..Len(s)} \cup {e}
  <2>1. ASSUME NEW v, v \in {t[k] : k \in 1..Len(t)}
        PROVE  v \in {s[k] : k \in 1..Len(s)} \cup {e}
    <3>1. PICK k \in 1..Len(t) : v = t[k]
      BY <2>1
    <3> QED BY <1>1, <1>2, <3>1
  <2>2. ASSUME NEW v, v \in {s[k] : k \in 1..Len(s)} \cup {e}
        PROVE  v \in {t[k] : k \in 1..Len(t)}
    <3>1. CASE v = e
      BY <1>1, <1>2, <3>1
    <3>2. CASE v # e
      <4>1. PICK k \in 1..Len(s) : v = s[k]
        BY <2>2, <3>2
      <4> QED BY <1>1, <1>2, <4>1
    <3> QED BY <3>1, <3>2
  <2> QED BY <2>1, <2>2
<1>4. ASSUME e \notin {s[k] : k \in 1..Len(s)},
             \A j, k \in 1..Len(s) : s[j] = s[k] => j = k,
             NEW j \in 1..Len(t), NEW k \in 1..Len(t), t[j] = t[k]
      PROVE  j = k
  <2>1. \A l \in 1..Len(s) : t[l] # e
    BY <1>1, <1>4
  <2> QED BY <1>1, <1>2, <1>4, <2>1
<1> QED BY <1>3, <1>4

\* An event that is handled was stored, and is not counted any more.
LEMMA ExampleReceive ==
  ASSUME Example!IInv, Example!Receive
  PROVE  Example!IInv'
<1> USE EpollAssumption
<1>1. /\ Example!TypeOK /\ Example!Once /\ Example!Counted /\ at = "events"
      /\ event_counter' = event_counter - 1
      /\ UNCHANGED <<at, x, streams, interest, readable>>
  BY DEF Example!IInv, Example!Receive
<1>2. PICK e \in events : events' = events \ {e} /\ got' = Append(got, e)
  BY DEF Example!Receive
<1>3. /\ e \in 1..Requests /\ got \in Seq(1..Requests) /\ got' \in Seq(1..Requests)
      /\ Len(got) \in Nat /\ Len(got') = Len(got) + 1 /\ got'[Len(got) + 1] = e
      /\ \A k \in 1..Len(got) : got'[k] = got[k]
  BY <1>1, <1>2 DEF Example!TypeOK
<1>4. /\ Example!Armed' = Example!Armed /\ Example!Handled' = Example!Handled \cup {e}
      /\ Example!Outstanding' = Example!Outstanding \ {e}
      /\ e \in Example!Outstanding /\ e \notin Example!Handled
  <2>1. Example!Armed' = Example!Armed
    BY <1>1 DEF Example!Armed
  <2>2. Example!Handled' = Example!Handled \cup {e}
    BY <1>2, <1>3, Appended DEF Example!Handled
  <2>3. e \in Example!Outstanding /\ e \notin Example!Handled /\ e \notin Example!Armed
    BY <1>1 DEF Example!Once, Example!Outstanding
  <2> QED BY <1>2, <2>1, <2>2, <2>3 DEF Example!Outstanding
<1>5. Example!Once'
  <2>1. \A j, k \in 1..Len(got') : got'[j] = got'[k] => j = k
    <3>1. /\ e \notin {got[k] : k \in 1..Len(got)}
          /\ \A j, k \in 1..Len(got) : got[j] = got[k] => j = k
      BY <1>1, <1>4 DEF Example!Once, Example!Handled
    <3> QED BY <1>2, <1>3, <3>1, Appended
  <2> QED BY <1>1, <1>2, <1>4, <2>1 DEF Example!Once
<1>6. /\ event_counter' = Cardinality(Example!Outstanding') /\ event_counter' \in Nat
  <2>1. IsFiniteSet(Example!Outstanding)
    BY <1>1, ExampleFinite
  <2>2. /\ Cardinality(Example!Outstanding') = Cardinality(Example!Outstanding) - 1
        /\ IsFiniteSet(Example!Outstanding')
    BY <1>4, <2>1, FS_RemoveElement
  <2>3. event_counter = Cardinality(Example!Outstanding)
    BY <1>1, SameCardinality DEF Example!Counted
  <2>4. Cardinality(Example!Outstanding') \in Nat
    BY <2>2, FS_CardinalityType
  <2> QED BY <1>1, <2>2, <2>3, <2>4
<1>7. Example!TypeOK'
  BY <1>1, <1>2, <1>3, <1>6 DEF Example!TypeOK
<1>8. Example!Counted'
  <2>1. event_counter' = x' - 1 - Len(got')
    BY <1>1, <1>3 DEF Example!Counted, Example!TypeOK
  <2> QED BY <1>1, <1>6, <2>1, SameCardinality DEF Example!Counted
<1> QED BY <1>5, <1>7, <1>8 DEF Example!IInv

LEMMA ExampleNext == Example!IInv /\ [Example!Next]_Example!vars => Example!IInv'
BY ExampleMoves, ExampleCtl, ExampleWait, ExampleReceive DEF Example!Next, Example!Main

\* The invariant is why each stream is heard once, and all of them at the end.
LEMMA ExampleOneEach == Example!IInv => Example!OneEventEach
<1> SUFFICES ASSUME Example!IInv PROVE Example!OneEventEach
  OBVIOUS
<1> USE EpollAssumption
<1>1. Example!TypeOK /\ Example!Once /\ Example!Counted
  BY DEF Example!IInv
<1>2. DOMAIN interest = 1..x-1 /\ x - 1 \in Nat
  BY <1>1 DEF Example!TypeOK
<1>3. Cardinality(1..x-1) = x - 1
  BY <1>1, FS_Interval DEF Example!TypeOK
<1>4. event_counter = Example!Cardinality(DOMAIN interest) - Len(got)
  BY <1>1, <1>2, <1>3, SameCardinality DEF Example!Counted
<1>5. ASSUME at = "finished" PROVE Example!Handled = 1..Requests
  <2>1. IsFiniteSet(Example!Outstanding)
    BY <1>1, ExampleFinite
  <2>2. x = Requests + 1 /\ Cardinality(Example!Outstanding) = 0
    BY <1>1, <1>5, SameCardinality DEF Example!Counted
  <2>3. Example!Outstanding = {}
    BY <2>1, <2>2, FS_EmptySet
  <2> QED BY <1>1, <1>2, <2>2, <2>3 DEF Example!Once
<1> QED BY <1>1, <1>2, <1>4, <1>5
        DEF Example!OneEventEach, Example!Once, Example!Counted, Example!Handled

-----------------------------------------------------------------------------
\* minimio.

LEMMA MioInit == Mio!Init => Mio!IInv
<1> SUFFICES ASSUME Mio!Init PROVE Mio!IInv
  OBVIOUS
<1>1. /\ interest = <<>> /\ got = [s \in Streams |-> 0]
      /\ results = [s \in Streams |-> "none"]
  BY DEF Mio!Init, Mio!NoInterest
<1>2. DOMAIN interest = {} /\ interest \in [DOMAIN interest -> [token : Streams, armed : BOOLEAN]]
  BY <1>1
<1>3. Mio!TypeOK
  BY <1>1, <1>2 DEF Mio!TypeOK
<1>4. Mio!ArmedOnce
  BY <1>1, <1>2 DEF Mio!ArmedOnce
<1> QED BY <1>3, <1>4 DEF Mio!IInv

\* A registration is accepted only for a stream that was never in the queue;
\* what was reported stays in it, disarmed.
LEMMA MioRegister ==
  ASSUME Mio!IInv, NEW s \in Streams, NEW interests, Mio!Register(s, interests)
  PROVE  Mio!IInv'
<1>1. Mio!TypeOK /\ Mio!ArmedOnce /\ UNCHANGED got
  BY DEF Mio!IInv, Mio!Register
<1>2. CASE /\ Mio!CanAdd(interest, s) /\ interest' = Mio!Added(interest, s, s)
           /\ results' = [results EXCEPT ![s] = "Ok"]
  <2>1. /\ s \notin DOMAIN interest
        /\ interest' = [d \in DOMAIN interest \cup {s} |->
                           IF d = s THEN [token |-> s, armed |-> TRUE] ELSE interest[d]]
    BY <1>2 DEF Mio!CanAdd, Mio!Added
  <2>2. got[s] = 0
    BY <1>1, <2>1 DEF Mio!TypeOK, Mio!ArmedOnce
  <2>3. /\ DOMAIN interest' = DOMAIN interest \cup {s}
        /\ interest' \in [DOMAIN interest \cup {s} -> [token : Streams, armed : BOOLEAN]]
        /\ interest'[s].token = s /\ \A u \in DOMAIN interest : interest'[u] = interest[u]
    BY <1>1, <2>1 DEF Mio!TypeOK
  <2>4. Mio!TypeOK'
    BY <1>1, <1>2, <2>3 DEF Mio!TypeOK
  <2>5. Mio!ArmedOnce'
    <3>1. \A u \in Streams : results'[u] = IF u = s THEN "Ok" ELSE results[u]
      BY <1>1, <1>2 DEF Mio!TypeOK
    <3> QED BY <1>1, <2>2, <2>3, <3>1 DEF Mio!ArmedOnce
  <2> QED BY <2>4, <2>5 DEF Mio!IInv
<1>3. CASE UNCHANGED interest /\ results' = [results EXCEPT ![s] = "Err"]
  <2>1. \A u \in Streams : results'[u] = IF u = s THEN "Err" ELSE results[u]
    BY <1>1, <1>3 DEF Mio!TypeOK
  <2>2. Mio!TypeOK'
    BY <1>1, <1>3 DEF Mio!TypeOK
  <2>3. Mio!ArmedOnce'
    BY <1>1, <1>3, <2>1 DEF Mio!ArmedOnce
  <2> QED BY <2>2, <2>3 DEF Mio!IInv
<1>4. CASE UNCHANGED <<interest, results>>
  BY <1>1, <1>4 DEF Mio!IInv, Mio!TypeOK, Mio!ArmedOnce
<1> QED BY <1>2, <1>3, <1>4 DEF Mio!Register

\* What is reported was armed, so it had not been reported before.
LEMMA MioSelect ==
  ASSUME Mio!IInv, Mio!SelectReturns
  PROVE  Mio!IInv'
<1>1. Mio!TypeOK /\ Mio!ArmedOnce /\ UNCHANGED results
  BY DEF Mio!IInv, Mio!SelectReturns
<1>2. PICK S \in Mio!Reports(interest, readable, MAXEVENTS) :
         /\ interest' = Mio!Reported(interest, S) /\ events' = Mio!Tokens(interest, S)
         /\ got' = [s \in Streams |-> got[s] + (IF s \in events' THEN 1 ELSE 0)]
  BY DEF Mio!SelectReturns
<1>3. S \subseteq Mio!Firing(interest, readable)
  BY DEF Mio!Reports
<1>4. \A s \in S : s \in DOMAIN interest /\ interest[s].armed /\ interest[s].token = s
  BY <1>1, <1>3 DEF Mio!Firing, Mio!TypeOK
<1>5. events' = S
  BY <1>2, <1>4 DEF Mio!Tokens
<1>6. \A s \in Streams : got'[s] = IF s \in S THEN 1 ELSE got[s]
  <2> SUFFICES ASSUME NEW s \in Streams PROVE got'[s] = IF s \in S THEN 1 ELSE got[s]
    OBVIOUS
  <2>1. got[s] \in {0, 1} /\ (s \in S => got[s] # 1)
    BY <1>1, <1>4 DEF Mio!TypeOK, Mio!ArmedOnce
  <2> QED BY <1>2, <1>5, <2>1
<1>7. /\ DOMAIN interest' = DOMAIN interest
      /\ \A s \in DOMAIN interest :
            /\ interest'[s] \in [token : Streams, armed : BOOLEAN]
            /\ interest'[s].token = s
            /\ interest'[s].armed <=> interest[s].armed /\ s \notin S
  <2>1. interest' = [s \in DOMAIN interest |->
                        [interest[s] EXCEPT !.armed = interest[s].armed /\ s \notin S]]
    BY <1>2 DEF Mio!Reported
  <2>2. \A s \in DOMAIN interest : /\ interest[s] \in [token : Streams, armed : BOOLEAN]
                                   /\ interest[s].token = s
    BY <1>1 DEF Mio!TypeOK
  <2> QED BY <2>1, <2>2
<1>8. Mio!TypeOK'
  <2>1. got' \in [Streams -> {0, 1}]
    BY <1>1, <1>2, <1>6 DEF Mio!TypeOK
  <2>2. interest' \in [DOMAIN interest' -> [token : Streams, armed : BOOLEAN]]
    BY <1>2, <1>7 DEF Mio!Reported
  <2> QED BY <1>1, <1>7, <2>1, <2>2 DEF Mio!TypeOK
<1>9. Mio!ArmedOnce'
  BY <1>1, <1>4, <1>6, <1>7 DEF Mio!ArmedOnce
<1> QED BY <1>8, <1>9 DEF Mio!IInv

LEMMA MioNext == Mio!IInv /\ [Mio!Next]_Mio!vars => Mio!IInv'
<1> SUFFICES ASSUME Mio!IInv, [Mio!Next]_Mio!vars PROVE Mio!IInv'
  OBVIOUS
<1>1. CASE UNCHANGED <<interest, got, results>>
  BY <1>1 DEF Mio!IInv, Mio!TypeOK, Mio!ArmedOnce
<1>2. CASE Mio!New \/ Mio!Select \/ Mio!SelectEmpty \/ UNCHANGED Mio!vars
           \/ \E s \in Streams : Mio!Answer(s)
  BY <1>1, <1>2 DEF Mio!New, Mio!Select, Mio!SelectEmpty, Mio!Answer, Mio!vars
<1>3. CASE Mio!SelectReturns
  BY <1>3, MioSelect
<1>4. CASE Mio!Registrations
  BY <1>4, MioRegister DEF Mio!Registrations
<1> QED BY <1>2, <1>3, <1>4 DEF Mio!Next, Mio!Poll

-----------------------------------------------------------------------------
\* The suite.

\* A step of the suite is a step of the program that was started.
LEMMA SuiteStep ==
  ASSUME [SuiteNext]_all
  PROVE  /\ UNCHANGED prog
         /\ [Next]_vars
         /\ prog = "example" => [Example!Next]_Example!vars
         /\ prog = "minimio" => [Mio!Next]_Mio!vars
         /\ prog = "send_sync" => [Scoped!Next]_Scoped!vars
<1>1. CASE UNCHANGED all
  BY <1>1 DEF all, ofEpoll, ofExample, ofMio, ofScoped, Example!vars, Mio!vars, Scoped!vars
<1>2. CASE SuiteNext
  BY <1>2 DEF SuiteNext, Green, Ex, Mini, Scope, Compute, MakeStacks, Returns
<1> QED BY <1>1, <1>2

\* t_yield and spawn, for every number of slots and every list of closures:
\* exactly the current thread is marked Running, and the saved stack pointer
\* of every thread that t_yield can pick is at a word that continues it, so
\* that no switch goes astray.
THEOREM SwitchesAreSafe == SuiteSpec => []SwitchesSafely
<1>1. SuiteInit => IInv
  BY InitIInv DEF SuiteInit, NoGreen
<1>2. IInv /\ [SuiteNext]_all => IInv'
  BY SuiteStep, NextIInv
<1>3. IInv => SwitchesSafely
  BY DEF IInv, SwitchesSafely
<1> QED BY <1>1, <1>2, <1>3, PTL DEF SuiteSpec

\* epoll with EPOLLONESHOT, as example.rs and linux.rs use it: each interest
\* is reported once and no more, example.rs counts exactly what is outstanding
\* and has heard every stream when it ends, and a stream of minimio whose
\* registration was accepted is never armed again, whatever later calls of
\* register answer and although the first may fail.  For every number of requests and
\* streams, and for every number of events to a call.
THEOREM EventsOnce == SuiteSpec => []OneEventEach
<1>1. SuiteInit => QueueInv
  BY ExampleInit, MioInit DEF SuiteInit, QueueInv, Called
<1>2. QueueInv /\ [SuiteNext]_all => QueueInv'
  BY SuiteStep, ExampleNext, MioNext DEF QueueInv
<1>3. QueueInv => OneEventEach
  <2>1. Mio!IInv => Mio!OneEventEach
    BY DEF Mio!IInv, Mio!TypeOK, Mio!ArmedOnce, Mio!OneEventEach
  <2> QED BY <2>1, ExampleOneEach DEF QueueInv, OneEventEach
<1> QED BY <1>1, <1>2, <1>3, PTL DEF SuiteSpec

\* i5_standard_traits.rs: for every number of readers, when the test ends it
\* has printed "Hello n" once for each of them, in some order, and then the
\* three sentences, each whole: no reader sees the string change.
THEOREM CommentsAreRight == SuiteSpec => []PrintedAsCommented
<1> DEFINE SyncInv == prog = "send_sync" => Scoped!IInv
<1>1. SuiteInit => SyncInv
  BY ScopedInit DEF SuiteInit, Called
<1>2. SyncInv /\ [SuiteNext]_all => SyncInv'
  BY SuiteStep, ScopedNext
<1>3. SyncInv => PrintedAsCommented
  BY ScopedEnd DEF PrintedAsCommented
<1> QED BY <1>1, <1>2, <1>3, PTL DEF SuiteSpec

-----------------------------------------------------------------------------
\* References that may be the same.

\* Twice of 1 fits: the constant that compute writes is what compute_v1 and
\* compute_v2 compute.
LEMMA TwiceOne == ASSUME NEW build PROVE Twice(build, 1) = 2
BY U32Assumption DEF Twice

\* reference_aliasing: the three functions are the same function of the
\* memory exactly when the references differ or the input is at most 10.
THEOREM AliasingIsAllThatMatters ==
    ASSUME NEW A, NEW m \in [A -> Nat], NEW build,
           NEW input \in A, NEW output \in A
    PROVE  AliasDecides(build, m, input, output, compute_v1(build, m, input, output))
<1> DEFINE v1 == compute_v1(build, m, input, output)
           v2 == compute_v2(build, m, input, output)
           opt == compute(build, m, input, output)
<1>1. m[input] \in Nat /\ m[output] \in Nat
  OBVIOUS
<1>2. Twice(build, 1) = 2
  BY TwiceOne
<1>3. CASE m[input] > 10
  <2>1. m[input] > 5
    BY <1>1, <1>3
  <2>2. v2 = [m EXCEPT ![output] = 2] /\ opt = [m EXCEPT ![output] = 2]
    BY <1>2, <1>3, <2>1 DEF compute_v2, compute
  <2>3. CASE input # output
    <3>1. [m EXCEPT ![output] = 1][input] > 5
      BY <2>1, <2>3
    <3>2. v1 = [[m EXCEPT ![output] = 1] EXCEPT ![output] = Twice(build, [m EXCEPT ![output] = 1][output])]
      BY <1>3, <3>1 DEF compute_v1
    <3>3. v1 = opt
      BY <1>2, <2>2, <3>2
    <3> QED
      BY <2>2, <2>3, <3>3 DEF AliasDecides
  <2>4. CASE input = output
    <3>1. v1 = [m EXCEPT ![output] = 1]
      BY <1>3, <2>4 DEF compute_v1
    <3>2. v1[output] = 1 /\ opt[output] = 2
      BY <2>2, <3>1
    <3> QED
      BY <1>1, <1>3, <2>2, <2>4, <3>2 DEF AliasDecides
  <2> QED
    BY <2>3, <2>4
<1>4. CASE ~(m[input] > 10)
  <2>1. v1 = IF m[input] > 5 THEN [m EXCEPT ![output] = Twice(build, m[output])] ELSE m
    BY <1>4 DEF compute_v1
  <2>2. opt = IF m[input] > 5 THEN [m EXCEPT ![output] = Twice(build, m[output])] ELSE m
    BY <1>4 DEF compute
  <2>3. v2 = IF m[input] > 5 THEN [m EXCEPT ![output] = Twice(build, m[output])] ELSE m
    BY <1>4 DEF compute_v2
  <2>4. m[input] <= 10
    BY <1>1, <1>4
  <2> QED
    BY <1>4, <2>1, <2>2, <2>3, <2>4 DEF AliasDecides
<1> QED
  BY <1>3, <1>4

-----------------------------------------------------------------------------
\* Stacks laid out by hand.

\* Rounding down to a multiple of 16 loses at most 15 bytes.
LEMMA AlignedDown == ASSUME NEW a \in Nat
                     PROVE  /\ Aligned(a) \in Nat /\ Aligned(a) % 16 = 0
                            /\ Aligned(a) <= a /\ a < Aligned(a) + 16
BY DEF Aligned

\* assembly.rs, bonus.rs and Runtime::spawn: whatever address the allocator
\* returns, the words are inside the stack and apart, and rsp is aligned;
\* that of bonus.rs only if the address is.
THEOREM StacksAreUsable ==
    ASSUME NEW base \in Nat, NEW size \in Nat, size >= 48
    PROVE  StacksUsable(base, size, spawn(base, size))
<1>1. Usable(base, assembly_main(base)) /\ assembly_main(base).rsp % 16 = 0
  <2> DEFINE s == Aligned(base + 48)
  <2>1. s \in Nat /\ s % 16 = 0 /\ s <= base + 48 /\ base + 48 < s + 16
    BY AlignedDown
  <2>2. (s - 16) % 16 = 0
    BY <2>1
  <2> HIDE DEF s
  <2>3. base <= s - 16 /\ (s - 16) + 7 < base + 48
    BY <2>1
  <2> QED
    BY <2>1, <2>2, <2>3 DEF Usable, assembly_main, s
<1>2. Usable(base, bonus_main(base)) /\ (bonus_main(base).rsp % 16 = 0 <=> base % 16 = 0)
  <2>1. ((base + 1024 - 16) % 16 = 0) <=> (base % 16 = 0)
    OBVIOUS
  <2> QED
    BY <2>1 DEF Usable, bonus_main
<1>3. /\ spawn(base, size).size = size
      /\ Usable(base, spawn(base, size)) /\ spawn(base, size).rsp % 16 = 0
  <2> DEFINE s == Aligned(base + size)
  <2>1. s \in Nat /\ s % 16 = 0 /\ s <= base + size /\ base + size < s + 16
    BY AlignedDown
  <2>2. (s - 32) % 16 = 0
    BY <2>1
  <2> HIDE DEF s
  <2>3. /\ base <= s - 32 /\ (s - 32) + 7 < base + size
        /\ base <= s - 16 /\ (s - 16) + 7 < base + size
        /\ (s - 32) + 7 < s - 16
    BY <2>1
  <2> QED
    BY <2>1, <2>2, <2>3 DEF Usable, spawn, s
<1> QED
  BY <1>1, <1>2, <1>3 DEF StacksUsable

-----------------------------------------------------------------------------
\* The calls.

\* main's two calls print 2, whatever the build.
LEMMA OutputsAre == ASSUME NEW build PROVE Outputs(build) = <<2, 2>>
<1>1. ASSUME NEW m \in [{0, 1} -> Nat], m[0] > 10
      PROVE  compute_v1(build, m, 0, 1)[1] = 2
  <2>1. [m EXCEPT ![1] = 1][0] = m[0] /\ [m EXCEPT ![1] = 1][1] = 1
    OBVIOUS
  <2>2. m[0] > 5
    BY <1>1
  <2>3. compute_v1(build, m, 0, 1) = [[m EXCEPT ![1] = 1] EXCEPT ![1] = Twice(build, 1)]
    BY <1>1, <2>1, <2>2 DEF compute_v1
  <2> QED BY <2>3, TwiceOne
<1>2. [a \in {0, 1} |-> 11 - 10 * a] \in [{0, 1} -> Nat] /\ [a \in {0, 1} |-> 11 - 10 * a][0] > 10
  OBVIOUS
<1>3. [a \in {0, 1} |-> 12 - 10 * a] \in [{0, 1} -> Nat] /\ [a \in {0, 1} |-> 12 - 10 * a][0] > 10
  OBVIOUS
<1>4. compute_v1(build, [a \in {0, 1} |-> 11 - 10 * a], 0, 1)[1] = 2
  BY <1>1, <1>2
<1>5. compute_v1(build, [a \in {0, 1} |-> 12 - 10 * a], 0, 1)[1] = 2
  BY <1>1, <1>3
<1> QED BY <1>4, <1>5 DEF Outputs

\* A function is called with the arguments of its type, which do not change,
\* and returns its result.
Returned == /\ prog = "compute" => /\ args \in Calls
                                   /\ at = "end" => result = compute_v1(args.build, args.m, args.input, args.output)
            /\ prog = "stacks" => /\ args \in BASES \X SIZES
                                  /\ at = "end" => result = spawn(args[1], args[2])

LEMMA ReturnedInit == SuiteInit => Returned
BY DEF SuiteInit, Returned, Called

LEMMA ReturnedStep == Returned /\ [SuiteNext]_all => Returned'
<1> SUFFICES ASSUME Returned, [SuiteNext]_all PROVE Returned'
  OBVIOUS
<1>1. CASE UNCHANGED all
  BY <1>1 DEF all, ofMemory, Returned
<1>2. CASE Green(Next) \/ Ex(Example!Next) \/ Mini(Mio!Next) \/ Scope(Scoped!Next)
  BY <1>2 DEF Green, Ex, Mini, Scope, Returned
<1>3. CASE Compute
  BY <1>3 DEF Compute, Returns, Returned
<1>4. CASE MakeStacks
  BY <1>4 DEF MakeStacks, Returns, Returned
<1> QED BY <1>1, <1>2, <1>3, <1>4 DEF SuiteNext

\* reference_aliasing and the stacks, for every memory, every pair of
\* references, every width of the integer, every address of a stack and every
\* size from 48 bytes.
THEOREM PointersAreRight == SuiteSpec => []PointersHold
<1>1. Returned => PointersHold
  <2> SUFFICES ASSUME Returned PROVE PointersHold
    OBVIOUS
  <2>1. ASSUME prog = "compute", at = "end"
        PROVE  /\ AliasDecides(args.build, args.m, args.input, args.output, result)
               /\ Outputs(args.build) = <<2, 2>>
    <3>1. args.m \in [Addr -> 0..U32-1] /\ args.input \in Addr /\ args.output \in Addr
      BY <2>1 DEF Returned, Calls
    <3>2. args.m \in [Addr -> Nat]
      BY <3>1, U32Assumption
    <3> QED BY <2>1, <3>1, <3>2, AliasingIsAllThatMatters, OutputsAre DEF Returned
  <2>2. ASSUME prog = "stacks", at = "end"
        PROVE  StacksUsable(args[1], args[2], result)
    <3>1. args[1] \in BASES /\ args[2] \in SIZES
      BY <2>2 DEF Returned
    <3>2. args[1] \in Nat /\ args[2] \in Nat \ 0..47
      BY <3>1, StackAssumption
    <3>3. \A s \in Nat \ 0..47 : s >= 48
      OBVIOUS
    <3> QED BY <2>2, <3>2, <3>3, StacksAreUsable DEF Returned
  <2> QED BY <2>1, <2>2 DEF PointersHold
<1> QED BY <1>1, ReturnedInit, ReturnedStep, PTL DEF SuiteSpec
=============================================================================
