----------------------------- MODULE RustRuntime -----------------------------
(***************************************************************************)
(* The Rust programs that schedule or wait: the green threads, the epoll   *)
(* example, minimio and the scoped threads; and those that depend on where *)
(* things are in memory: reference_aliasing and the stacks laid out by     *)
(* hand; side by side.  `prog' is the one that was started; the green      *)
(* threads stay in an initial state, and the other programs' variables     *)
(* empty, when they are not.                                               *)
(***************************************************************************)
EXTENDS GreenThreads, RawPointers, FiniteSets

CONSTANTS Requests, CAPACITY,   \* example.rs
          Streams, MAXEVENTS,   \* minimio
          READERS,              \* send_sync
          Addr,                 \* where the references of reference_aliasing point
          BASES, SIZES          \* the addresses and the sizes of the stacks

\* assembly.rs has the smallest stack, 48 bytes.
ASSUME EpollAssumption == Requests \in Nat
ASSUME ScopeAssumption == READERS \in Nat \ {0}
ASSUME StackAssumption == BASES \subseteq Nat /\ SIZES \subseteq Nat \ 0..47

VARIABLES prog, at, x, event_counter, streams, interest, readable, events, got,
          reg, results, run, n, greeting, out,
          args, result          \* of a function, and what it computes

\* main as it is, closures of other lengths, and too many of them.
MCWorks == {<<10, 15>>, <<>>, <<0>>, <<3, 1>>, <<2, 3, 2>>, <<1, 1, 1, 1>>}

\* Every remainder modulo 16, and the stack of assembly.rs as the smallest.
MCBases == 64..95
MCSizes == {48, 100, 1024}

Example == INSTANCE EpollExample WITH pc <- at, N <- Requests

Mio == INSTANCE Minimio WITH pc <- at

Scoped == INSTANCE ScopedThreads WITH pc <- at

ofEpoll == <<interest, readable, events, got>>  \* of example.rs and minimio
ofExample == <<x, event_counter, streams>>
ofMio == <<reg, results>>
ofScoped == <<run, n, greeting, out>>
ofMemory == <<args, result>>
all == <<prog, at, vars, ofEpoll, ofExample, ofMio, ofScoped, ofMemory>>
empty == <<>>

NoGreen == Init /\ work = <<>>
NoEpoll == interest = empty /\ readable = empty /\ events = empty /\ got = empty
NoExample == x = empty /\ event_counter = empty /\ streams = empty
NoMio == reg = empty /\ results = empty
NoScoped == run = empty /\ n = empty /\ greeting = empty /\ out = empty

NoMemory == args = empty /\ result = empty

\* The calls of the programs about memory; input and output are references.
Calls == [build : {"debug", "release"}, m : [Addr -> 0..U32-1], input : Addr, output : Addr]
Called(p, S) == prog = p /\ at = "call" /\ args \in S /\ result = empty

SuiteInit ==
    \/ prog = "green" /\ Init /\ at = empty /\ NoEpoll /\ NoExample /\ NoMio /\ NoScoped /\ NoMemory
    \/ prog = "example" /\ Example!Init /\ NoGreen /\ NoMio /\ NoScoped /\ NoMemory
    \/ prog = "minimio" /\ Mio!Init /\ NoGreen /\ NoExample /\ NoScoped /\ NoMemory
    \/ prog = "send_sync" /\ Scoped!Init /\ NoGreen /\ NoEpoll /\ NoExample /\ NoMio
       /\ NoMemory
    \/ /\ Called("compute", Calls) \/ Called("stacks", BASES \X SIZES)
       /\ NoGreen /\ NoEpoll /\ NoExample /\ NoMio /\ NoScoped

Green(A) == prog = "green" /\ A /\ UNCHANGED <<prog, at, ofEpoll, ofExample, ofMio, ofScoped, ofMemory>>
Ex(A) == prog = "example" /\ A /\ UNCHANGED <<prog, vars, ofMio, ofScoped, ofMemory>>
Mini(A) == prog = "minimio" /\ A /\ UNCHANGED <<prog, vars, ofExample, ofScoped, ofMemory>>
Scope(A) == prog = "send_sync" /\ A /\ UNCHANGED <<prog, vars, ofEpoll, ofExample, ofMio, ofMemory>>

Returns(p, r) == /\ prog = p /\ at = "call" /\ at' = "end" /\ result' = r
                 /\ UNCHANGED <<prog, args, vars, ofEpoll, ofExample, ofMio, ofScoped>>

Compute == Returns("compute", compute_v1(args.build, args.m, args.input, args.output))
MakeStacks == Returns("stacks", spawn(args[1], args[2]))

SuiteNext == \/ Green(Next) \/ Ex(Example!Next) \/ Mini(Mio!Next) \/ Scope(Scoped!Next)
             \/ Compute \/ MakeStacks

\* The CPU, the threads and the polling loop go on; every server answers.
SuiteSpec ==
    /\ SuiteInit /\ [][SuiteNext]_all
    /\ WF_all(Green(Next))
    /\ WF_all(Ex(Example!Main)) /\ \A s \in 1..Requests : WF_all(Ex(Example!Answer(s)))
    /\ WF_all(Mini(Mio!Poll))
    /\ WF_all(Scope(Scoped!Owner)) /\ WF_all(Scope(Scoped!WriterAppends \/ Scoped!WriterPrints))
    /\ \A t \in Scoped!Readers : WF_all(Scope(Scoped!Reader(t)))

-----------------------------------------------------------------------------
\* main.rs: how the process ends is decided by how many closures are spawned.
EndsByCount == <>(prog = "green" => Ends)

\* example.rs and linux.rs: each interest gives one event and no more.
OneEventEach == /\ prog = "example" => Example!OneEventEach
                /\ prog = "minimio" => Mio!OneEventEach

\* example.rs: the loop is left, although the answers come in any order and
\* several of them may come at once.
ExampleEnds == <>(prog = "example" => Example!AtEnd)

\* linux.rs: interest that another thread registers, before or during the
\* wait, is reported once there is something to read.
RegistrationsDeliver == \A s \in Streams :
    (prog = "minimio" /\ Mio!Expected(s)) ~> (prog = "minimio" => got[s] = 1)

\* i5_standard_traits.rs: the test prints what its comments say and ends.
PrintsAsCommented == <>[](prog = "send_sync" => at = "end" /\ Scoped!AsCommented)

\* reference_aliasing: what compute_v1 computes depends on the order of its
\* reads and writes exactly if its references alias; the stacks of the
\* green-thread programs are aligned and inside their allocation.
PointersHold ==
    /\ prog = "compute" /\ at = "end" =>
          /\ AliasDecides(args.build, args.m, args.input, args.output, result)
          /\ Outputs(args.build) = <<2, 2>>
    /\ prog = "stacks" /\ at = "end" => StacksUsable(args[1], args[2], result)

-----------------------------------------------------------------------------
\* Why OneEventEach holds: the program that was started keeps its invariant.
QueueInv == /\ prog = "example" => Example!IInv
            /\ prog = "minimio" => Mio!IInv

\* The part of PrintsAsCommented that does not depend on fairness.
PrintedAsCommented == prog = "send_sync" /\ at = "end" => Scoped!AsCommented
=============================================================================
