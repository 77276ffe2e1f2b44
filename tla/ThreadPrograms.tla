--------------------------- MODULE ThreadPrograms ---------------------------
(***************************************************************************)
(* Seven small multi-threaded programs side by side: `prog' is the one that*)
(* was started, and the others' variables stay empty.  Four count in a     *)
(* shared variable (sum-atomic.c, sum.cpp, spin_lock.rs, mandelbrot.c) and *)
(* three wait for each other (pc.c, sem.py, simulate-deadlock).            *)
(***************************************************************************)
EXTENDS Integers, FiniteSets

CONSTANTS K, AtomicN,           \* sum-atomic.c: threads and rounds
          RaceN,                \* sum.cpp: rounds
          ROUNDS,               \* spin_lock.rs
          W, NTHREAD, Args,     \* mandelbrot.c: columns, pool, arguments
          Producers, Consumers, NoThread, n,    \* pc.c
          Tids, Tokens          \* sem.py

ASSUME CountersAssumption == K \in Nat \ {0} /\ AtomicN \in Nat /\ RaceN \in Nat
                             /\ ROUNDS \in Nat \ {0}
ASSUME MandelAssumption == W \in Nat \ {0} /\ NTHREAD \in Nat /\ Args \subseteq Int
ASSUME RetryAssumption == /\ Producers \cap Consumers = {} /\ n \in Nat
                          /\ NoThread \notin Producers \cup Consumers
ASSUME SemAssumption == IsFiniteSet(Tids) /\ Tokens \in Nat

\* Arguments of mandelbrot.c for TLC, whose cfg has no negative numbers.
MCArgs == {-1, 0, 1, 2, 3, 4, 6}

VARIABLES prog, pc, main, i, reg,
          sum, threads, freed, join_fn, build, lock, counter, joined,
          lk, count, depth, token, waits, owner, NT, done, drawn, disp

Atomic == INSTANCE SumAtomic WITH N <- AtomicN
Race == INSTANCE SumRace WITH N <- RaceN
Spin == INSTANCE RustSpinLock
Mandel == INSTANCE Mandelbrot
Retry == INSTANCE PcRetry WITH Threads <- Producers \cup Consumers
Sem == INSTANCE SemPy
Locks == INSTANCE LockOrder

\* The variables of the three that no other program uses.
ofRetry == <<lk, count, depth>>
ofSem == <<token, waits>>
ofMandel == <<NT, done, drawn, disp>>
vars == <<prog, pc, main, i, reg, sum, threads, freed, join_fn, build, lock, counter,
          joined, ofRetry, ofSem, owner, ofMandel>>
empty == <<>>

NoMain == main = empty
NoIndex == i = empty
NoReg == reg = empty
NoSum == sum = empty
NoAtomic == threads = empty /\ freed = empty /\ join_fn = empty
NoSpin == build = empty /\ lock = empty /\ counter = empty /\ joined = empty
NoRetry == lk = empty /\ count = empty /\ depth = 0
NoSem == token = empty /\ waits = empty
NoLocks == owner = empty
NoMandel == NT = empty /\ done = empty /\ drawn = empty /\ disp = empty
NoCounting == NoIndex /\ NoReg /\ NoSum /\ NoAtomic /\ NoSpin
NoWaiting == NoRetry /\ NoSem /\ NoLocks

Init == \/ prog = "mandelbrot" /\ Mandel!Init /\ NoSum /\ NoAtomic /\ NoSpin /\ NoWaiting
        \/ /\ NoMandel
           /\ \/ prog = "sum-atomic" /\ Atomic!Init /\ NoReg /\ NoSpin /\ NoWaiting
              \/ prog = "sum" /\ Race!Init /\ NoAtomic /\ NoSpin /\ NoWaiting
              \/ prog = "spin_lock" /\ Spin!Init /\ NoMain /\ NoSum /\ NoAtomic /\ NoWaiting
              \/ prog = "pc" /\ Retry!Init /\ NoMain /\ NoCounting /\ NoSem /\ NoLocks
              \/ prog = "sem" /\ Sem!Init /\ NoMain /\ NoCounting /\ NoRetry /\ NoLocks
              \/ prog = "simulate-deadlock" /\ Locks!Init /\ NoCounting /\ NoRetry /\ NoSem

Waiting == <<ofRetry, ofSem, owner>>
Counting == <<i, reg, sum, threads, freed, join_fn, build, lock, counter, joined>>

AtomicStep(A) == /\ prog = "sum-atomic" /\ A
                 /\ UNCHANGED <<prog, reg, build, lock, counter, joined, Waiting, ofMandel>>
RaceStep(A) == /\ prog = "sum" /\ A
               /\ UNCHANGED <<prog, threads, freed, join_fn, build, lock, counter, joined,
                              Waiting, ofMandel>>
SpinStep(A) == /\ prog = "spin_lock" /\ A
               /\ UNCHANGED <<prog, main, sum, threads, freed, join_fn, Waiting, ofMandel>>
RetryStep(A) == prog = "pc" /\ A /\ UNCHANGED <<prog, main, Counting, ofSem, owner, ofMandel>>
SemStep(A) == prog = "sem" /\ A /\ UNCHANGED <<prog, main, Counting, ofRetry, owner, ofMandel>>
LocksStep(A) == /\ prog = "simulate-deadlock" /\ A
                /\ UNCHANGED <<prog, Counting, ofRetry, ofSem, ofMandel>>
MandelStep(A) == /\ prog = "mandelbrot" /\ A
                 /\ UNCHANGED <<prog, sum, threads, freed, join_fn, build, lock, counter,
                                joined, Waiting>>

Next == \/ AtomicStep(Atomic!Next) \/ RaceStep(Race!Next) \/ SpinStep(Spin!Next)
        \/ RetryStep(Retry!Next) \/ SemStep(Sem!Next) \/ LocksStep(Locks!Next)
        \/ MandelStep(Mandel!Next)

\* All threads are run when they can run; pc.c's mutex is not fair.
Spec == /\ Init /\ [][Next]_vars
        /\ WF_vars(AtomicStep(Atomic!MainThread))
        /\ \A t \in Atomic!Ids : WF_vars(AtomicStep(Atomic!EntryAll(t) \/ Atomic!Tsum(t)))
        /\ WF_vars(RaceStep(Race!Main))
        /\ \A t \in Race!Threads : /\ WF_vars(RaceStep(Race!tSum(t)))
                                   /\ WF_vars(SpinStep(Spin!Run(t)))
                                   /\ WF_vars(SpinStep(Spin!Join(t)))
        /\ \A t \in Producers \cup Consumers : WF_vars(RetryStep(Retry!Step(t)))
        /\ \A t \in Tids : WF_vars(SemStep(Sem!Thread(t)))
        /\ WF_vars(LocksStep(Locks!Main))
        /\ \A t \in Locks!Threads : WF_vars(LocksStep(Locks!Run(t)))
        /\ WF_vars(MandelStep(Mandel!Main)) /\ WF_vars(MandelStep(Mandel!Tdisplay))
        /\ \A t \in Mandel!Slots : WF_vars(MandelStep(Mandel!Tworker(t)))

-----------------------------------------------------------------------------
\* sum-atomic.c on thread.h: the library never gives a node back before its
\* thread has read it, however late the thread starts, and the program ends
\* with every node freed and with five times N in `sum'.
ExitsClean == prog = "sum-atomic" => Atomic!ReadsLiveNode /\ Atomic!ExitsClean

\* sum.cpp: how many of the 2N unlocked additions can be missing at the end.
PrintedSum == prog = "sum" => Race!PrintedSum

\* spin_lock.rs: what the Relaxed release can cost.
PrintedCounter == prog = "spin_lock" => Spin!PrintedCounter

\* mandelbrot.c saves no half-drawn picture, whatever becomes of `done'; but
\* the columns past NT * (W / NT) belong to no worker and stay empty.
ImageComplete == prog = "mandelbrot" => Mandel!ImageComplete

\* pc.c: the text is always a prefix of a balanced string of depth at most n.
OutputBalanced == Retry!OutputBalanced

\* What waiting by retrying costs (the remark of pc.c 15-17): the text grows
\* for ever, or threads go round the retry loop for ever, because an unfair
\* mutex may always go to a thread whose condition is false.  Nothing else
\* can stop the output: in particular no thread leaves with the mutex held.
PrintsOrSpins == []<><<Retry!TextGrows>>_depth \/ []<>(prog = "pc" => Retry!Retrying)

\* sem.py: mark_both never paints a state red, and the hand-over in V neither
\* skips nor doubles a waiter.
QueueIsSound == prog = "sem" => Sem!NeverRed /\ Sem!QueueIsSound

\* simulate-deadlock: the program deadlocks for ever or comes to its last
\* statement; there is no third way to end, and the schedule decides.
\* mandelbrot.c: main returns, the pool or the division stops the process, or
\* the display waits for ever for a lost ++ of `done' (or for a negative NT).
DeadlocksOrExits == <>[](/\ prog = "simulate-deadlock" => Locks!AtRest
                         /\ prog = "mandelbrot" => Mandel!AtRest)

\* The programs that end do so whatever the schedule: no join waits for ever,
\* the spin lock is free again whenever nobody holds it, and every thread of
\* sem.py gets through its critical section.
Terminates == <>(CASE prog = "sum-atomic" -> main = "exit"
                   [] prog = "sum" -> main.next = "exit"
                   [] prog = "spin_lock" -> joined = Spin!Threads
                   [] prog = "sem" -> Sem!AllThrough
                   [] OTHER -> TRUE)

-----------------------------------------------------------------------------
\* Why they hold: the program that was started keeps its own invariant, and
\* only pc.c prints.
IInv == /\ prog = "sum-atomic" => Atomic!IInv
        /\ prog = "sum" => Race!IInv
        /\ prog = "spin_lock" => Spin!IInv
        /\ prog = "mandelbrot" => Mandel!IInv
        /\ prog = "sem" => Sem!IInv
        /\ IF prog = "pc" THEN Retry!IInv ELSE depth = 0
=============================================================================
