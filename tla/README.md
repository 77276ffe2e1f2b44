# TLA+ models of the Easton playground

The repository is a collection of small programs written while learning about
operating systems, networks and Rust. Few of them call each other; what they
share are the thread libraries and the synchronisation primitives of
`OperatingSystem/concurrency`. Modelled are the programs there, the shell in
`OperatingSystem/virtualization/unix-shell`, and the Rust programs that
schedule, wait, lay out memory, drop or convert values. Paths below are
relative to `src/`; `C/` stands for `OperatingSystem/concurrency/`, `T/` for
`C/thread-synchronization/`, `R/` for `Rustaceans/`, `N/` for
`R/Rustonomicon/`, `A/` for `R/Sundry/Asynchronization/` and `P/` for
`R/RustDesignPatterns/rust-design-pattern/src/idiom/`.

## Inventory

| Part | State | Operations | What is hard | Correct when |
|---|---|---|---|---|
| `C/thread-sync.h` | a mutex, a condition variable, semaphores, a spin lock | lock/unlock, wait/signal/broadcast, P/V, exchange | spurious wakeups, unfair mutex, signals nobody hears | what POSIX says (modelled as such) |
| `C/thread.h` | linked list of threads, `join_fn` | `create`, `join`, destructor `join_all` | a node is freed by one thread and read by another | no node is freed before its thread is done with it |
| `C/mutual_exclusion/thread.h` | pool of 64 slots | `create`, `join`, destructor `cleanup` | pool limit, joining what was joined | every live slot is joined once, an overfull pool aborts |
| `T/pc-cv.c`, `pc-cv-bad.c`, `pc.c`, `pc-sem.c` | `count` or two semaphores; the printed text | `Tproduce`, `Tconsume` | wakeups reaching the wrong side, stale conditions, starvation | the text is a prefix of a balanced string of depth at most n and grows for ever (`pc-check.py`) |
| `T/pc.cpp` | ring buffer, `head`, `rear` | `Tproducer`, `Tconsumer` | full against empty, wrap-around | a bounded FIFO queue |
| `T/philosopher.c`, `philosopher-bad.c` | forks | `Tphilosopher` | deadlock, exclusion | no fork in two hands; no deadlock |
| `C/simulate-deadlock` | two mutexes | two threads, `main` | opposite lock orders | (meant to deadlock) |
| `C/mutual_exclusion/sum-*.c`, `C/why-we-need-locks/sum.cpp`, `C/locks/src/spin_lock.rs` | a counter and its lock | `Tsum`, `main` | lost updates, memory order, joining | the printed or asserted sum |
| `T/sem.py`, `T/pc-cv.py`, `C/model-checker.py` | Python models of the above, and the checker that explores them | thread functions; breadth-first search | states merged by hash | all interleavings are visited |
| `A/green-thread-explained` | slots with a state, a context and a stack | `spawn`, `t_yield`, `run` | a task that returns, a slot that is never given back, stacks laid out by hand | only a slot that can go on is switched to, a task that finishes returns to `guard`, stacks aligned and inside their allocation |
| `A/minimio` | an epoll set, an event vector, a counter | `register`, `select`, `main` of `example.rs` | events in any order and several at a time, registration during the wait | every registered event is handled once |
| `LinuxSystemPrograming/File-IO` | an epoll, select or poll set | wait, read | edge-triggered events | not modelled |
| `OperatingSystem/virtualization/unix-shell` | processes, pipes, a parser | `runcmd`, `parsecmd` | open pipe ends, waiting for children | readers see end of file |
| `OperatingSystem/virtualization/scheduling/mandelbrot.c` | image, `done` | workers, display | unlocked counter, division of the columns | no half-drawn image is saved; the display ends |
| `OperatingSystem/virtualization/ELF`, `Process`, `OperatingSystem/persistence`, `Net`, `Middleware` | memory, files, sockets | one `main` each | short reads, buffered output across `fork` | see the plan |
| `R/EffectiveRust/types` (`send_sync`) | one string, threads of a scope | readers, a writer, the owner | the owner changes what threads read | the output is the one in the comments |
| `N/data_layout` | structs, unions, enums of three sources | the compiler's layout | padding, pointer width, hidden tags | the documented sizes and offsets |
| destructors (`N/obrm`, `N/ownership`, `P/ffi.rs`, `P/onstack_dynamic_dispatch.rs`) | scopes, live values, heap | enter and leave a scope, move, forget, drop | freeing by hand, pointers to temporaries | everything is freed once and not used later |
| `N/ownership/reference_aliasing` | two references | `compute_v1`, `compute_v2` | aliasing, overflow | the optimized function |
| `P/`, `N/type_conversions`, `R/StandardLibrary/collections/binary-heap`, `R/Sundry/write-cpu-adaptation-code` | none or one vector | small functions | uninitialised bytes, boundaries, endianness | a definition to compare with |
| other Rust notes (`hrtbs`, `phantom_data`, `trait-object`, ...) | none | none | decided by the type checker | not modelled |

## Modules

Every module is a translation of one program; the header of a module lists its
program counters. One step is one statement that touches shared state (a C
`x++` on a shared variable is a load and a store where no lock or atomic
instruction makes it one step). Threads that are not created yet take no step,
and since a thread that has not started looks the same, the producer-consumer
models start with all threads in place; where creation, joining or exit matter
(`SumScalability`, `SumAtomic`, `SumRace`, `LockOrder`) `main` is modelled.

| Module | Source | Remarks |
|---|---|---|
| `Mutex` | `C/thread-sync.h` 27-31 | `lk` is the holder or `NoThread` |
| `PthreadSync` | `C/thread-sync.h` 33-38 | extends `Mutex`; `waiting` is the set of threads blocked on the condition variable; a spurious wakeup removes one, at most `MaxSpurious` times |
| `Parens` | `T/pc-check.py`, `T/pc.c` 1-9 | abstract: the nesting `depth` of the text goes up and down between 0 and n |
| `PcCv`, `PcCvProofs` | `T/pc-cv.c` | extends `PthreadSync`; implements `Parens` |
| `PcCvBad` | `T/pc-cv-bad.c` | extends `PcCv` and replaces the two statements that differ |
| `PcRetry` | `T/pc.c` | extends `Mutex` |
| `PcSem`, `PcSemProofs` | `T/pc-sem.c` | two semaphores, no mutex; implements `Parens` |
| `BoundedFifo` | `T/pc.cpp` | abstract: a queue of limited capacity |
| `PcRing`, `PcRingProofs` | `T/pc.cpp` | extends `PthreadSync`; implements `BoundedFifo` with the full cells from `head` on as the queue |
| `Philosopher` | `T/philosopher.c` | extends `PthreadSync` |
| `PhilosopherBad`, `PhilosopherBadProofs` | `T/philosopher-bad.c` | semaphores only |
| `LockOrder` | `C/simulate-deadlock` (Rust and C) | |
| `SumScalability`, `SumScalabilityProofs` | `C/mutual_exclusion/sum-scalability-*.c`, its `thread.h` | the spin-lock and the mutex program differ only in how a thread waits |
| `SumAtomic` | `C/mutual_exclusion/sum-atomic.c`, `C/thread.h` | the thread list and its destructor |
| `SumRace` | `C/why-we-need-locks/sum.cpp` | load and store as in `obj.dump` |
| `RustSpinLock` | `C/locks/src/spin_lock.rs` | the Relaxed release comes after the writes to the counter, or before any number of them |
| `Mandelbrot` | `virtualization/scheduling/mandelbrot.c`, `C/mutual_exclusion/thread.h` | a column is drawn or not; `done++` is a load and a store; a failing `popen` or `fopen` is an assertion that ends the process |
| `SemPy` | `T/sem.py` | one step per line, as `model-checker.py` runs it |
| `ShellParser` | `unix-shell/sh-xv6.c` 9-43, 86-99, 200-444 | the parser as recursive operators on token sequences; words are places in the line |
| `ShellGrammar` | | the same language as a grammar, and what it means that the parser agrees with it |
| `Shell`, `ShellProofs` | `unix-shell/sh-xv6.c` 101-198 | a process table with descriptors, one step per system call; the parser, what a line means (`Wiring`) and the places of commands in a line (`From`, `To`) are parameters, to which `MCShell` gives the values of `ShellParser`; `pipes` counts the writes in the pipe of each node, 0 before it is made; the kernel and the executed programs are external |
| `GreenThreads` | `A/green-thread-explained/src/main.rs` | slots, the four words at the end of each stack, the rounds of each closure; no closure yields (`yield_thread()` is commented out and defined nowhere); the `switch` routine, which the repository lacks, is external |
| `Epoll` | | external: an interest list with one-shot entries, and what one wait may report |
| `EpollExample` | `A/minimio/src/example.rs` | over `Epoll`; servers answer in any order or not at all |
| `Minimio` | `A/minimio/src/linux.rs`, `lib.rs` | over `Epoll`; one thread selects, another registers; `epoll_ctl` may fail for any stream |
| `ScopedThreads` | `R/EffectiveRust/types/src/i5_standard_traits.rs` | one step per statement of the owner, the readers and the writer |
| `RawPointers` | `N/ownership/reference_aliasing`, the stacks of `A/green-thread-explained` | functions on memory and on addresses; a debug build panics where a release build wraps; called by `RustRuntime` |
| `Layout` | `N/data_layout/src` | a type is its size, alignment and niche; how a compiler lays out fields is external, the declarations and the claims on them are the source's |
| `Drops` | `N/obrm/.../destructors.rs`, `N/ownership/drop_check`, `N/ownership/lifetime/src/lib.rs`, `P/ffi.rs`, `P/onstack_dynamic_dispatch.rs` | each function is a list of instructions (scopes, values, moves, reads); the machine that runs them is the language's drop rules |
| `Conversions` | `P/`, `N/type_conversions/src/main.rs`, `binary-heap`, `write-cpu-adaptation-code`, `little-big-endian.rs` | pure functions, each with a definition it is compared with |

`ThreadPrograms` (with `ThreadProgramsProofs`), `RustRuntime` (with
`RustRuntimeProofs`) and `MCValues` put small programs side by side: the
variable `prog` says which of them was started, the variables of the others
stay empty, and each property speaks of one of them. `MCShell` and
`MCValues` choose inputs for TLC, as definitions called `MC...` do in other
modules; where a model needs no more than names for its threads, its cfg gives
them. Definitions called `Bug_*` are plausible mistakes in the definition that
follows them; they are not part of any specification and are kept to show that
the properties notice them.

## Runs

| Run | Module, cfg | Bounds | Shows |
|---|---|---|---|
| `pc_cv` | `PcCv` | 3 producers, 2 consumers, n = 2, 2 spurious wakeups | the inductive invariant, no lost wakeup, never all asleep, implements `Parens` with its liveness |
| `pc_cv_bad` | `PcCvBad` | the program's 1 producer and 2 consumers | **violation**: `)` from an empty buffer |
| `pc_sem` | `PcSem` | 4 and 3, n = 3 | balanced text, implements `Parens` with its liveness |
| `pc_ring` | `PcRing` | 3 cells, 3 producers, 2 consumers, 1 spurious wakeup | implements `BoundedFifo` with its liveness |
| `philosopher` | `Philosopher` | the program's 3 philosophers | **violation**: neighbours hold the same fork |
| `philosopher_bad` | `PhilosopherBad` | 5 philosophers | forks exclusive, exactly one shape of deadlock, progress short of it |
| `sum_scalability` | `SumScalability` | 3 slots, N = 7, arguments -8, -2 .. 4 | no lost addition, the assertion, how each argument ends |
| `threads` | `ThreadPrograms` | `SumAtomic`: the program's 4 threads, N = 2; `SumRace`: N = 4; `RustSpinLock`: 6 rounds; `PcRetry`: 2 and 2, n = 8; `SemPy`: 4 threads, 1 token; `LockOrder`: the program; `Mandelbrot`: 5 columns, 4 slots, arguments -1 .. 4 and 6 | no read of a freed node and sum = 5N at exit; a printed sum between 2 and 2N; an exact count in order, anything from 2 on otherwise; balanced text that stops only if threads retry for ever; exclusion and order of the queue; deadlock in the crossing or normal end, nothing else; no image is saved before every worker is through, and the ways in which `mandelbrot.c` can end or go on for ever; the others end |
| `rust_runtime` | `RustRuntime` | 4 slots as in the program, six lists of closures from none to one too many, the program's own (10 and 15 rounds) among them; 5 requests; 3 streams with 2 events to a wait; 3 readers; all pairs of numbers below `U32` = 24, aliased or not, debug and release; 32 base addresses and 3 stack sizes | every slot that can be picked can be switched to, the end follows from the number of tasks; one event per interest, `example.rs` ends, registrations are delivered; the scoped threads print what the comments say; aliasing and stacks |
| `green_guard` | `GreenThreads`, `GreenGuard.cfg` | `main` as it is: 4 slots, closures of 10 and 15 rounds | **violation**: a closure finishes and `guard` is not called |
| `shell` | `MCShell`, `Shell.cfg` | up to 2 of 11 lines with at most 6 tokens together, 1 failing system call, 8 processes, pipes that hold 1 write | each program has the descriptors its line says and no others, the prompt means that the foreground is done, the processes never all wait for each other, every command ends |
| `values` | `MCValues` | parser: all lines of up to 6 tokens, at most 3 arguments, memory for 2 or 3 commands; 15 drop programs; 3 targets; words of up to 5 letters, strings of up to 3 bytes, vectors of up to 4 numbers | the parser accepts what the grammar derives within the limits and builds its only tree, and every word is terminated; everything is freed once and not used later, documented layouts, results of the conversions |

The bounds. A wakeup through one condition variable for two sides can be
wasted only if both sides can sleep, which takes more than 2n threads: five
threads for n = 2 (and for the two usable cells of the ring) are past that
point, and with `cond_signal` in the place of the broadcast the runs fail.
More threads add more of the same states; the theorems cover them for
`pc-cv.c`, `pc-sem.c`, `pc.c` and `pc.cpp`. N = 7 is not divisible by the
thread counts, the arguments cover both sides of 0 and of the pool size, and
-8 is the first argument for which C's division gives n = 0. The lines of
`MCShell` have every kind of command, a pipeline in a pipeline, a background
job on either side of another command and one line that does not parse; with
two lines a background job of the first one is still there during the second.
Eight processes are more than any two of these lines need at the same time, so
no fork waits for a free number. Six tokens are the fewest for a block with
something after it inside a pipe or list; the limits of the parser are made
small enough to be reached with six tokens. `U32` needs to be larger than
every constant in `compute_v1`, and 2 * 12 reaches 24; the theorems are for
every width, address and stack size. The 32 base addresses are two of each
remainder by 16. Two events to a wait (1024 in the code) with three streams is
the smallest setting in which a wait leaves events behind. Five columns are
not divisible by 2, 3 or 4 workers; the argument 4 fills the pool before the
display is created, and 6 exceeds both the pool and the columns, so that it
divides by zero or aborts.

Three runs check one property that the source claims and the code does not keep:

* `pc-cv-bad.c` breaks the assertion of `pc-check.py`. In the trace one
  consumer sleeps, the producer's signal wakes it, and before it has the mutex
  again the other consumer, which never slept, takes the item; the first goes
  on past the `if` and prints `)` from an empty buffer. (The program's own
  comment blames a consumer that wakes a consumer; this takes less.)
* `philosopher.c` line 23 marks forks available when they are taken, so its
  condition wait is never reached.
* Green threads: `guard` "will be called when the task we provide finishes"
  (`main.rs:146`), but `spawn` leaves a null word between `f` and `guard`
  (line 136 is commented out) and the return pops that word (`green_guard`).
  So `run` does not come to the exit of line 91 either: the process exits
  normally only if nothing was spawned, and a slot is never given back
  (`GuardNeverRuns`, `NoSlotIsFreed`, `EndsByCount`).

`DeadlocksOrExits` has as its second case what contradicts a printed line: the
Rust deadlock demo comes to "This is not printed" (`main.rs:49`) when one
thread is through before the other starts.

Three more claims do not hold where the code is plain to read. No module covers
them, so that no property passes against them:

* `ffi.rs:134` says that `report_error` "contains a dangling pointer", but the
  temporary C string lives to the end of the statement that uses it.
* `MyBinaryHeap::new` (`lib.rs:12`) is documented as empty and has length 1;
  `sift_up` is a stub, so it is no max-heap either.
* `binding.rs:297` gives 16 bytes for `node8`; that is right for 4-byte
  pointers, and it is 24 with the 64 bits of the bindings' own `__WORDSIZE`.

What else the models bring out, without contradicting a claim:

* `main` of `sum-atomic.c` prints `sum` before any thread is joined and the
  process ends with 5N in it, because `join(Tsum)` stores `Tsum` as an exit
  function.
* `sum-scalability-*.c` with a negative argument fails its final assertion (the
  product `n * nthread` is positive and no thread was made).
* `un_lock` of `spin_lock.rs` is a Relaxed store, which orders none of the
  writes before it. A build that uses this freedom has no lock at all: the
  counter can end at 2 (`PrintedCounter`).
* In the shell, of several redirections of one descriptor the first in the line
  counts (`Unfold`), because the parser makes it the innermost node.
* `mandelbrot.c` leaves the last W mod NT columns undrawn, shows its picture for
  ever when two workers add to `done` at the same time (or NT is negative), and
  needs a free slot of the pool for the display besides its NT workers
  (`AtRest`).
* `bonus.rs` sets `rsp` from the vector's own address, so it is a multiple of
  16 only if the allocation is; `assembly.rs` and `main.rs` align it. The two
  loops that dump a stack start at its aligned end and go up.
* `example.rs:68` expects the answers as "5, 4, 3, 2, 1"; nothing in the
  program makes that so, and `ExampleEnds` does not need it.
* `SuperBox` frees twice, or uses freed memory if the content has a
  destructor, as its comment says (`BlowsUp`).
* `mylib_log_ugly` equals `mylib_log` exactly when the byte it never wrote
  happens to be NUL, and panics otherwise.
* `reference_aliasing`, `data_cache_hit` and `instruction_cache_hit` time the
  same function twice: the second call was meant to be the other one.

Runs without a deadlock check are those of programs that end
(`sum_scalability`, `threads`, `rust_runtime`) or may deadlock by design
(`philosopher_bad`, `LockOrder` in `threads`), and that of the shell, which
ends with its input; their liveness properties say in which states they may
stop. `values` has an explicit last step and checks for deadlock: a drop
program that could not go on would be one.

## Fairness

Weak fairness for every thread or process and nothing more: the kernel
eventually runs a thread that stays runnable. Pthread mutexes, semaphores and
the spin locks do not say who gets them next, so no run assumes strong
fairness. Progress of the producer-consumer programs therefore means that the
text grows, not that each thread prints. For `pc.c` weak fairness is not
enough even for that: `PrintsOrSpins` says what is left. Spurious wakeups are
bounded (`MaxSpurious`), because an endless series of them could take the
mutex from everybody else; the safety theorems hold for every bound. In the
shell the user need not type, and no program has to stop early (`StopEarly`
has no fairness), so a pipeline has to end by the end of its input. In
`rust_runtime` the processor goes on with a green thread, every server of
`example.rs` answers in the end (its requests ask for delays of at most four
seconds), and the thread that selects calls `select` again; the streams of
minimio may stay silent and nobody has to register.

## Proofs

TLAPS checks the following for every value of the constants.

* `PcCvProofs`: `IInv` is inductive, hence `TypeOK`, `NoLostWakeup`,
  `SomebodyAwake`, and every step is a `Parens` step or prints nothing.
  `NoLostWakeup` alone is not inductive: that only the holder of the mutex
  changes `count` (`MutexHeld`) has to be known, and the bounds on `depth`
  need that the tested condition still holds at `printf` (`AssertHolds`) and
  that text and counter agree (`TextMatchesCount`). `SomebodyAwake` follows
  since two sleeping sides would need `count = n` and `count = 0`.
* `PcSemProofs`: `SlotsConserved` and `TextIsFill` are inductive; the number
  of threads at each statement is a cardinality that a step changes by one
  (`Moved`, `NotMoved`). `WellNested` follows because the slots the text
  counts are some of the n.
* `PhilosopherBadProofs`: `ForksConserved` is inductive. If nobody can move,
  a philosopher that waits for its left fork would have to share it with one
  that holds it as a left fork, and left forks are all different
  (`Neighbours`, from the index arithmetic of the code in `Seats`).
* `SumScalabilityProofs`: `sum` equals the number of pairs <<thread, round>>
  that are done (`NoUpdateLost`); it needs mutual exclusion, that the value
  read is current, and that the pool's status field is right. When `join` has
  passed all slots the pairs are the product of threads and rounds, so the
  assertion holds. How the program may end (`EndsNoOtherWay`) needs besides
  that without threads `sum` stays 0, and that n * nthread is then 0 only if
  the division gave 0 (`NegativeShare`).
* `PcRingProofs`: `IInv` is inductive (mutual exclusion, the tested condition
  at the use of a cell and at the move of an index, the value just written in
  the cell at `rear`), and every step is a step of `BoundedFifo` or leaves
  queue and output alone. Only four steps touch the mapping: the producer's
  move appends the cell it wrote, the consumer's print takes the first cell,
  the consumer's move lets go of the cell that is no longer counted, and the
  producer's write goes to a cell outside the queue. The lemmas say how the
  number of full cells changes when an index goes round modulo N. With one
  condition variable for both sides, `NoLostWakeup` is inductive on top of
  `IInv`: who moves an index holds the mutex until its `notify_all`.
  `SomebodyAwake` follows, as two sleeping sides would need a ring that is
  full and empty.
* `ThreadProgramsProofs`: the started program keeps its own invariant, which
  stands at the end of its module under "Why".
  * `SumAtomic`: the list holds the numbers from its length down to 1, and
    freed are exactly the later ones, whose threads have ended. `sum` is the
    number of pairs <<thread, round>> that are done.
  * `SumRace`: no value in memory or in a register exceeds the number of
    stores made. For the lower bound: after the first store nobody reads 0, so
    every thread's second store writes at least 2 (`AtLeast`).
  * `RustSpinLock`: in order the counter is the number of rounds (`InOrder`),
    which needs exclusion. Otherwise the bounds are those of `SumRace` and need
    no lock: no value exceeds the number of writes (`AtMost`), and after the
    first write nobody reads 0, so that every thread's second write is at
    least 2 (`AtLeast`).
  * `Mandelbrot`: `done` is at most the number of workers that are through
    (`NeverAhead`), so `done = NT` at the display means that all are; that the
    columns of NT workers are disjoint and cover 0 .. NT * (W / NT) - 1 is
    arithmetic (`Quotient`, `MandelPicture`).
  * `SemPy`: tokens are visible or held, where a thread that V took out of
    the queue holds one before it wakes (`TokensKept`).
  * `PcRetry`: as for `pc-cv.c`, with `count` ahead of the text by the
    parenthesis about to be printed; this gives the steps of `Parens`.
* `RustRuntimeProofs`: `IInv` is inductive for any number of slots and any
  list of closures. That only the current slot is Running (`OneRunning`) needs
  that `t_yield` picks a Ready slot; that a Ready slot can be resumed
  (`Resumable`) needs that a slot is Available exactly until it is spawned
  into (`NeverReaped`); that `guard` never runs needs the null word of every
  stack (`NoReturnAddress`). `OneEventEach`: a stream of `example.rs` is
  armed, in the event vector or handled, one of the three (`Once`), and the
  counter is the number of the first two (`Counted`); a stream of minimio that
  was reported is still registered and not armed (`ArmedOnce`), whatever an
  error left in `results`. `RawPointers`: case analysis on the tests of the
  three functions for any addresses, memory and integer width; for the stacks,
  rounding down to a multiple of 16 (`AlignedDown`) loses at most 15 bytes;
  `PointersHold` says this of the results of the runs. `ScopedThreads`:
  `PrintedAsCommented` needs that the owner prints or changes the string only
  while no reader or writer of a scope is left, and that each reader that is
  through has printed one line (`Script`, `Printed`, `Greeting`).
* `ShellProofs`: `IInv` is inductive for every parser, every set of lines and
  every command tree. `InPlace` says for each system call of `runcmd` which
  descriptors are open and what they are for: `dup` in the left child lands on
  1 because the other descriptors are open, with the pipe's ends at 3 and 4.
  `FewChildren` bounds the children by the number of `wait4` calls to come, so
  that the last of them returns only when none is left; a process exits with
  children only if those are in the background. `PromptMeansDone` then needs
  that every foreground process has a chain of foreground parents up to
  process 1. A chain is a recursive notion; `Ancestors` says the same without
  one: no set of foreground processes without process 1 contains the parents
  of all its members. For the set of all of them this contradicts that process
  1 has no children at the prompt.

  `NoDeadlock` is the longest argument. `Blocked` is the negation of what the
  actions need: a parent waits whose children all live, a program writes to a
  full pipe that has a reader, or reads from an empty one that has a writer.
  (A fork is never blocked; that the process table of the model has an end is
  a bound.) Suppose all processes are blocked. By `InPlace` the parents have
  closed their ends of the pipes, so the end a program waits for is in
  descriptor 0 or 1 of a blocked process, and that process works on the other
  side of the PIPE (`Source`, `Sink`; all of `Wiring` is of that kind because
  nothing is in it that does not follow from the line, `WiringIsMeant`). A
  parent that waits has a child on a smaller part of the line (`Nested`), so
  there is a program at the end of the chain (`ProgramBelow`, by least
  element). Now take the first program of the line that reads, if there is
  one: on the left of its pipe are only programs that write, and the last one
  of these (`LastWriter`) waits for a reader outside that left side, hence
  writes to that very pipe (`Inside`), which would be full and empty. If no
  program reads, the last one that writes has nobody to wait for.

The assumptions are the named `ASSUME`s of the modules: disjoint sets of
producers and consumers (finite for `pc-sem.c`), n a natural number, at least
one cell of the ring, at least two philosophers, natural N and pool size, at
least one slot for green threads, at least one thread of `sum-atomic.c`, one
round of `spin_lock.rs` and one column of the picture, any integers as
arguments of `mandelbrot.c`, finitely many threads of `sem.py`, a natural
number of requests of `example.rs`, at least one reader in `send_sync`, an
integer width above the constants of `compute_v1`, natural base addresses,
stacks of at least 48 bytes (the size in `assembly.rs`). For the shell: the
parser gives a panic or a command whose parts are commands with the fields of
their kind (`ParserAssumption`), the process table has room for process 1 and
a pipe for one write; `Wiring`, which says what input and output the parts of
a line should have, is the least relation that contains the line's command
with the terminal and is closed under `Unfold` (`WiringAssumption`); and the
words of a command, from place `From` to place `To` of its line, include those
of its parts, with the left side of a PIPE or LIST before the right one, and
nest as the tree does (`PlacesAssumption`), since the parser consumes the line
from left to right. TLC checks these assumptions for the parser of
`ShellParser` on the lines of `MCShell`. A pipe is named after its node in the
tree: two equal nodes in one line need something that tells them apart, as
their addresses do in the code, and the lines of `MCShell` have none.

Only model-checked: all liveness, and with it the liveness half of the three
refinements (liveness and `ENABLED` are outside what the prover handles; where
a temporal property has a safety part, `GuardNeverRuns`, `EndIsImplied` and
`CommentsAreRight` state it); the shell's parser (recursive operators, which
no module with a theorem may reach) and `Conversions` (it uses `Bitwise` and
sorting, which the provers cannot reason about); `Drops` and the documented
layouts, whose programs are finitely many, so that TLC's run is exhaustive;
`LockOrder`, which has no parameters; and what contradicts the
source's claims.

## Not modelled

Time (`sleep`), messages and their wording, failing system calls whose result
the programs ignore (`pthread_create`, `malloc`), `int` overflow of counters
that the properties bound, arguments n < 0 of the producer-consumer programs
(n = 0 makes every thread of `pc-cv.c` wait for ever). Of the shell: how
characters become tokens, lines longer than the 99 characters of its buffer
(they arrive as several lines), the contents of files and the missing O_APPEND
of `>>`. Of minimio: `close_fd` and `eventfd`, which nothing calls, and a
vector smaller than the 1024 events that `select` allows, since no caller in
the repository makes one. Of the layout notes: addresses that are only
printed, the pthread types of `binding.rs`, which nothing uses, and the aliases
and integer limits that bindgen wrote at its head. Of the destructor notes:
`R/RustReference/.../destructors.rs`, which is about the order in which the
compiler drops temporaries; that order is the compiler's and not the program's
(rustc 1.68 changed it for chains of lazy boolean operators), and the
repository pins no toolchain. `use_format` only concatenates, and
`get_default` is a lookup and a `todo!()`. The write to a string literal in
`concatenating_strings_with_format.rs` is a segmentation fault by design. The
type-system notes listed in `PROJECT.json` change no state at run time.

## Plan

Done so far: the thread programs, the shell, the green threads, minimio and
the Rust notes with run-time behaviour. Left, in this order:

1. `T/pc-cv.py` and `C/model-checker.py`: the search visits every state
   reachable in the checked program, and what merging by `abs(hash)` can lose.
2. `fork-printf.c`, `printf-race.c`, the boot loader and the signal demos, as
   further programs of `ThreadPrograms`.
3. The epoll/select/poll examples over `Epoll`, and the TCP programs over a
   stream that splits messages.
