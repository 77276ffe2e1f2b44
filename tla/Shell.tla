-------------------------------- MODULE Shell --------------------------------
(***************************************************************************)
(* unix-shell/sh-xv6.c: the read loop (_start, process 1) and runcmd in    *)
(* the processes it forks.  One step is one system call.  The kernel's     *)
(* side of the calls, and the programs that are executed, are modelled as  *)
(* far as the shell depends on them.  pc of a process:                     *)
(*   "prompt", "fork", "wait"  _start at getcmd, fork, wait4               *)
(*   "parse", "runcmd" a child before parsecmd, at the switch of runcmd    *)
(*   "open"            REDIR after close        "listwait" LIST at wait4   *)
(*   "fork1", "fork2"  PIPE before its forks                               *)
(*   "l1" .. "l4", "r1" .. "r4", "p1", "p2"  the close and dup calls of    *)
(*                     the left child, the right child and the parent      *)
(*   "wait1", "wait2"  PIPE at its wait4 calls                             *)
(*   "out", "in"       an executed program that writes, that reads         *)
(*   "exit"            before exit              "zombie" not reaped yet    *)
(*   "none"            no such process                                     *)
(***************************************************************************)
EXTENDS Integers, SequencesExt

CONSTANTS Lines,                \* lines the user may type, as tokens
          CdLines,              \* the ones that begin with "cd "
          Commands,             \* the trees of all commands in the lines
          parse(_),             \* parsecmd, see ShellParser
          Wiring(_, _),         \* what a job with a line means, see WiringAssumption
          MaxLines, MaxTokens,  \* how many of them are typed, of what total length
          MaxFaults,            \* system calls that fail
          MaxPid,               \* the process table is 1 .. MaxPid
          CAPACITY,             \* writes that fit into a pipe
          From(_), To(_)     \* the places of a command's words in its line

\* What the parser builds: the tree of a line and all its parts are commands.
ASSUME ParserAssumption ==
  /\ \A line \in Lines : parse(line) \in Commands \/ parse(line).type = "panic"
  /\ \A c \in Commands :
       /\ c.type \in {"EXEC", "REDIR", "PIPE", "LIST", "BACK"}
       /\ c.type = "REDIR" => c.fd \in {0, 1} /\ c.cmd \in Commands
       /\ c.type = "BACK" => c.cmd \in Commands
       /\ c.type \in {"PIPE", "LIST"} => c.left \in Commands /\ c.right \in Commands
ASSUME TableAssumption == MaxPid \in Nat \ {0} /\ MaxLines \in Nat /\ CAPACITY \in Nat \ {0}

Pids == 1 .. MaxPid
Fds == 0 .. 4
init == 0                       \* the process that adopts orphans
closed == <<"closed">>
tty == <<"tty">>

Pipes == (1 .. MaxLines) \X Commands   \* see Pipe

Parsed == [line \in Lines |-> parse(line)]

\* Which input and output the parts of a command should have if it has `in'
\* and `out'.  Of several redirections of one descriptor the first one in the
\* line counts: it is the innermost node, and runcmd comes to it last.
Unfold(job, cmd, in, out) ==
  CASE cmd.type = "REDIR" -> {<<cmd.cmd, IF cmd.fd = 0 THEN <<"file", cmd.file>> ELSE in,
                                         IF cmd.fd = 0 THEN out ELSE <<"file", cmd.file>>>>}
    [] cmd.type = "LIST" -> {<<cmd.left, in, out>>, <<cmd.right, in, out>>}
    [] cmd.type = "PIPE" -> {<<cmd.left, in, <<"w", <<job, cmd>>>>>>,
                             <<cmd.right, <<"r", <<job, cmd>>>>, out>>}
    [] cmd.type = "BACK" -> {<<cmd.cmd, in, out>>}
    [] cmd.type = "EXEC" -> {}

\* The command of a line has the terminal; the rest follows from that, and
\* nothing else is meant.
Follows(job, line, W) == /\ parse(line) \in Commands => <<parse(line), tty, tty>> \in W
                         /\ \A x \in W : Unfold(job, x[1], x[2], x[3]) \subseteq W
ASSUME WiringAssumption ==
  \A job \in 1 .. MaxLines, line \in Lines :
    /\ Follows(job, line, Wiring(job, line))
    /\ \A W \in SUBSET Wiring(job, line) : Follows(job, line, W) => W = Wiring(job, line)

\* The words of a command are a stretch of its line, which holds those of its
\* parts, the left ones first; stretches nest as the commands do.
PartsOf(cmd) == CASE cmd.type \in {"PIPE", "LIST"} -> {cmd.left, cmd.right}
                  [] cmd.type \in {"REDIR", "BACK"} -> {cmd.cmd}
                  [] cmd.type = "EXEC" -> {}
Within(part, cmd) == From(cmd) <= From(part) /\ To(part) <= To(cmd)
ASSUME PlacesAssumption ==
  /\ \A c \in Commands :
       /\ From(c) \in Nat /\ To(c) \in Nat /\ From(c) <= To(c)
       /\ \A part \in PartsOf(c) : Within(part, c)
       /\ c.type \in {"PIPE", "LIST"} => To(c.left) < From(c.right)
  /\ \A job \in 1 .. MaxLines, line \in Lines : \A x, y \in Wiring(job, line) :
       y[1].type = "PIPE" =>
         \A part \in PartsOf(x[1]) :
           Within(part, y[1].left) => x[1] = y[1] \/ Within(x[1], y[1].left)

VARIABLES proc,                 \* the process table
          pipes,                \* writes in each pipe; see Pipe
          script,               \* the lines typed so far
          faults,               \* the calls that have failed
          cwd                   \* the directory of process 1

vars == <<proc, pipes, script, faults, cwd>>

None == [pc |-> "none"]

\* job: the number of the line; p: the array p[2]; back: forked by BACK.
FirstProcess == [pc |-> "prompt", cmd |-> <<>>, job |-> 0, parent |-> init,
                 back |-> FALSE, p |-> <<>>,
                 fd |-> [d \in Fds |-> IF d <= 2 THEN tty ELSE closed]]

Init == /\ proc = [q \in Pids |-> IF q = 1 THEN FirstProcess ELSE None]
        /\ pipes = [x \in Pipes |-> 0]
        /\ script = <<>>
        /\ faults = 0
        /\ cwd = "home"

Alive(q) == proc[q].pc \notin {"none", "zombie"}
Children(q) == {c \in Pids : proc[c].pc # "none" /\ proc[c].parent = q}
At(q, label) == proc[q].pc = label

-----------------------------------------------------------------------------
(* System calls.                                                           *)

Goto(rec, label) == [rec EXCEPT !.pc = label]
close(rec, d) == [rec EXCEPT !.fd[d] = closed]

\* open, dup and pipe take the lowest free descriptors.
FreeFd(rec) == Min({d \in Fds : rec.fd[d] = closed})
Install(rec, handle) == [rec EXCEPT !.fd[FreeFd(rec)] = handle]
dup(rec, d) == Install(rec, rec.fd[d])

Move(q, rec) == /\ proc' = [proc EXCEPT ![q] = rec]
                /\ UNCHANGED <<pipes, script, faults, cwd>>

\* A call of q that fails, after which q goes to `label'.
Fails(q, label) == /\ faults < MaxFaults /\ faults' = faults + 1
                   /\ proc' = [proc EXCEPT ![q] = Goto(@, label)]
                   /\ UNCHANGED <<pipes, script, cwd>>

\* fork: the child has a copy of everything.  The code compares the result
\* with 0 only, so the parent goes on alike if there is no child.
fork(q, label, child) ==
  \/ /\ \E c \in Pids :
          /\ proc[c] = None /\ \A d \in Pids : proc[d] = None => c <= d
          /\ proc' = [proc EXCEPT ![q] = Goto(@, label), ![c] = [child EXCEPT !.parent = q]]
     /\ UNCHANGED <<pipes, script, faults, cwd>>
  \/ Fails(q, label)

\* wait4(-1) fails at once if there is no child, else it reaps a dead one.
wait4(q, next) ==
  /\ \/ Children(q) = {} /\ proc' = [proc EXCEPT ![q] = next]
     \/ \E c \in Children(q) : At(c, "zombie") /\ proc' = [proc EXCEPT ![q] = next, ![c] = None]
  /\ UNCHANGED <<pipes, script, faults, cwd>>

\* exit: init takes over the children and reaps the dead ones.
exit(q) ==
  /\ proc' = [c \in Pids |->
                IF c = q
                  THEN IF proc[q].parent = init THEN None
                       ELSE [pc |-> "zombie", parent |-> proc[q].parent]
                ELSE IF c \in Children(q)
                  THEN IF At(c, "zombie") THEN None ELSE [proc[c] EXCEPT !.parent = init]
                ELSE proc[c]]
  /\ UNCHANGED <<pipes, script, faults, cwd>>

-----------------------------------------------------------------------------
(* _start.                                                                 *)

\* The user types a line, which fits into buf[100].  A line that starts with
\* "cd " is executed here; chdir may fail.
Getcmd(line) ==
  /\ At(1, "prompt")
  /\ Len(script) < MaxLines /\ Len(FlattenSeq(Append(script, line))) <= MaxTokens
  /\ script' = Append(script, line)
  /\ IF line \in CdLines
       THEN cwd' \in {cwd, "elsewhere"} /\ UNCHANGED proc
       ELSE proc' = [proc EXCEPT ![1] = Goto(@, "fork")] /\ UNCHANGED cwd
  /\ UNCHANGED <<pipes, faults>>

\* The end of the input.
EndOfInput == At(1, "prompt") /\ Move(1, Goto(proc[1], "exit"))

StartJob == At(1, "fork") /\ fork(1, "wait", [Goto(proc[1], "parse") EXCEPT !.job = Len(script)])

WaitJob == At(1, "wait") /\ wait4(1, Goto(proc[1], "prompt"))

-----------------------------------------------------------------------------
(* runcmd.                                                                 *)

Runcmd(rec, cmd) == Goto([rec EXCEPT !.cmd = cmd], "runcmd")
RunsA(q, type) == At(q, "runcmd") /\ proc[q].cmd.type = type

\* The pipe a PIPE command of a job makes.  A node of the tree runs once in the
\* job; nodes count as different as in the code if Commands keeps them apart,
\* by their addresses say, or if no line has the same PIPE twice.
Pipe(rec) == <<rec.job, rec.cmd>>

\* runcmd(parsecmd(buf)); a failed assertion exits.
Parse(q) == /\ At(q, "parse")
            /\ LET cmd == Parsed[script[proc[q].job]]
               IN  Move(q, IF cmd.type = "panic" THEN Goto(proc[q], "exit")
                                                 ELSE Runcmd(proc[q], cmd))

Execve(q) == /\ RunsA(q, "EXEC")
             /\ \/ proc[q].cmd.argv = <<>> /\ Move(q, Goto(proc[q], "exit"))
                \/ proc[q].cmd.argv # <<>> /\ Move(q, Goto(proc[q], "out"))
                \/ proc[q].cmd.argv # <<>> /\ Fails(q, "exit")

RedirClose(q) == /\ RunsA(q, "REDIR")
                 /\ Move(q, Goto(close(proc[q], proc[q].cmd.fd), "open"))

RedirOpen(q) == /\ At(q, "open")
                /\ LET cmd == proc[q].cmd
                   IN  \/ Move(q, Runcmd(Install(proc[q], <<"file", cmd.file>>), cmd.cmd))
                       \/ Fails(q, "exit")

ListFork(q) == /\ RunsA(q, "LIST")
               /\ fork(q, "listwait", Runcmd(proc[q], proc[q].cmd.left))

ListWait(q) == At(q, "listwait") /\ wait4(q, Runcmd(proc[q], proc[q].cmd.right))

PipeCreate(q) ==
  /\ RunsA(q, "PIPE")
  /\ \/ LET rec == proc[q]
            half == Install(rec, <<"r", Pipe(rec)>>)
            full == Install(half, <<"w", Pipe(rec)>>)
        IN  /\ proc' = [proc EXCEPT ![q] = [Goto(full, "fork1")
                                              EXCEPT !.p = <<FreeFd(rec), FreeFd(half)>>]]
            /\ pipes' = [pipes EXCEPT ![Pipe(rec)] = 0]
            /\ UNCHANGED <<script, faults, cwd>>
     \/ Fails(q, "exit")

PipeFork(q) == \/ At(q, "fork1") /\ fork(q, "fork2", Goto(proc[q], "l1"))
               \/ At(q, "fork2") /\ fork(q, "p1", Goto(proc[q], "r1"))

\* Bug: the left child keeps the reading end.
Bug_PipeLeft(q) ==
  LET rec == proc[q]
  IN  \/ At(q, "l1") /\ Move(q, Goto(close(rec, 1), "l2"))
      \/ At(q, "l2") /\ Move(q, Goto(dup(rec, rec.p[2]), "l3"))
      \/ At(q, "l3") /\ Move(q, Runcmd(close(rec, rec.p[2]), rec.cmd.left))

PipeLeft(q) ==
  LET rec == proc[q]
  IN  \/ At(q, "l1") /\ Move(q, Goto(close(rec, 1), "l2"))
      \/ At(q, "l2") /\ Move(q, Goto(dup(rec, rec.p[2]), "l3"))
      \/ At(q, "l3") /\ Move(q, Goto(close(rec, rec.p[1]), "l4"))
      \/ At(q, "l4") /\ Move(q, Runcmd(close(rec, rec.p[2]), rec.cmd.left))

PipeRight(q) ==
  LET rec == proc[q]
  IN  \/ At(q, "r1") /\ Move(q, Goto(close(rec, 0), "r2"))
      \/ At(q, "r2") /\ Move(q, Goto(dup(rec, rec.p[1]), "r3"))
      \/ At(q, "r3") /\ Move(q, Goto(close(rec, rec.p[1]), "r4"))
      \/ At(q, "r4") /\ Move(q, Runcmd(close(rec, rec.p[2]), rec.cmd.right))

\* Bug: the parent keeps the writing end.
Bug_PipeParent(q) ==
  LET rec == proc[q]
  IN  \/ At(q, "p1") /\ Move(q, Goto(close(rec, rec.p[1]), "wait1"))
      \/ At(q, "wait1") /\ wait4(q, Goto(rec, "wait2"))
      \/ At(q, "wait2") /\ wait4(q, Goto(rec, "exit"))

\* Bug: the parent waits for one child.
Bug_PipeWait(q) ==
  LET rec == proc[q]
  IN  \/ At(q, "p1") /\ Move(q, Goto(close(rec, rec.p[1]), "p2"))
      \/ At(q, "p2") /\ Move(q, Goto(close(rec, rec.p[2]), "wait1"))
      \/ At(q, "wait1") /\ wait4(q, Goto(rec, "exit"))

PipeParent(q) ==
  LET rec == proc[q]
  IN  \/ At(q, "p1") /\ Move(q, Goto(close(rec, rec.p[1]), "p2"))
      \/ At(q, "p2") /\ Move(q, Goto(close(rec, rec.p[2]), "wait1"))
      \/ At(q, "wait1") /\ wait4(q, Goto(rec, "wait2"))
      \/ At(q, "wait2") /\ wait4(q, Goto(rec, "exit"))

Back(q) == /\ RunsA(q, "BACK")
           /\ fork(q, "exit", [Runcmd(proc[q], proc[q].cmd.cmd) EXCEPT !.back = TRUE])

Exit(q) == At(q, "exit") /\ exit(q)

-----------------------------------------------------------------------------
(* Executed programs: one writes a first piece and then copies its input   *)
(* to its output until the end, or stops earlier.  Terminals and files are *)
(* always ready; the input from them is at its end.                        *)

HasEnd(pipe, end) == \E c \in Pids : Alive(c) /\ \E d \in Fds : proc[c].fd[d] = <<end, pipe>>

SetPipe(q, label, pipe, k) == /\ pipes' = [pipes EXCEPT ![pipe] = k]
                              /\ proc' = [proc EXCEPT ![q] = Goto(@, label)]
                              /\ UNCHANGED <<script, faults, cwd>>

\* SIGPIPE kills a writer without readers; a full pipe makes it wait.
Write(q) == /\ At(q, "out")
            /\ LET h == proc[q].fd[1]
               IN  IF h[1] # "w" THEN Move(q, Goto(proc[q], "in"))
                   ELSE IF ~HasEnd(h[2], "r") THEN exit(q)
                   ELSE pipes[h[2]] < CAPACITY /\ SetPipe(q, "in", h[2], pipes[h[2]] + 1)

\* An empty pipe is at its end only if no process can write to it.
Read(q) == /\ At(q, "in")
           /\ LET h == proc[q].fd[0]
              IN  IF h[1] # "r" THEN Move(q, Goto(proc[q], "exit"))
                  ELSE IF pipes[h[2]] > 0 THEN SetPipe(q, "out", h[2], pipes[h[2]] - 1)
                  ELSE ~HasEnd(h[2], "w") /\ Move(q, Goto(proc[q], "exit"))

StopEarly(q) == proc[q].pc \in {"out", "in"} /\ Move(q, Goto(proc[q], "exit"))

-----------------------------------------------------------------------------
Step(q) == \/ Parse(q) \/ Execve(q) \/ RedirClose(q) \/ RedirOpen(q)
           \/ ListFork(q) \/ ListWait(q)
           \/ PipeCreate(q) \/ PipeFork(q) \/ PipeLeft(q) \/ PipeRight(q) \/ PipeParent(q)
           \/ Back(q) \/ Exit(q)
           \/ Write(q) \/ Read(q)

Next == \/ \E line \in Lines : Getcmd(line)
        \/ EndOfInput \/ StartJob \/ WaitJob
        \/ \E q \in Pids : Step(q) \/ StopEarly(q)

\* Every process that can run is run; the user may stop typing, and no
\* program has to stop early.
Spec == /\ Init /\ [][Next]_vars
        /\ WF_vars(StartJob \/ WaitJob)
        /\ \A q \in Pids : WF_vars(Step(q))

-----------------------------------------------------------------------------
\* Every executed program reads from and writes to what its line says, and
\* inherits no other descriptor: no pipe end leaks through the forks, however
\* the commands are nested and whichever calls fail.
Wired == \A q \in Pids :
  proc[q].pc \in {"out", "in"} =>
    /\ \A d \in Fds : proc[q].fd[d] = closed <=> d > 2
    /\ <<proc[q].cmd, proc[q].fd[0], proc[q].fd[1]>> \in
         Wiring(proc[q].job, script[proc[q].job])

\* The prompt comes back only when the command is done: wait4(-1) reaps the
\* child it is meant for, so whatever still runs was put into the background,
\* and no dead child is left behind.
PromptMeansDone ==
  At(1, "prompt") => Children(1) = {} /\ \A q \in Pids \ {1} : Alive(q) => proc[q].back

\* Every command ends, also if calls fail and programs stop early: each reader
\* sees the end of its input, and all processes are reaped in the end.
CommandsEnd == <>[](proc[1].pc \in {"prompt", "none"} /\ \A q \in Pids \ {1} : At(q, "none"))

\* A process that cannot go on before another one does something.
Blocked(q) ==
  \/ /\ proc[q].pc \in {"wait", "listwait", "wait1", "wait2"}
     /\ Children(q) # {} /\ \A c \in Children(q) : ~At(c, "zombie")
  \/ LET h == proc[q].fd[1]
     IN  At(q, "out") /\ h[1] = "w" /\ HasEnd(h[2], "r") /\ pipes[h[2]] >= CAPACITY
  \/ LET h == proc[q].fd[0]
     IN  At(q, "in") /\ h[1] = "r" /\ HasEnd(h[2], "w") /\ pipes[h[2]] = 0

\* The processes never all wait for each other: while a command runs, one of
\* them can go on.  A parent waits for its child, a writer for a reader of its pipe,
\* a reader for a writer; that no circle comes of it is up to the order of
\* the forks and to the ends that parents and children close.
Running(q) == Alive(q) /\ ~At(q, "prompt")
NoDeadlock == (\E q \in Pids : Running(q)) => \E q \in Pids : Running(q) /\ ~Blocked(q)

-----------------------------------------------------------------------------
\* Why Wired, PromptMeansDone and NoDeadlock hold.

\* A process that runs has all the fields, and nobody is its own parent.
IsProcess(rec) == rec = [pc |-> rec.pc, cmd |-> rec.cmd, job |-> rec.job, parent |-> rec.parent,
                         back |-> rec.back, p |-> rec.p, fd |-> [d \in Fds |-> rec.fd[d]]]
Table == /\ proc = [q \in Pids |-> proc[q]]
         /\ \A q \in Pids : \/ proc[q] = None
                            \/ /\ proc[q].parent \in (Pids \ {q}) \cup {init}
                               /\ \/ proc[q] = [pc |-> "zombie", parent |-> proc[q].parent]
                                  \/ /\ IsProcess(proc[q]) /\ proc[q].back \in BOOLEAN
                                     /\ proc[q].pc \notin {"none", "zombie"}
TypeOK == Table /\ script \in Seq(Lines) /\ Len(script) <= MaxLines
Contents == pipes \in [Pipes -> Nat]

\* Nobody but _start has its program counters, and nobody has more children
\* than it will wait for, unless they are in the background.
One == {"wait", "fork2", "listwait", "wait2"}
Two == {"p1", "p2", "wait1"}
FewChildren == \A q \in Pids :
  /\ proc[q].pc \in {"prompt", "fork", "wait"} => q = 1
  /\ proc[q].pc \notin One \cup Two \cup {"exit"} => Children(q) = {}
  /\ proc[q].pc \in One => \A b, c \in Children(q) : b = c
  /\ proc[q].pc \in Two => \A b, c, d \in Children(q) : b = c \/ b = d \/ c = d
  /\ proc[q].pc = "exit" => \A c \in Children(q) : Alive(c) => proc[c].back

\* A process in the foreground has a parent, which is in the foreground too;
\* and parents are no circle, so that there is a way to process 1.
InFront(q) == Alive(q) /\ ~proc[q].back
Ancestors ==
  /\ \A q \in Pids \ {1} : InFront(q) => proc[q].parent \in Pids
  /\ \A q, r \in Pids : Alive(q) /\ Alive(r) /\ proc[q].parent = r /\ proc[r].back => proc[q].back
  /\ \A S \in SUBSET (Pids \ {1}) :
       S # {} /\ (\A q \in S : InFront(q)) => \E q \in S : proc[q].parent \notin S

\* The descriptors at each statement, and what they will be for.
Starting == {"prompt", "fork", "wait", "parse"}
Holding == {"fork2", "listwait", "p1", "p2", "wait1", "wait2"}
Piping == {"fork1", "fork2", "l1", "l2", "l3", "l4", "r1", "r2", "r3", "r4"}
Open(rec, S) == \A d \in Fds : rec.fd[d] # closed <=> d \in S
Due(rec, typed) == Wiring(rec.job, typed[rec.job])
Descriptors(rec, typed) ==
  LET c == rec.cmd
      due == Due(rec, typed)
      in == rec.fd[0]
      out == rec.fd[1]
      r == <<"r", Pipe(rec)>>
      w == <<"w", Pipe(rec)>>
      at == rec.pc
  IN  /\ rec.fd[2] = tty
      /\ at \in Starting => Open(rec, 0 .. 2) /\ in = tty /\ out = tty
      /\ at = "fork" => typed # <<>>
      /\ at \notin {"prompt", "fork", "wait", "exit"} => rec.job \in 1 .. Len(typed)
      /\ at \in {"runcmd", "open"} \cup Holding \cup Piping => c \in Commands
      /\ at \in {"runcmd", "out", "in", "fork1"} \cup Holding => <<c, in, out>> \in due
      /\ at \in {"runcmd", "out", "in", "listwait", "wait1", "wait2"} => Open(rec, 0 .. 2)
      /\ at = "open" => /\ c.type = "REDIR" /\ Open(rec, (0 .. 2) \ {c.fd})
                        /\ <<c.cmd, IF c.fd = 0 THEN <<"file", c.file>> ELSE in,
                                    IF c.fd = 0 THEN out ELSE <<"file", c.file>>>> \in due
      /\ at = "listwait" => c.type = "LIST" /\ <<c.right, in, out>> \in due
      /\ at \in Piping \cup {"p1", "p2"} => rec.p = <<3, 4>> /\ c.type = "PIPE"
      /\ at \in {"fork1", "fork2", "l1", "l2"} => rec.fd[4] = w /\ <<c.left, in, w>> \in due
      /\ at \in {"fork1", "fork2", "r1", "r2"} => rec.fd[3] = r /\ <<c.right, r, out>> \in due
      /\ at \in {"l3", "l4"} => <<c.left, in, out>> \in due
      /\ at \in {"r3", "r4"} => <<c.right, in, out>> \in due
      /\ at \in {"fork1", "fork2", "l1", "r1", "l3", "r3", "p1"} => Open(rec, Fds)
      /\ at = "l2" => Open(rec, Fds \ {1})
      /\ at = "r2" => Open(rec, Fds \ {0})
      /\ at \in {"l4", "r4", "p2"} => Open(rec, Fds \ {3})
InPlace == \A q \in Pids : Alive(q) => Descriptors(proc[q], script)

\* A child works on a smaller part of the line than the parent that waits for
\* it, once it has arranged its descriptors.
Halves == {"l1", "l2", "l3", "l4", "r1", "r2", "r3", "r4"}
Span(cmd) == To(cmd) - From(cmd)
Under(child, rec) ==
  /\ child.cmd \in Commands /\ rec.cmd \in Commands /\ child.job = rec.job /\ child.pc \notin Starting
  /\ IF child.pc \in Halves THEN child.cmd = rec.cmd
     ELSE Within(child.cmd, rec.cmd) /\ Span(child.cmd) < Span(rec.cmd)
Nested == \A q, r \in Pids :
  Alive(q) /\ proc[q].parent = r /\ proc[r].pc \in Holding => Under(proc[q], proc[r])

IInv == TypeOK /\ FewChildren /\ Ancestors /\ InPlace /\ Nested
=============================================================================
