----------------------------- MODULE ShellProofs -----------------------------
(***************************************************************************)
(* Proofs about Shell: whatever the commands are and however they nest,    *)
(* every program gets the descriptors its line says, the prompt waits for  *)
(* the foreground, and the processes never all wait for each other.        *)
(***************************************************************************)
EXTENDS Shell, WellFoundedInduction, TLAPS

-----------------------------------------------------------------------------
(* What the calls do to the record of a process.                           *)

\* new is a process with the place of rec in the tree, and the same array p.
Like(rec, new) == /\ IsProcess(new) /\ new.parent = rec.parent /\ new.back = rec.back
                  /\ new.job = rec.job /\ new.p = rec.p

LEMMA GotoIs ==
  ASSUME NEW rec, IsProcess(rec), NEW label, NEW new, new = Goto(rec, label)
  PROVE  /\ Like(rec, new) /\ new.pc = label /\ new.cmd = rec.cmd
         /\ \A d \in Fds : new.fd[d] = rec.fd[d]
BY DEF Goto, Like, IsProcess

LEMMA RuncmdIs ==
  ASSUME NEW rec, IsProcess(rec), NEW cmd, NEW new, new = Runcmd(rec, cmd)
  PROVE  /\ Like(rec, new) /\ new.pc = "runcmd" /\ new.cmd = cmd
         /\ \A d \in Fds : new.fd[d] = rec.fd[d]
<1> DEFINE one == [rec EXCEPT !.cmd = cmd]
<1>1. Like(rec, one) /\ one.cmd = cmd /\ \A d \in Fds : one.fd[d] = rec.fd[d]
  BY DEF Like, IsProcess
<1> HIDE DEF one
<1>2. IsProcess(one)
  BY <1>1 DEF Like
<1>3. new = Goto(one, "runcmd")
  BY DEF Runcmd, one
<1> QED BY <1>1, <1>2, <1>3, GotoIs DEF Like

\* The fields that single assignments change.
LEMMA ParentIs ==
  ASSUME NEW rec, IsProcess(rec), NEW v, NEW new, new = [rec EXCEPT !.parent = v]
  PROVE  /\ IsProcess(new) /\ new.parent = v /\ new.pc = rec.pc /\ new.cmd = rec.cmd
         /\ new.job = rec.job /\ new.back = rec.back /\ new.p = rec.p /\ new.fd = rec.fd
BY DEF IsProcess

LEMMA JobIs ==
  ASSUME NEW rec, IsProcess(rec), NEW v, NEW new, new = [rec EXCEPT !.job = v]
  PROVE  /\ IsProcess(new) /\ new.job = v /\ new.pc = rec.pc /\ new.cmd = rec.cmd
         /\ new.parent = rec.parent /\ new.back = rec.back /\ new.p = rec.p /\ new.fd = rec.fd
BY DEF IsProcess

LEMMA BackIs ==
  ASSUME NEW rec, IsProcess(rec), NEW v, NEW new, new = [rec EXCEPT !.back = v]
  PROVE  /\ IsProcess(new) /\ new.back = v /\ new.pc = rec.pc /\ new.cmd = rec.cmd
         /\ new.job = rec.job /\ new.parent = rec.parent /\ new.p = rec.p /\ new.fd = rec.fd
BY DEF IsProcess

LEMMA ArrayIs ==
  ASSUME NEW rec, IsProcess(rec), NEW v, NEW new, new = [rec EXCEPT !.p = v]
  PROVE  /\ IsProcess(new) /\ new.p = v /\ new.pc = rec.pc /\ new.cmd = rec.cmd
         /\ new.job = rec.job /\ new.parent = rec.parent /\ new.back = rec.back /\ new.fd = rec.fd
BY DEF IsProcess

LEMMA PutIs ==
  ASSUME NEW rec, IsProcess(rec), NEW d, NEW handle, NEW new, new = [rec EXCEPT !.fd[d] = handle]
  PROVE  /\ Like(rec, new) /\ new.pc = rec.pc /\ new.cmd = rec.cmd
         /\ \A e \in Fds : new.fd[e] = IF e = d THEN handle ELSE rec.fd[e]
BY DEF Like, IsProcess

LEMMA CloseIs ==
  ASSUME NEW rec, IsProcess(rec), NEW d, NEW new, new = close(rec, d)
  PROVE  /\ Like(rec, new) /\ new.pc = rec.pc /\ new.cmd = rec.cmd
         /\ \A e \in Fds : new.fd[e] = IF e = d THEN closed ELSE rec.fd[e]
BY DEF Like, IsProcess, close

\* The lowest descriptor that is not open.
LEMMA FreeIs ==
  ASSUME NEW rec, NEW S \in SUBSET Fds, Open(rec, S),
         NEW d \in Fds \ S, \A e \in Fds \ S : d <= e
  PROVE  FreeFd(rec) = d
<1>1. {e \in Fds : rec.fd[e] = closed} = Fds \ S
  BY DEF Open
<1>2. \A x \in Fds \ S : (\A y \in Fds \ S : x <= y) => x = d
  BY DEF Fds
<1> QED BY <1>1, <1>2 DEF FreeFd, Min

LEMMA InstallIs ==
  ASSUME NEW rec, IsProcess(rec), NEW S \in SUBSET Fds, Open(rec, S),
         NEW d \in Fds \ S, \A e \in Fds \ S : d <= e,
         NEW handle, NEW new, new = Install(rec, handle)
  PROVE  /\ Like(rec, new) /\ new.pc = rec.pc /\ new.cmd = rec.cmd
         /\ \A e \in Fds : new.fd[e] = IF e = d THEN handle ELSE rec.fd[e]
<1>1. new = [rec EXCEPT !.fd[d] = handle]
  BY FreeIs DEF Install
<1> QED BY <1>1 DEF Like, IsProcess

-----------------------------------------------------------------------------
(* The tree of processes.                                                  *)

Tree == Table /\ FewChildren /\ Ancestors

LEMMA AliveIs ==
  ASSUME Table, NEW q \in Pids, Alive(q)
  PROVE  /\ IsProcess(proc[q]) /\ proc[q].back \in BOOLEAN
         /\ proc[q].parent \in (Pids \ {q}) \cup {init}
<1>1. proc[q] # None /\ proc[q] # [pc |-> "zombie", parent |-> proc[q].parent]
  BY DEF Alive, None
<1> QED BY <1>1 DEF Table

\* A process is as it was, for its relatives: it runs, under the same parent.
Same(q) == /\ IsProcess(proc[q]') /\ proc[q]'.pc \notin {"none", "zombie"}
           /\ proc[q]'.parent = proc[q].parent /\ proc[q]'.back = proc[q].back

\* The number of its children allows q to be at its next statement.
Fits(q, children) ==
  /\ proc[q]'.pc \in {"prompt", "fork", "wait"} => q = 1
  /\ proc[q]'.pc \notin One \cup Two \cup {"exit"} => children = {}
  /\ proc[q]'.pc \in One => \A b, c \in children : b = c
  /\ proc[q]'.pc \in Two => \A b, c, d \in children : b = c \/ b = d \/ c = d

\* One process goes on.
LEMMA TreeMove ==
  ASSUME Tree, NEW q \in Pids, Alive(q), Same(q), proc' = [proc EXCEPT ![q] = proc[q]'],
         Fits(q, Children(q)),
         proc[q]'.pc = "exit" => \A c \in Children(q) : Alive(c) => proc[c].back
  PROVE  Tree'
<1>1. /\ \A r \in Pids \ {q} : proc[r]' = proc[r]
      /\ \A r \in Pids : /\ proc[r]'.parent = proc[r].parent /\ Alive(r)' = Alive(r)
                         /\ (proc[r]'.pc = "none") = (proc[r].pc = "none")
                         /\ proc[r]'.back = proc[r].back
  BY DEF Same, Alive, Tree, Table
<1>2. \A r \in Pids : Children(r)' = Children(r)
  BY <1>1 DEF Children
<1>3. Table'
  <2>1. proc' = [r \in Pids |-> proc[r]']
    BY DEF Tree, Table
  <2>2. ASSUME NEW r \in Pids \ {q}
        PROVE  proc[r]' = proc[r]
    BY <1>1
  <2>3. /\ proc[q]'.parent \in (Pids \ {q}) \cup {init} /\ IsProcess(proc[q]')
        /\ proc[q]'.back \in BOOLEAN /\ proc[q]'.pc \notin {"none", "zombie"}
    BY AliveIs DEF Same, Tree
  <2> QED BY <2>1, <2>2, <2>3 DEF Tree, Table
<1>4. FewChildren'
  <2> SUFFICES ASSUME NEW r \in Pids
               PROVE  /\ proc[r]'.pc \in {"prompt", "fork", "wait"} => r = 1
                      /\ proc[r]'.pc \notin One \cup Two \cup {"exit"} => Children(r)' = {}
                      /\ proc[r]'.pc \in One => \A b, c \in Children(r)' : b = c
                      /\ proc[r]'.pc \in Two => \A b, c, d \in Children(r)' : b = c \/ b = d \/ c = d
                      /\ proc[r]'.pc = "exit" => \A c \in Children(r)' : Alive(c)' => proc[c]'.back
    BY DEF FewChildren
  <2>1. \A c \in Children(r) : c \in Pids
    BY DEF Children
  <2>2. CASE r = q
    BY <1>1, <1>2, <2>1, <2>2 DEF Fits
  <2>3. CASE r # q
    BY <1>1, <1>2, <2>1, <2>3 DEF Tree, FewChildren
  <2> QED BY <2>2, <2>3
<1>5. Ancestors'
  <2>1. \A r \in Pids : InFront(r)' = InFront(r)
    BY <1>1 DEF InFront
  <2> QED BY <1>1, <2>1 DEF Tree, Ancestors
<1> QED BY <1>3, <1>4, <1>5 DEF Tree

\* A process has a new child.
LEMMA TreeFork ==
  ASSUME Tree, NEW q \in Pids, Alive(q), Same(q), NEW c \in Pids, proc[c] = None,
         proc' = [proc EXCEPT ![q] = proc[q]', ![c] = proc[c]'],
         IsProcess(proc[c]'), proc[c]'.parent = q, proc[c]'.back \in BOOLEAN,
         proc[q].back => proc[c]'.back,
         proc[c]'.pc \notin {"none", "zombie", "prompt", "fork", "exit"} \cup One \cup Two,
         Fits(q, Children(q) \cup {c}),
         proc[q]'.pc = "exit" => Children(q) = {} /\ proc[c]'.back
  PROVE  Tree'
<1>1. c # q /\ proc[c].pc = "none" /\ ~Alive(c) /\ Alive(c)'
  BY DEF Alive, None
<1>2. /\ \A r \in Pids \ {q, c} : proc[r]' = proc[r]
      /\ \A r \in Pids \ {c} : /\ proc[r]'.parent = proc[r].parent /\ Alive(r)' = Alive(r)
                               /\ (proc[r]'.pc = "none") = (proc[r].pc = "none")
                               /\ proc[r]'.back = proc[r].back
  BY DEF Same, Alive, Tree, Table
<1>3. Children(c) = {} /\ \A r \in Pids : c \notin Children(r)
  BY <1>1 DEF Tree, FewChildren, Children, One, Two
<1>4. /\ \A r \in Pids \ {q} : Children(r)' = Children(r)
      /\ Children(q)' = Children(q) \cup {c}
  <2>1. ASSUME NEW r \in Pids, NEW d \in Pids \ {c}
        PROVE  d \in Children(r)' <=> d \in Children(r)
    BY <1>2 DEF Children
  <2>2. ASSUME NEW r \in Pids
        PROVE  c \in Children(r)' <=> r = q
    BY DEF Children
  <2>3. \A r \in Pids : Children(r) \subseteq Pids /\ Children(r)' \subseteq Pids
    BY DEF Children
  <2>4. ASSUME NEW r \in Pids \ {q}
        PROVE  Children(r)' = Children(r)
    BY <1>3, <2>1, <2>2, <2>3
  <2>5. Children(q)' = Children(q) \cup {c}
    BY <1>3, <2>1, <2>2, <2>3
  <2> QED BY <2>4, <2>5
<1>5. Table'
  <2>1. proc' = [r \in Pids |-> proc[r]']
    BY DEF Tree, Table
  <2>2. /\ proc[q]'.parent \in (Pids \ {q}) \cup {init} /\ IsProcess(proc[q]')
        /\ proc[q]'.back \in BOOLEAN /\ proc[q]'.pc \notin {"none", "zombie"}
    BY AliveIs DEF Same, Tree
  <2> QED BY <1>1, <1>2, <2>1, <2>2 DEF Tree, Table
<1>6. FewChildren'
  <2> SUFFICES ASSUME NEW r \in Pids
               PROVE  /\ proc[r]'.pc \in {"prompt", "fork", "wait"} => r = 1
                      /\ proc[r]'.pc \notin One \cup Two \cup {"exit"} => Children(r)' = {}
                      /\ proc[r]'.pc \in One => \A b, d \in Children(r)' : b = d
                      /\ proc[r]'.pc \in Two => \A a, b, d \in Children(r)' : a = b \/ a = d \/ b = d
                      /\ proc[r]'.pc = "exit" => \A d \in Children(r)' : Alive(d)' => proc[d]'.back
    BY DEF FewChildren
  <2>1. \A d \in Children(r) : d \in Pids \ {c}
    BY <1>3 DEF Children
  <2>2. CASE r = q
    BY <1>2, <1>4, <2>1, <2>2 DEF Fits
  <2>3. CASE r = c
    BY <1>1, <1>3, <1>4, <2>3 DEF One
  <2>4. CASE r \notin {q, c}
    BY <1>2, <1>4, <2>1, <2>4 DEF Tree, FewChildren
  <2> QED BY <2>2, <2>3, <2>4
<1>7. Ancestors'
  <2>1. \A r \in Pids \ {c} : InFront(r)' = InFront(r)
    BY <1>2 DEF InFront
  <2>2. \A r \in Pids \ {1} : InFront(r)' => proc[r]'.parent \in Pids
    BY <1>2, <2>1 DEF Tree, Ancestors
  <2>3. ASSUME NEW r \in Pids, NEW s \in Pids, Alive(r)', Alive(s)', proc[r]'.parent = s, proc[s]'.back
        PROVE  proc[r]'.back
    <3>1. CASE r = c
      BY <1>1, <1>2, <2>3, <3>1
    <3>2. CASE r # c
      <4>1. s # c
        BY <1>2, <1>3, <2>3, <3>2 DEF Children, Alive
      <4> QED BY <1>2, <2>3, <3>2, <4>1 DEF Tree, Ancestors
    <3> QED BY <3>1, <3>2
  <2>4. ASSUME NEW S \in SUBSET (Pids \ {1}), S # {}, \A r \in S : InFront(r)'
        PROVE  \E r \in S : proc[r]'.parent \notin S
    <3>1. CASE S = {c}
      BY <1>1, <3>1
    <3>2. CASE S # {c}
      <4>1. PICK r \in S \ {c} : proc[r].parent \notin S \ {c}
        <5>1. /\ S \ {c} \in SUBSET (Pids \ {1}) /\ S \ {c} # {}
              /\ \A r \in S \ {c} : InFront(r)
          BY <2>1, <2>4, <3>2
        <5>2. \A X \in SUBSET (Pids \ {1}) :
                 X # {} /\ (\A r \in X : InFront(r)) => \E r \in X : proc[r].parent \notin X
          BY DEF Tree, Ancestors
        <5> QED BY <5>1, <5>2
      <4>2. proc[r].parent # c
        BY <1>3, <2>1, <2>4, <4>1 DEF Children, InFront, Alive
      <4> QED BY <1>2, <4>1, <4>2
    <3> QED BY <3>1, <3>2
  <2> QED BY <2>2, <2>3, <2>4 DEF Ancestors
<1> QED BY <1>5, <1>6, <1>7 DEF Tree

\* wait4 reaps a child, or there is none.
LEMMA TreeWait ==
  ASSUME Tree, NEW q \in Pids, Alive(q), Same(q), NEW c \in Children(q), At(c, "zombie"),
         proc' = [proc EXCEPT ![q] = proc[q]', ![c] = None],
         Fits(q, Children(q) \ {c}),
         proc[q]'.pc = "exit" => Children(q) = {c}
  PROVE  Tree'
<1>1. c \in Pids /\ c # q /\ ~Alive(c) /\ proc[c]' = None /\ ~Alive(c)'
  BY DEF Alive, None, At, Children, Tree, Table
<1>2. /\ \A r \in Pids \ {q, c} : proc[r]' = proc[r]
      /\ \A r \in Pids \ {c} : /\ proc[r]'.parent = proc[r].parent /\ Alive(r)' = Alive(r)
                               /\ (proc[r]'.pc = "none") = (proc[r].pc = "none")
                               /\ proc[r]'.back = proc[r].back
  BY <1>1 DEF Same, Alive, Tree, Table
<1>3. \A r \in Pids : Children(r)' = Children(r) \ {c}
  BY <1>1, <1>2 DEF Children, None
<1>4. Table'
  <2>1. proc' = [r \in Pids |-> proc[r]']
    BY DEF Tree, Table
  <2>2. /\ proc[q]'.parent \in (Pids \ {q}) \cup {init} /\ IsProcess(proc[q]')
        /\ proc[q]'.back \in BOOLEAN /\ proc[q]'.pc \notin {"none", "zombie"}
    BY AliveIs DEF Same, Tree
  <2> QED BY <1>1, <1>2, <2>1, <2>2 DEF Tree, Table
<1>5. FewChildren'
  <2> SUFFICES ASSUME NEW r \in Pids
               PROVE  /\ proc[r]'.pc \in {"prompt", "fork", "wait"} => r = 1
                      /\ proc[r]'.pc \notin One \cup Two \cup {"exit"} => Children(r)' = {}
                      /\ proc[r]'.pc \in One => \A b, d \in Children(r)' : b = d
                      /\ proc[r]'.pc \in Two => \A a, b, d \in Children(r)' : a = b \/ a = d \/ b = d
                      /\ proc[r]'.pc = "exit" => \A d \in Children(r)' : Alive(d)' => proc[d]'.back
    BY DEF FewChildren
  <2>1. \A d \in Children(r) : d \in Pids
    BY DEF Children
  <2>2. CASE r = q
    BY <1>3, <2>1, <2>2 DEF Fits
  <2>3. CASE r = c
    <3>1. Children(c) = {}
      BY <1>1 DEF Tree, FewChildren, At, One, Two
    <3> QED BY <1>1, <1>3, <2>3, <3>1 DEF None, One, Two
  <2>4. CASE r \notin {q, c}
    BY <1>2, <1>3, <2>1, <2>4 DEF Tree, FewChildren
  <2> QED BY <2>2, <2>3, <2>4
<1>6. Ancestors'
  <2>1. \A r \in Pids : InFront(r)' => InFront(r) /\ r # c
    BY <1>1, <1>2 DEF InFront
  <2> QED BY <1>1, <1>2, <2>1 DEF Tree, Ancestors
<1> QED BY <1>4, <1>5, <1>6 DEF Tree

\* A process ends: its children, which are all in the background, go to init.
LEMMA TreeExit ==
  ASSUME Tree, NEW q \in Pids, proc[q].pc \in {"exit", "out"}, exit(q)
  PROVE  Tree'
<1>1. /\ proc' = [c \in Pids |->
                    IF c = q
                      THEN IF proc[q].parent = init THEN None
                           ELSE [pc |-> "zombie", parent |-> proc[q].parent]
                    ELSE IF c \in Children(q)
                      THEN IF At(c, "zombie") THEN None ELSE [proc[c] EXCEPT !.parent = init]
                    ELSE proc[c]]
      /\ Alive(q) /\ init \notin Pids
  BY DEF exit, Alive, init, Pids
<1>2. /\ proc[q].parent \in (Pids \ {q}) \cup {init}
      /\ proc[q]' = None \/ proc[q]' = [pc |-> "zombie", parent |-> proc[q].parent]
      /\ ~Alive(q)'
  BY <1>1, AliveIs DEF Tree, Alive, None
<1>3. \A c \in Children(q) : Alive(c) => proc[c].back
  BY DEF Tree, FewChildren, One, Two
<1>4. ASSUME NEW c \in Children(q), c # q, ~At(c, "zombie")
      PROVE  /\ Alive(c) /\ IsProcess(proc[c]') /\ proc[c]'.pc = proc[c].pc
             /\ proc[c]'.back = proc[c].back /\ proc[c]'.parent = init
  <2>1. c \in Pids /\ Alive(c)
    BY <1>4 DEF Children, Alive, At
  <2>2. proc[c]' = [proc[c] EXCEPT !.parent = init]
    BY <1>1, <1>4, <2>1
  <2>3. IsProcess(proc[c])
    BY <2>1, AliveIs DEF Tree
  <2> DEFINE new == [proc[c] EXCEPT !.parent = init]
  <2>4. IsProcess(new) /\ new.parent = init /\ new.pc = proc[c].pc /\ new.back = proc[c].back
    BY <2>3, ParentIs
  <2> QED BY <2>1, <2>2, <2>4
<1>5. ASSUME NEW c \in Children(q), c # q, At(c, "zombie")
      PROVE  proc[c]' = None
  BY <1>1, <1>5 DEF Children
<1>6. ASSUME NEW c \in Pids \ {q}, c \notin Children(q)
      PROVE  proc[c]' = proc[c]
  BY <1>1, <1>6
<1>7. \A r \in Pids \ {q} : /\ Alive(r)' <=> Alive(r)
                            /\ Alive(r) => /\ proc[r]'.pc = proc[r].pc /\ proc[r]'.back = proc[r].back
                                           /\ proc[r]'.parent \in {proc[r].parent, init}
                            /\ proc[r]'.pc # proc[r].pc => proc[r]'.pc = "none"
  BY <1>4, <1>5, <1>6 DEF Alive, At, None
<1>8. Children(q)' = {} /\ \A r \in Pids \ {q} : Children(r)' \subseteq Children(r)
  <2>1. ASSUME NEW r \in Pids, NEW d \in Pids, d \in Children(r)'
        PROVE  r # q /\ d \in Children(r)
    <3>1. proc[d]'.pc # "none" /\ proc[d]'.parent = r
      BY <2>1 DEF Children
    <3>2. CASE d = q
      BY <1>1, <1>2, <3>1, <3>2 DEF None, Children, Alive
    <3>3. CASE d # q /\ d \in Children(q)
      BY <1>1, <1>4, <1>5, <3>1, <3>3 DEF None
    <3>4. CASE d # q /\ d \notin Children(q)
      BY <1>6, <3>1, <3>4 DEF Children
    <3> QED BY <3>2, <3>3, <3>4
  <2>2. \A r \in Pids : Children(r)' \subseteq Pids
    BY DEF Children
  <2> QED BY <2>1, <2>2
<1>9. Table'
  <2>1. proc' = [r \in Pids |-> proc[r]']
    BY <1>1
  <2>2. ASSUME NEW c \in Children(q), c # q, ~At(c, "zombie")
        PROVE  proc[c]'.back \in BOOLEAN /\ proc[c]'.pc \notin {"none", "zombie"} /\ c \in Pids
    BY <1>4, <2>2, AliveIs DEF Tree, Alive, Children
  <2> QED BY <1>2, <1>4, <1>5, <1>6, <2>1, <2>2, SMTT(30) DEF Tree, Table
<1>10. FewChildren'
  <2> SUFFICES ASSUME NEW r \in Pids
               PROVE  /\ proc[r]'.pc \in {"prompt", "fork", "wait"} => r = 1
                      /\ proc[r]'.pc \notin One \cup Two \cup {"exit"} => Children(r)' = {}
                      /\ proc[r]'.pc \in One => \A b, d \in Children(r)' : b = d
                      /\ proc[r]'.pc \in Two => \A a, b, d \in Children(r)' : a = b \/ a = d \/ b = d
                      /\ proc[r]'.pc = "exit" => \A d \in Children(r)' : Alive(d)' => proc[d]'.back
    BY DEF FewChildren
  <2>1. CASE r = q
    BY <1>2, <1>8, <2>1 DEF None, One, Two
  <2>2. CASE r # q /\ proc[r]'.pc = proc[r].pc
    <3>1. \A d \in Children(r)' : d \in Pids /\ d \in Children(r) /\ (Alive(d)' => d # q)
      BY <1>2, <1>8, <2>2 DEF Children
    <3> QED BY <1>7, <2>2, <3>1 DEF Tree, FewChildren
  <2>3. CASE r # q /\ proc[r]'.pc # proc[r].pc
    <3>1. proc[r]'.pc = "none" /\ Children(r) = {}
      <4>1. r \in Children(q) /\ At(r, "zombie")
        BY <1>4, <1>6, <2>3
      <4> QED BY <1>7, <2>3, <4>1 DEF Tree, FewChildren, At, One, Two
    <3> QED BY <1>8, <2>3, <3>1 DEF One, Two
  <2> QED BY <2>1, <2>2, <2>3
<1>11. Ancestors'
  <2>1. \A r \in Pids : Alive(r)' => r # q /\ Alive(r)
    BY <1>2, <1>7
  <2>2. \A r \in Pids : InFront(r)' => InFront(r) /\ proc[r]'.parent = proc[r].parent
    BY <1>3, <1>4, <1>6, <1>7, <2>1 DEF InFront, At, Alive
  <2>3. \A r \in Pids \ {1} : InFront(r)' => proc[r]'.parent \in Pids
    BY <2>2 DEF Tree, Ancestors
  <2>4. ASSUME NEW r \in Pids, NEW s \in Pids, Alive(r)', Alive(s)', proc[r]'.parent = s, proc[s]'.back
        PROVE  proc[r]'.back
    BY <1>1, <1>7, <2>1, <2>4 DEF Tree, Ancestors
  <2>5. ASSUME NEW S \in SUBSET (Pids \ {1}), S # {}, \A r \in S : InFront(r)'
        PROVE  \E r \in S : proc[r]'.parent \notin S
    <3>1. PICK r \in S : proc[r].parent \notin S
      BY <2>2, <2>5 DEF Tree, Ancestors
    <3> QED BY <2>2, <2>5, <3>1
  <2> QED BY <2>3, <2>4, <2>5 DEF Ancestors
<1> QED BY <1>9, <1>10, <1>11 DEF Tree

-----------------------------------------------------------------------------
(* The descriptors of one process.                                         *)

\* Its place in the tree does not matter, nor do lines that are typed later.
LEMMA SameDescriptors ==
  ASSUME NEW rec, NEW new, NEW typed, Descriptors(rec, typed),
         new.pc = rec.pc, new.cmd = rec.cmd, new.job = rec.job, new.p = rec.p,
         \A d \in Fds : new.fd[d] = rec.fd[d]
  PROVE  Descriptors(new, typed)
<1>1. \A S : Open(new, S) = Open(rec, S)
  BY DEF Open
<1>2. Due(new, typed) = Due(rec, typed) /\ Pipe(new) = Pipe(rec)
  BY DEF Due, Pipe
<1>3. \A d \in {0, 1, 2, 3, 4} : new.fd[d] = rec.fd[d]
  BY DEF Fds
<1> QED BY <1>1, <1>2, <1>3, SMTT(30) DEF Descriptors

LEMMA LaterLines ==
  ASSUME NEW rec, NEW typed \in Seq(Lines), NEW line \in Lines, Descriptors(rec, typed)
  PROVE  Descriptors(rec, Append(typed, line))
<1>1. /\ Len(typed) \in Nat /\ Len(Append(typed, line)) = Len(typed) + 1
      /\ \A k \in 1 .. Len(typed) : Append(typed, line)[k] = typed[k]
  OBVIOUS
<1>2. rec.job \in 1 .. Len(typed) => Due(rec, Append(typed, line)) = Due(rec, typed)
                                     /\ rec.job \in 1 .. Len(Append(typed, line))
  BY <1>1 DEF Due
<1>3. Append(typed, line) # <<>>
  BY <1>1
<1> QED BY <1>2, <1>3 DEF Descriptors, Piping, Holding, Starting

\* What follows from the wiring of a command for its parts.
LEMMA UnfoldIs ==
  ASSUME NEW typed \in Seq(Lines), Len(typed) <= MaxLines, NEW job \in 1 .. Len(typed),
         NEW c \in Commands, NEW in, NEW out, <<c, in, out>> \in Wiring(job, typed[job])
  PROVE  LET due == Wiring(job, typed[job])
         IN  /\ c.type = "REDIR" =>
                  <<c.cmd, IF c.fd = 0 THEN <<"file", c.file>> ELSE in,
                           IF c.fd = 0 THEN out ELSE <<"file", c.file>>>> \in due
             /\ c.type = "LIST" => <<c.left, in, out>> \in due /\ <<c.right, in, out>> \in due
             /\ c.type = "PIPE" => /\ <<c.left, in, <<"w", <<job, c>>>>>> \in due
                                   /\ <<c.right, <<"r", <<job, c>>>>, out>> \in due
             /\ c.type = "BACK" => <<c.cmd, in, out>> \in due
<1>1. job \in 1 .. MaxLines /\ typed[job] \in Lines
  BY TableAssumption
<1>2. Unfold(job, c, in, out) \subseteq Wiring(job, typed[job])
  <2>1. \A x \in Wiring(job, typed[job]) : Unfold(job, x[1], x[2], x[3]) \subseteq Wiring(job, typed[job])
    BY <1>1, WiringAssumption DEF Follows
  <2> DEFINE x == <<c, in, out>>
  <2>2. x[1] = c /\ x[2] = in /\ x[3] = out
    OBVIOUS
  <2>3. Unfold(job, x[1], x[2], x[3]) \subseteq Wiring(job, typed[job])
    BY <2>1
  <2> HIDE DEF x
  <2> QED BY <2>2, <2>3
<1> QED BY <1>2 DEF Unfold

\* A handle is not the mark of a closed descriptor.
LEMMA Handles ==
  /\ tty # closed
  /\ \A x : <<"file", x>> # closed /\ <<"r", x>> # closed /\ <<"w", x>> # closed
BY DEF tty, closed

-----------------------------------------------------------------------------
(* The stretch of the line a process works on.                             *)

\* Both sides of a PIPE or a LIST have words.
LEMMA PartIsSmaller ==
  ASSUME NEW c \in Commands, c.type \in {"PIPE", "LIST"}, NEW part \in PartsOf(c)
  PROVE  Within(part, c) /\ Span(part) < Span(c)
<1>1. part \in {c.left, c.right} /\ c.left \in Commands /\ c.right \in Commands
  BY ParserAssumption DEF PartsOf
<1>2. /\ Within(c.left, c) /\ Within(c.right, c) /\ To(c.left) < From(c.right)
  BY PlacesAssumption DEF PartsOf
<1>3. \A k \in {c, c.left, c.right} : From(k) \in Nat /\ To(k) \in Nat /\ From(k) <= To(k)
  BY <1>1, PlacesAssumption
<1> QED BY <1>1, <1>2, <1>3 DEF Within, Span

\* new may take the place of old below any parent.
Keeps(old, new) == \A rec : Under(old, rec) => Under(new, rec)

\* It has the same command, or a part of it; the halves of a PIPE have had
\* all of it.
LEMMA KeepsIs ==
  ASSUME NEW old, NEW new, new.job = old.job, old.pc \in Starting \/ new.pc \notin Starting,
         \/ new.cmd = old.cmd /\ (new.pc \in Halves <=> old.pc \in Halves)
         \/ old.pc \in Starting
         \/ /\ new.pc \notin Halves /\ old.cmd \in Commands /\ new.cmd \in Commands
            /\ \/ old.pc \notin Halves /\ new.cmd \in PartsOf(old.cmd)
               \/ old.cmd.type = "PIPE" /\ new.cmd \in PartsOf(old.cmd)
  PROVE  Keeps(old, new)
<1> SUFFICES ASSUME NEW rec, Under(old, rec) PROVE Under(new, rec)
  BY DEF Keeps
<1>0. old.pc \notin Starting /\ new.pc \notin Starting
  BY DEF Under
<1>1. CASE new.cmd = old.cmd /\ (new.pc \in Halves <=> old.pc \in Halves)
  BY <1>0, <1>1 DEF Under
<1>2. ASSUME new.pc \notin Halves, old.cmd \in Commands, new.cmd \in Commands,
             new.cmd \in PartsOf(old.cmd),
             old.pc \notin Halves \/ old.cmd.type = "PIPE"
      PROVE  Under(new, rec)
  <2>1. /\ From(new.cmd) \in Nat /\ To(new.cmd) \in Nat /\ From(new.cmd) <= To(new.cmd)
        /\ From(old.cmd) \in Nat /\ To(old.cmd) \in Nat
        /\ Within(new.cmd, old.cmd)
    BY <1>2, PlacesAssumption
  <2>2. rec.cmd \in Commands /\ From(rec.cmd) \in Nat /\ To(rec.cmd) \in Nat
    BY PlacesAssumption DEF Under
  <2>3. CASE old.pc \notin Halves
    <3>1. Within(old.cmd, rec.cmd) /\ Span(old.cmd) < Span(rec.cmd)
      BY <2>3 DEF Under
    <3>2. Within(new.cmd, rec.cmd) /\ Span(new.cmd) < Span(rec.cmd)
      BY <2>1, <2>2, <3>1 DEF Within, Span
    <3> QED BY <1>0, <1>2, <2>2, <3>2 DEF Under
  <2>4. CASE old.pc \in Halves
    <3>1. rec.cmd = old.cmd /\ old.cmd.type = "PIPE"
      BY <1>2, <2>4 DEF Under
    <3>2. Span(new.cmd) < Span(old.cmd)
      BY <1>2, <3>1, PartIsSmaller
    <3> QED BY <1>0, <1>2, <2>1, <2>2, <3>1, <3>2 DEF Under
  <2> QED BY <2>3, <2>4
<1> QED BY <1>0, <1>1, <1>2

-----------------------------------------------------------------------------
(* The calls keep the invariant.                                           *)

LEMMA ActorIs ==
  ASSUME IInv, NEW q \in Pids, proc[q].pc \notin {"none", "zombie"}
  PROVE  /\ Alive(q) /\ Tree /\ IsProcess(proc[q]) /\ proc[q].back \in BOOLEAN
         /\ Descriptors(proc[q], script)
BY AliveIs DEF IInv, TypeOK, Tree, InPlace, Alive

LEMMA InTable ==
  ASSUME Table, NEW q \in Pids, NEW STATE rec, proc' = [proc EXCEPT ![q] = rec]
  PROVE  /\ proc[q]' = rec /\ proc' = [proc EXCEPT ![q] = proc[q]']
         /\ \A r \in Pids \ {q} : proc[r]' = proc[r]
<1>1. proc = [r \in Pids |-> proc[r]]
  BY DEF Table
<1> QED BY <1>1

LEMMA MoveIInv ==
  ASSUME IInv, NEW q \in Pids, proc[q].pc \notin {"none", "zombie"}, script' = script,
         NEW STATE rec, proc' = [proc EXCEPT ![q] = rec],
         IsProcess(rec), rec.parent = proc[q].parent, rec.back = proc[q].back,
         Descriptors(rec, script), rec.pc \notin {"none", "zombie"},
         rec.pc \in {"prompt", "fork", "wait"} => q = 1, Keeps(proc[q], rec),
         \/ Children(q) = {}
         \/ /\ proc[q].pc \in Two /\ rec.pc \in Two
            /\ rec.cmd = proc[q].cmd /\ rec.job = proc[q].job
  PROVE  IInv'
<1>1. Alive(q) /\ Tree /\ TypeOK /\ Table
  BY ActorIs DEF IInv, TypeOK
<1>2. /\ proc[q]' = rec /\ proc' = [proc EXCEPT ![q] = proc[q]']
      /\ \A r \in Pids \ {q} : proc[r]' = proc[r]
  BY <1>1, InTable
<1>3. Same(q)
  BY <1>2 DEF Same
<1>4. Fits(q, Children(q)) /\ (proc[q]'.pc = "exit" => Children(q) = {})
  <2>1. CASE Children(q) = {}
    BY <1>2, <2>1 DEF Fits
  <2>2. CASE proc[q].pc \in Two /\ rec.pc \in Two
    BY <1>1, <1>2, <2>2 DEF Fits, Tree, FewChildren, One, Two
  <2> QED BY <2>1, <2>2
<1>5. Tree'
  BY <1>1, <1>2, <1>3, <1>4, TreeMove
<1>6. InPlace'
  BY <1>2 DEF IInv, InPlace, Alive
<1>7. Nested'
  <2> SUFFICES ASSUME NEW a \in Pids, NEW b \in Pids, Alive(a)', proc[a]'.parent = b,
                      proc[b]'.pc \in Holding
               PROVE  Under(proc[a]', proc[b]')
    BY DEF Nested
  <2>1. CASE a = q
    <3>1. proc[q].parent = b /\ b # q
      BY <1>1, <1>2, <2>1, AliveIs DEF init, Pids
    <3> QED BY <1>1, <1>2, <2>1, <3>1 DEF IInv, Nested, Keeps
  <2>2. CASE a # q /\ b = q
    <3>1. proc[a]' = proc[a] /\ Alive(a) /\ a \in Children(q)
      BY <1>2, <2>2 DEF Alive, Children
    <3>2. /\ proc[q].pc \in Holding /\ rec.cmd = proc[q].cmd /\ rec.job = proc[q].job
      BY <3>1 DEF Two, Holding
    <3>3. Under(proc[a], proc[q])
      BY <2>2, <3>1, <3>2 DEF IInv, Nested, Children
    <3> QED BY <1>2, <2>2, <3>1, <3>2, <3>3 DEF Under
  <2>3. CASE a # q /\ b # q
    BY <1>2, <2>3 DEF IInv, Nested, Alive
  <2> QED BY <2>1, <2>2, <2>3
<1> QED BY <1>1, <1>5, <1>6, <1>7 DEF IInv, Tree, TypeOK

\* q has no children, so that it may go anywhere.
LEMMA Childless ==
  ASSUME IInv, NEW q \in Pids, proc[q].pc \notin One \cup Two \cup {"exit"}
  PROVE  Children(q) = {}
BY DEF IInv, FewChildren

LEMMA ForkIInv ==
  ASSUME IInv, NEW q \in Pids, proc[q].pc \notin {"none", "zombie"}, NEW CONSTANT label,
         NEW STATE child, fork(q, label, child),
         label \in One \cup Two \cup {"exit"}, label = "wait" => q = 1 /\ proc[q].pc = "fork",
         Descriptors(Goto(proc[q], label), script),
         IsProcess(child), child.back \in BOOLEAN, proc[q].back => child.back,
         child.pc \in {"parse", "runcmd", "l1", "r1"}, Descriptors(child, script),
         proc[q].pc \notin Halves, label \in Holding => Under(child, proc[q]),
         \/ Children(q) = {} /\ (label = "exit" => child.back)
         \/ proc[q].pc = "fork2" /\ label \in Two /\ \A b, c \in Children(q) : b = c
  PROVE  IInv'
<1> DEFINE rec == Goto(proc[q], label)
           young == [child EXCEPT !.parent = q]
<1>1. Alive(q) /\ Tree /\ Table /\ TypeOK /\ IsProcess(proc[q]) /\ script' = script
  BY ActorIs DEF IInv, TypeOK, fork, Fails
<1>2. /\ IsProcess(rec) /\ rec.pc = label /\ rec.parent = proc[q].parent /\ rec.back = proc[q].back
      /\ label \notin {"none", "zombie"} \cup Halves
      /\ proc[q].pc \in Starting \/ label \notin Starting
      /\ rec.cmd = proc[q].cmd /\ rec.job = proc[q].job
  BY <1>1, GotoIs DEF Like, One, Two, Halves, Starting
<1>3. /\ IsProcess(young) /\ young.parent = q /\ young.pc = child.pc /\ young.cmd = child.cmd
      /\ young.job = child.job /\ young.back = child.back /\ young.p = child.p /\ young.fd = child.fd
  BY ParentIs
<1>4. Descriptors(young, script)
  BY <1>3, SameDescriptors
<1> HIDE DEF young, rec
<1>a. Keeps(proc[q], rec) /\ \A old : Under(old, proc[q]) => Under(old, rec)
  BY <1>2, KeepsIs DEF Under, Starting
<1>b. label \in Holding => Under(young, rec)
  BY <1>2, <1>3 DEF Under
<1>5. ASSUME NEW c \in Pids, proc[c] = None,
             proc' = [proc EXCEPT ![q] = rec, ![c] = young]
      PROVE  IInv'
  <2>1. c # q
    BY <1>5 DEF None
  <2>2. /\ proc[q]' = rec /\ proc[c]' = young
        /\ proc' = [proc EXCEPT ![q] = proc[q]', ![c] = proc[c]']
        /\ \A r \in Pids \ {q, c} : proc[r]' = proc[r]
    <3>1. proc = [r \in Pids |-> proc[r]]
      BY <1>1 DEF Table
    <3> QED BY <1>5, <2>1, <3>1
  <2>3. Same(q)
    BY <1>2, <2>2 DEF Same
  <2>4. Fits(q, Children(q) \cup {c})
    BY <1>2, <2>2 DEF Fits, One, Two
  <2>5. /\ IsProcess(proc[c]') /\ proc[c]'.parent = q /\ proc[c]'.back \in BOOLEAN
        /\ proc[q].back => proc[c]'.back
        /\ proc[c]'.pc \notin {"none", "zombie", "prompt", "fork", "exit"} \cup One \cup Two
        /\ proc[q]'.pc = "exit" => Children(q) = {} /\ proc[c]'.back
    BY <1>2, <1>3, <2>2 DEF One, Two
  <2>6. Tree'
    BY <1>1, <1>5, <2>2, <2>3, <2>4, <2>5, TreeFork
  <2>7. InPlace'
    BY <1>1, <1>4, <2>2 DEF IInv, InPlace, Alive, rec
  <2>8. Nested'
    <3> SUFFICES ASSUME NEW a \in Pids, NEW b \in Pids, Alive(a)', proc[a]'.parent = b,
                        proc[b]'.pc \in Holding
                 PROVE  Under(proc[a]', proc[b]')
      BY DEF Nested
    <3>1. b # c
      BY <1>3, <2>2 DEF Holding
    <3>2. CASE a = c
      BY <1>2, <1>3, <1>b, <2>2, <3>2
    <3>3. CASE a = q
      <4>1. proc[q].parent = b /\ b # q
        BY <1>1, <1>2, <2>2, <3>3, AliveIs DEF init, Pids
      <4> QED BY <1>1, <1>a, <2>2, <3>1, <3>3, <4>1 DEF IInv, Nested, Keeps
    <3>4. CASE a \notin {q, c}
      <4>1. proc[a]' = proc[a] /\ Alive(a)
        BY <2>2, <3>4 DEF Alive
      <4>2. CASE b # q
        BY <2>2, <3>1, <4>1, <4>2 DEF IInv, Nested
      <4>3. CASE b = q
        <5>1. a \in Children(q)
          BY <4>1, <4>3 DEF Children, Alive
        <5>2. Under(proc[a], proc[q])
          BY <4>1, <4>3, <5>1 DEF IInv, Nested, Holding
        <5> QED BY <1>a, <2>2, <4>1, <4>3, <5>2
      <4> QED BY <4>2, <4>3
    <3> QED BY <3>2, <3>3, <3>4
  <2> QED BY <1>1, <2>6, <2>7, <2>8 DEF IInv, Tree, TypeOK
<1>6. ASSUME proc' = [proc EXCEPT ![q] = rec]
      PROVE  IInv'
  <2>1. /\ proc[q]' = rec /\ proc' = [proc EXCEPT ![q] = proc[q]']
        /\ \A r \in Pids \ {q} : proc[r]' = proc[r]
    BY <1>1, <1>6, InTable
  <2>2. Same(q)
    BY <1>2, <2>1 DEF Same
  <2>3. Fits(q, Children(q)) /\ (proc[q]'.pc = "exit" => Children(q) = {})
    BY <1>2, <2>1 DEF Fits, One, Two
  <2>4. Tree'
    BY <1>1, <2>1, <2>2, <2>3, TreeMove
  <2>5. InPlace'
    BY <1>1, <2>1 DEF IInv, InPlace, Alive, rec
  <2>6. Nested'
    <3> SUFFICES ASSUME NEW a \in Pids, NEW b \in Pids, Alive(a)', proc[a]'.parent = b,
                        proc[b]'.pc \in Holding
                 PROVE  Under(proc[a]', proc[b]')
      BY DEF Nested
    <3>1. CASE a = q
      <4>1. proc[q].parent = b /\ b # q
        BY <1>1, <1>2, <2>1, <3>1, AliveIs DEF init, Pids
      <4> QED BY <1>1, <1>a, <2>1, <3>1, <4>1 DEF IInv, Nested, Keeps
    <3>2. CASE a # q /\ b # q
      BY <2>1, <3>2 DEF IInv, Nested, Alive
    <3>3. CASE a # q /\ b = q
      <4>1. proc[a]' = proc[a] /\ Alive(a) /\ a \in Children(q)
        BY <2>1, <3>3 DEF Alive, Children
      <4>2. Under(proc[a], proc[q])
        BY <3>3, <4>1 DEF IInv, Nested, Holding, Children
      <4> QED BY <1>a, <2>1, <3>3, <4>1, <4>2
    <3> QED BY <3>1, <3>2, <3>3
  <2> QED BY <1>1, <2>4, <2>5, <2>6 DEF IInv, Tree, TypeOK
<1>7. \/ \E c \in Pids : proc[c] = None /\ proc' = [proc EXCEPT ![q] = rec, ![c] = young]
      \/ proc' = [proc EXCEPT ![q] = rec]
  BY DEF fork, Fails, rec, young
<1> QED BY <1>5, <1>6, <1>7

LEMMA WaitIInv ==
  ASSUME IInv, NEW q \in Pids, NEW STATE next, wait4(q, next),
         IsProcess(next), next.parent = proc[q].parent, next.back = proc[q].back,
         Descriptors(next, script), Keeps(proc[q], next),
         proc[q].pc = "wait1" => next.cmd = proc[q].cmd /\ next.job = proc[q].job,
         \/ proc[q].pc \in One /\ next.pc \notin {"none", "zombie", "fork"} \cup One \cup Two
         \/ proc[q].pc = "wait1" /\ next.pc = "wait2",
         next.pc = "prompt" => q = 1
  PROVE  IInv'
<1>1. /\ Alive(q) /\ Tree /\ Table /\ TypeOK /\ script' = script
      /\ proc[q].pc \notin {"none", "zombie"} /\ next.pc \notin {"none", "zombie", "fork", "wait"}
  BY ActorIs DEF IInv, TypeOK, wait4, One, Two
<1>2. CASE Children(q) = {} /\ proc' = [proc EXCEPT ![q] = next]
  BY <1>1, <1>2, MoveIInv
<1>3. ASSUME NEW c \in Children(q), At(c, "zombie"), proc' = [proc EXCEPT ![q] = next, ![c] = None]
      PROVE  IInv'
  <2>1. c \in Pids /\ c # q
    BY <1>1, <1>3 DEF Children, At
  <2>2. /\ proc[q]' = next /\ proc[c]' = None
        /\ proc' = [proc EXCEPT ![q] = proc[q]', ![c] = None]
        /\ \A r \in Pids \ {q, c} : proc[r]' = proc[r]
    <3>1. proc = [r \in Pids |-> proc[r]]
      BY <1>1 DEF Table
    <3> QED BY <1>3, <2>1, <3>1
  <2>3. Same(q)
    BY <1>1, <2>2 DEF Same
  <2>4. Fits(q, Children(q) \ {c}) /\ (proc[q]'.pc = "exit" => Children(q) = {c})
    <3>1. CASE proc[q].pc \in One /\ next.pc \notin {"none", "zombie", "fork"} \cup One \cup Two
      <4>1. Children(q) = {c}
        BY <1>1, <1>3, <3>1 DEF Tree, FewChildren
      <4> QED BY <1>1, <2>2, <3>1, <4>1 DEF Fits, One, Two
    <3>2. CASE proc[q].pc = "wait1" /\ next.pc = "wait2"
      <4>1. \A b, d \in Children(q) \ {c} : b = d
        BY <1>1, <1>3, <3>2 DEF Tree, FewChildren, Two
      <4> QED BY <2>2, <3>2, <4>1 DEF Fits, One, Two
    <3> QED BY <3>1, <3>2
  <2>5. Tree'
    BY <1>1, <1>3, <2>2, <2>3, <2>4, TreeWait
  <2>6. InPlace'
    BY <1>1, <2>1, <2>2 DEF IInv, InPlace, Alive, None
  <2>7. Nested'
    <3> SUFFICES ASSUME NEW a \in Pids, NEW b \in Pids, Alive(a)', proc[a]'.parent = b,
                        proc[b]'.pc \in Holding
                 PROVE  Under(proc[a]', proc[b]')
      BY DEF Nested
    <3>1. a # c /\ b # c
      BY <2>2 DEF Alive, None, Holding
    <3>2. CASE a = q
      <4>1. proc[q].parent = b /\ b # q
        BY <1>1, <2>2, <3>2, AliveIs DEF init, Pids
      <4> QED BY <1>1, <2>2, <3>1, <3>2, <4>1 DEF IInv, Nested, Keeps
    <3>3. CASE a # q /\ b # q
      BY <2>2, <3>1, <3>3 DEF IInv, Nested, Alive
    <3>4. CASE a # q /\ b = q
      <4>1. proc[a]' = proc[a] /\ Alive(a) /\ a \in Children(q)
        BY <2>2, <3>1, <3>4 DEF Alive, Children
      <4>2. next.pc \in Holding
        BY <2>2, <3>4
      <4>3. proc[q].pc = "wait1"
        BY <4>2 DEF Holding, One, Two
      <4>4. Under(proc[a], proc[q])
        BY <3>4, <4>1, <4>3 DEF IInv, Nested, Holding, Children
      <4> QED BY <2>2, <3>4, <4>1, <4>3, <4>4 DEF Under
    <3> QED BY <3>2, <3>3, <3>4
  <2> QED BY <1>1, <2>5, <2>6, <2>7 DEF IInv, Tree, TypeOK
<1> QED BY <1>2, <1>3 DEF wait4

LEMMA ExitIInv ==
  ASSUME IInv, NEW q \in Pids, proc[q].pc \in {"exit", "out"}, exit(q)
  PROVE  IInv'
<1>1. Alive(q) /\ Tree /\ Table /\ TypeOK /\ script' = script
  BY ActorIs DEF IInv, TypeOK, exit
<1>2. Tree'
  BY <1>1, TreeExit
<1>3. ASSUME NEW r \in Pids, Alive(r)'
      PROVE  Descriptors(proc[r]', script)
  <2>1. r # q
    BY <1>3 DEF exit, Alive, None
  <2>2. CASE r \in Children(q)
    <3>1. /\ Alive(r) /\ proc[r]' = [proc[r] EXCEPT !.parent = init]
      BY <1>3, <2>1, <2>2 DEF exit, Alive, None, At, Children
    <3>2. IsProcess(proc[r]) /\ Descriptors(proc[r], script)
      BY <3>1, ActorIs DEF Alive
    <3> DEFINE new == [proc[r] EXCEPT !.parent = init]
    <3>3. /\ new.pc = proc[r].pc /\ new.cmd = proc[r].cmd /\ new.job = proc[r].job
          /\ new.p = proc[r].p /\ new.fd = proc[r].fd
      BY <3>2, ParentIs
    <3> HIDE DEF new
    <3>4. Descriptors(new, script)
      BY <3>2, <3>3, SameDescriptors
    <3> QED BY <3>1, <3>4 DEF new
  <2>3. CASE r \notin Children(q)
    <3>1. proc[r]' = proc[r]
      BY <2>1, <2>3 DEF exit
    <3> QED BY <1>3, <3>1 DEF IInv, InPlace, Alive
  <2> QED BY <2>2, <2>3
<1>4. Nested'
  <2> SUFFICES ASSUME NEW a \in Pids, NEW b \in Pids, Alive(a)', proc[a]'.parent = b,
                      proc[b]'.pc \in Holding
               PROVE  Under(proc[a]', proc[b]')
    BY DEF Nested
  <2>1. a # q /\ b # q /\ init \notin Pids
    BY DEF exit, Alive, None, Holding, init, Pids
  <2>2. a \notin Children(q)
    <3> SUFFICES ASSUME a \in Children(q) PROVE FALSE
      OBVIOUS
    <3>1. /\ Alive(a) /\ proc[a]' = [proc[a] EXCEPT !.parent = init]
      BY <2>1 DEF exit, Alive, None, At, Children
    <3>2. [proc[a] EXCEPT !.parent = init].parent = init
      BY <1>1, <3>1, AliveIs DEF IsProcess
    <3> QED BY <2>1, <3>1, <3>2
  <2>3. proc[a]' = proc[a] /\ Alive(a)
    BY <2>1, <2>2 DEF exit, Alive
  <2>4. proc[b].pc = proc[b]'.pc /\ proc[b].cmd = proc[b]'.cmd /\ proc[b].job = proc[b]'.job
    <3>1. CASE b \in Children(q)
      <4>1. Alive(b) /\ proc[b]' = [proc[b] EXCEPT !.parent = init]
        BY <2>1, <3>1 DEF exit, Alive, None, At, Children, Holding
      <4> QED BY <1>1, <4>1, AliveIs, ParentIs
    <3>2. CASE b \notin Children(q)
      BY <2>1, <3>2 DEF exit
    <3> QED BY <3>1, <3>2
  <2> QED BY <2>3, <2>4 DEF IInv, Nested, Under
<1> QED BY <1>1, <1>2, <1>3, <1>4 DEF IInv, Tree, TypeOK, InPlace

-----------------------------------------------------------------------------
(* _start.                                                                 *)

LEMMA InitIInv == Init => IInv
<1> SUFFICES ASSUME Init PROVE IInv
  OBVIOUS
<1>1. /\ 1 \in Pids /\ init \notin Pids /\ proc[1] = FirstProcess
      /\ \A q \in Pids \ {1} : proc[q] = None
      /\ proc = [q \in Pids |-> proc[q]] /\ script = <<>>
  BY TableAssumption DEF Init, Pids, init
<1>2. /\ IsProcess(FirstProcess) /\ FirstProcess.pc = "prompt" /\ FirstProcess.parent = init
      /\ FirstProcess.back = FALSE
  BY DEF FirstProcess, IsProcess
<1>3. None.pc = "none" /\ \A q \in Pids : Alive(q) => q = 1
  BY <1>1 DEF None, Alive
<1>4. TypeOK
  <2>1. script \in Seq(Lines) /\ Len(script) <= MaxLines
    BY <1>1, TableAssumption
  <2> QED BY <1>1, <1>2, <2>1 DEF TypeOK, Table
<1>5. \A q \in Pids : Children(q) = {}
  BY <1>1, <1>2, <1>3 DEF Children
<1>6. FewChildren
  BY <1>1, <1>3, <1>5 DEF FewChildren, One, Two
<1>7. Ancestors
  BY <1>1, <1>2, <1>3 DEF Ancestors, InFront
<1>8. Descriptors(FirstProcess, script)
  <2>1. \A d \in Fds : FirstProcess.fd[d] = IF d <= 2 THEN tty ELSE closed
    BY DEF FirstProcess
  <2>2. Open(FirstProcess, 0 .. 2) /\ FirstProcess.fd[0] = tty /\ FirstProcess.fd[1] = tty
    BY <2>1, Handles DEF Open, Fds
  <2>3. FirstProcess.fd[2] = tty
    BY <2>1 DEF Fds
  <2> QED BY <1>2, <2>2, <2>3 DEF Descriptors, Piping, Holding, Starting
<1>9. Nested
  BY <1>1, <1>2, <1>3 DEF Nested
<1> QED BY <1>1, <1>3, <1>4, <1>6, <1>7, <1>8, <1>9 DEF IInv, InPlace

LEMMA GetcmdIInv ==
  ASSUME IInv, NEW line \in Lines, Getcmd(line)
  PROVE  IInv'
<1>1. 1 \in Pids /\ proc[1].pc = "prompt" /\ script' = Append(script, line) /\ Len(script) < MaxLines
  BY TableAssumption DEF Getcmd, At, Pids
<1>2. /\ Alive(1) /\ Tree /\ Table /\ IsProcess(proc[1]) /\ Descriptors(proc[1], script)
      /\ script \in Seq(Lines)
  BY <1>1, ActorIs DEF IInv, TypeOK
<1>3. script' \in Seq(Lines) /\ Len(script') <= MaxLines
  BY <1>1, <1>2, TableAssumption
<1>4. \A q \in Pids : Alive(q) => Descriptors(proc[q], script')
  BY <1>1, <1>2, LaterLines DEF IInv, InPlace
<1>5. CASE UNCHANGED proc
  <2>1. Tree'
    <3>1. Table'
      BY <1>2, <1>5 DEF Tree, Table
    <3>2. \A q \in Pids : Children(q)' = Children(q) /\ Alive(q)' = Alive(q) /\ InFront(q)' = InFront(q)
      BY <1>5 DEF Children, Alive, InFront
    <3>3. FewChildren'
      BY <1>2, <1>5, <3>2 DEF Tree, FewChildren, Children
    <3>4. Ancestors'
      BY <1>2, <1>5, <3>2 DEF Tree, Ancestors
    <3> QED BY <3>1, <3>3, <3>4 DEF Tree
  <2>2. Nested'
    BY <1>5 DEF IInv, Nested, Alive
  <2> QED BY <1>3, <1>4, <1>5, <2>1, <2>2 DEF IInv, Tree, TypeOK, InPlace, Alive
<1>6. CASE proc' = [proc EXCEPT ![1] = Goto(@, "fork")]
  <2> DEFINE rec == Goto(proc[1], "fork")
  <2>1. /\ Like(proc[1], rec) /\ rec.pc = "fork" /\ rec.cmd = proc[1].cmd
        /\ \A d \in Fds : rec.fd[d] = proc[1].fd[d]
    BY <1>2, GotoIs
  <2> HIDE DEF rec
  <2>2. Descriptors(rec, script')
    <3>1. Open(rec, 0 .. 2) /\ rec.fd[0] = tty /\ rec.fd[1] = tty /\ rec.fd[2] = tty
      BY <1>1, <1>2, <2>1 DEF Descriptors, Open, Fds, Starting
    <3>2. script' # <<>>
      BY <1>1, <1>2
    <3> QED BY <2>1, <3>1, <3>2 DEF Descriptors, Piping, Holding, Starting
  <2>3. /\ proc[1]' = rec /\ proc' = [proc EXCEPT ![1] = proc[1]']
        /\ \A r \in Pids \ {1} : proc[r]' = proc[r]
    BY <1>1, <1>2, <1>6, InTable DEF rec
  <2>4. Same(1)
    BY <2>1, <2>3 DEF Same, Like
  <2>5. Children(1) = {}
    BY <1>1, Childless DEF One, Two
  <2>6. Tree'
    BY <1>1, <1>2, <2>1, <2>3, <2>4, <2>5, TreeMove DEF Fits, One, Two
  <2>7. InPlace'
    BY <1>4, <2>2, <2>3 DEF InPlace, Alive
  <2>8. Nested'
    <3> SUFFICES ASSUME NEW a \in Pids, NEW b \in Pids, Alive(a)', proc[a]'.parent = b,
                        proc[b]'.pc \in Holding
                 PROVE  Under(proc[a]', proc[b]')
      BY DEF Nested
    <3>1. b # 1 /\ proc[b]' = proc[b]
      BY <2>1, <2>3 DEF Holding
    <3>2. Keeps(proc[1], rec)
      BY <1>1, <2>1, KeepsIs DEF Like, Halves, Starting
    <3>3. CASE a = 1
      BY <1>1, <1>2, <2>1, <2>3, <3>1, <3>2, <3>3 DEF IInv, Nested, Keeps, Like
    <3>4. CASE a # 1
      BY <2>3, <3>1, <3>4 DEF IInv, Nested, Alive
    <3> QED BY <3>3, <3>4
  <2> QED BY <1>3, <2>6, <2>7, <2>8 DEF IInv, Tree, TypeOK
<1> QED BY <1>5, <1>6 DEF Getcmd

\* The record of process 1, and of what it forks, at another statement.
LEMMA FirstMoves ==
  ASSUME IInv, proc[1].pc \in {"prompt", "fork", "wait"}, NEW label \in {"exit", "wait", "prompt"}
  PROVE  /\ 1 \in Pids /\ IsProcess(Goto(proc[1], label)) /\ Goto(proc[1], label).pc = label
         /\ Goto(proc[1], label).parent = proc[1].parent /\ Goto(proc[1], label).back = proc[1].back
         /\ Descriptors(Goto(proc[1], label), script) /\ Keeps(proc[1], Goto(proc[1], label))
<1>1. 1 \in Pids
  BY TableAssumption DEF Pids
<1>2. IsProcess(proc[1]) /\ Descriptors(proc[1], script)
  BY <1>1, ActorIs
<1> DEFINE rec == Goto(proc[1], label)
<1>3. /\ Like(proc[1], rec) /\ rec.pc = label /\ rec.cmd = proc[1].cmd
      /\ \A d \in Fds : rec.fd[d] = proc[1].fd[d]
  BY <1>2, GotoIs
<1> HIDE DEF rec
<1>4. Descriptors(rec, script)
  BY <1>2, <1>3 DEF Descriptors, Piping, Holding, Starting, Open, Fds
<1>5. Keeps(proc[1], rec)
  BY <1>3, KeepsIs DEF Like, Halves, Starting
<1> QED BY <1>1, <1>3, <1>4, <1>5 DEF Like, rec

LEMMA EndOfInputIInv == ASSUME IInv, EndOfInput PROVE IInv'
<1>1. proc[1].pc = "prompt" /\ script' = script /\ proc' = [proc EXCEPT ![1] = Goto(proc[1], "exit")]
  BY DEF EndOfInput, At, Move
<1>2. Children(1) = {}
  BY <1>1, Childless, FirstMoves DEF One, Two
<1> QED BY <1>1, <1>2, FirstMoves, MoveIInv

LEMMA WaitJobIInv == ASSUME IInv, WaitJob PROVE IInv'
<1>1. proc[1].pc = "wait" /\ wait4(1, Goto(proc[1], "prompt"))
  BY DEF WaitJob, At
<1> QED BY <1>1, FirstMoves, WaitIInv DEF One, Two

LEMMA StartJobIInv == ASSUME IInv, StartJob PROVE IInv'
<1> DEFINE one == Goto(proc[1], "parse")
           child == [one EXCEPT !.job = Len(script)]
<1>1. 1 \in Pids /\ proc[1].pc = "fork" /\ fork(1, "wait", child)
  BY FirstMoves DEF StartJob, At
<1>2. IsProcess(proc[1]) /\ Descriptors(proc[1], script) /\ proc[1].back \in BOOLEAN
  BY <1>1, ActorIs
<1>3. /\ Like(proc[1], one) /\ one.pc = "parse" /\ one.cmd = proc[1].cmd
      /\ \A d \in Fds : one.fd[d] = proc[1].fd[d]
  BY <1>2, GotoIs
<1> HIDE DEF one
<1>4. /\ IsProcess(child) /\ child.job = Len(script) /\ child.pc = "parse"
      /\ child.back = proc[1].back /\ \A d \in Fds : child.fd[d] = proc[1].fd[d]
  BY <1>3, JobIs DEF Like
<1> HIDE DEF child
<1>5. Descriptors(child, script)
  <2>1. Len(script) \in 1 .. Len(script)
    BY <1>1, <1>2 DEF Descriptors, IInv, TypeOK
  <2> QED BY <1>1, <1>2, <1>4, <2>1 DEF Descriptors, Piping, Holding, Starting, Open, Fds
<1>6. Children(1) = {}
  BY <1>1, Childless DEF One, Two
<1> QED BY <1>1, <1>2, <1>4, <1>5, <1>6, FirstMoves, ForkIInv DEF One, Two, Holding, Halves

-----------------------------------------------------------------------------
(* runcmd.                                                                 *)

\* A process without children goes on.
Busy(q) == proc[q].pc \notin {"none", "zombie", "exit"} \cup One \cup Two

LEMMA StepOn ==
  ASSUME IInv, NEW q \in Pids, Busy(q), script' = script,
         NEW STATE rec, proc' = [proc EXCEPT ![q] = rec],
         IsProcess(rec), rec.parent = proc[q].parent, rec.back = proc[q].back,
         rec.pc \notin {"none", "zombie", "prompt", "fork", "wait"}, Descriptors(rec, script),
         Keeps(proc[q], rec)
  PROVE  IInv'
<1>1. Children(q) = {}
  BY Childless DEF Busy
<1> QED BY <1>1, MoveIInv DEF Busy

LEMMA GivesUp ==
  ASSUME IInv, NEW q \in Pids, Busy(q), proc[q].pc \notin Halves, script' = script,
         proc' = [proc EXCEPT ![q] = Goto(proc[q], "exit")]
  PROVE  IInv'
<1> DEFINE rec == Goto(proc[q], "exit")
<1>1. IsProcess(proc[q]) /\ proc[q].fd[2] = tty
  BY ActorIs DEF Busy, Descriptors
<1>2. Like(proc[q], rec) /\ rec.pc = "exit" /\ rec.cmd = proc[q].cmd /\ rec.fd[2] = tty
  BY <1>1, GotoIs DEF Fds
<1> HIDE DEF rec
<1>3. Descriptors(rec, script)
  BY <1>2 DEF Descriptors, Piping, Holding, Starting
<1>4. Keeps(proc[q], rec)
  BY <1>2, KeepsIs DEF Like, Halves, Starting
<1> QED BY <1>2, <1>3, <1>4, StepOn DEF Like, rec

LEMMA ParseIInv == ASSUME IInv, NEW q \in Pids, Parse(q) PROVE IInv'
<1> DEFINE cmd == Parsed[script[proc[q].job]]
           rec == Runcmd(proc[q], cmd)
<1>1. proc[q].pc = "parse" /\ Busy(q) /\ script' = script
  BY DEF Parse, At, Busy, One, Two, Move
<1>2. IsProcess(proc[q]) /\ Descriptors(proc[q], script) /\ TypeOK
  BY <1>1, ActorIs DEF IInv
<1>3. /\ proc[q].job \in 1 .. Len(script) /\ script[proc[q].job] \in Lines
      /\ proc[q].job \in 1 .. MaxLines
  BY <1>1, <1>2, TableAssumption DEF Descriptors, TypeOK
<1>4. CASE cmd.type = "panic"
  BY <1>1, <1>4, GivesUp DEF Parse, Move, Halves
<1>5. CASE cmd.type # "panic"
  <2>1. cmd \in Commands /\ <<cmd, tty, tty>> \in Wiring(proc[q].job, script[proc[q].job])
    BY <1>3, <1>5, ParserAssumption, WiringAssumption DEF Parsed, Follows
  <2>2. /\ Like(proc[q], rec) /\ rec.pc = "runcmd" /\ rec.cmd = cmd
        /\ \A d \in Fds : rec.fd[d] = proc[q].fd[d]
    BY <1>2, RuncmdIs
  <2>3. proc' = [proc EXCEPT ![q] = rec]
    BY <1>5 DEF Parse, Move
  <2> HIDE DEF cmd, rec
  <2>4. Descriptors(rec, script)
    BY <1>1, <1>2, <1>3, <2>1, <2>2 DEF Descriptors, Piping, Holding, Starting, Open, Fds, Due, Like
  <2>5. Keeps(proc[q], rec)
    BY <1>1, <2>2, KeepsIs DEF Like, Starting
  <2> QED BY <1>1, <2>2, <2>3, <2>4, <2>5, StepOn DEF Like
<1> QED BY <1>4, <1>5

LEMMA ExecveIInv == ASSUME IInv, NEW q \in Pids, Execve(q) PROVE IInv'
<1>1. proc[q].pc = "runcmd" /\ Busy(q) /\ script' = script
  BY DEF Execve, RunsA, At, Busy, One, Two, Move, Fails
<1>2. CASE proc' = [proc EXCEPT ![q] = Goto(proc[q], "exit")]
  BY <1>1, <1>2, GivesUp DEF Halves
<1>3. CASE proc' = [proc EXCEPT ![q] = Goto(proc[q], "out")]
  <2> DEFINE rec == Goto(proc[q], "out")
  <2>1. IsProcess(proc[q]) /\ Descriptors(proc[q], script)
    BY <1>1, ActorIs
  <2>2. /\ Like(proc[q], rec) /\ rec.pc = "out" /\ rec.cmd = proc[q].cmd
        /\ \A d \in Fds : rec.fd[d] = proc[q].fd[d]
    BY <2>1, GotoIs
  <2> HIDE DEF rec
  <2>3. Descriptors(rec, script)
    BY <1>1, <2>1, <2>2 DEF Descriptors, Piping, Holding, Starting, Open, Fds, Due, Like
  <2>4. Keeps(proc[q], rec)
    BY <1>1, <2>2, KeepsIs DEF Like, Halves, Starting
  <2> QED BY <1>1, <1>3, <2>2, <2>3, <2>4, StepOn DEF Like, rec
<1> QED BY <1>2, <1>3 DEF Execve, Move, Fails

LEMMA RedirCloseIInv == ASSUME IInv, NEW q \in Pids, RedirClose(q) PROVE IInv'
<1> DEFINE c == proc[q].cmd
           one == close(proc[q], c.fd)
           rec == Goto(one, "open")
<1>1. /\ proc[q].pc = "runcmd" /\ c.type = "REDIR" /\ Busy(q) /\ script' = script
      /\ proc' = [proc EXCEPT ![q] = rec]
  BY DEF RedirClose, RunsA, At, Busy, One, Two, Move
<1>2. IsProcess(proc[q]) /\ Descriptors(proc[q], script) /\ TypeOK
  BY <1>1, ActorIs DEF IInv
<1>3. c \in Commands /\ c.fd \in {0, 1} /\ proc[q].job \in 1 .. Len(script)
  BY <1>1, <1>2, ParserAssumption DEF Descriptors, Piping, Holding, Starting
<1>4. /\ Like(proc[q], one) /\ one.cmd = c
      /\ \A d \in Fds : one.fd[d] = IF d = c.fd THEN closed ELSE proc[q].fd[d]
  BY <1>2, CloseIs
<1> HIDE DEF one
<1>5. /\ Like(proc[q], rec) /\ rec.pc = "open" /\ rec.cmd = c
      /\ \A d \in Fds : rec.fd[d] = IF d = c.fd THEN closed ELSE proc[q].fd[d]
  BY <1>4, GotoIs DEF Like
<1> HIDE DEF rec
<1>6. Descriptors(rec, script)
  <2>1. <<c.cmd, IF c.fd = 0 THEN <<"file", c.file>> ELSE proc[q].fd[0],
                 IF c.fd = 0 THEN proc[q].fd[1] ELSE <<"file", c.file>>>> \in
           Wiring(proc[q].job, script[proc[q].job])
    BY <1>1, <1>2, <1>3, UnfoldIs DEF Descriptors, Due, TypeOK
  <2>2. Open(rec, (0 .. 2) \ {c.fd})
    BY <1>1, <1>2, <1>3, <1>5 DEF Descriptors, Open, Fds
  <2>3. (c.fd = 0 => rec.fd[1] = proc[q].fd[1]) /\ rec.fd[2] = tty
    BY <1>2, <1>3, <1>5 DEF Fds, Descriptors
  <2>4. c.fd = 1 => rec.fd[0] = proc[q].fd[0]
    BY <1>5 DEF Fds
  <2> HIDE DEF c
  <2> QED BY <1>1, <1>3, <1>5, <2>1, <2>2, <2>3, <2>4 DEF Descriptors, Piping, Holding, Starting, Due, Like
<1>7. Keeps(proc[q], rec)
  BY <1>1, <1>5, KeepsIs DEF Like, Halves, Starting
<1> QED BY <1>1, <1>5, <1>6, <1>7, StepOn DEF Like

LEMMA RedirOpenIInv == ASSUME IInv, NEW q \in Pids, RedirOpen(q) PROVE IInv'
<1> DEFINE c == proc[q].cmd
           file == <<"file", c.file>>
           one == Install(proc[q], file)
           rec == Runcmd(one, c.cmd)
<1>1. /\ proc[q].pc = "open" /\ Busy(q) /\ script' = script
      /\ proc' = [proc EXCEPT ![q] = rec] \/ proc' = [proc EXCEPT ![q] = Goto(proc[q], "exit")]
  BY DEF RedirOpen, At, Busy, One, Two, Move, Fails
<1>2. IsProcess(proc[q]) /\ Descriptors(proc[q], script) /\ TypeOK
  BY <1>1, ActorIs DEF IInv
<1>3. /\ c \in Commands /\ c.fd \in {0, 1} /\ c.cmd \in Commands /\ proc[q].job \in 1 .. Len(script)
      /\ Open(proc[q], (0 .. 2) \ {c.fd})
  BY <1>1, <1>2, ParserAssumption DEF Descriptors, Piping, Holding, Starting
<1>4. /\ Like(proc[q], one)
      /\ \A d \in Fds : one.fd[d] = IF d = c.fd THEN file ELSE proc[q].fd[d]
  <2>1. /\ (0 .. 2) \ {c.fd} \in SUBSET Fds /\ c.fd \in Fds \ ((0 .. 2) \ {c.fd})
        /\ \A e \in Fds \ ((0 .. 2) \ {c.fd}) : c.fd <= e
    BY <1>3 DEF Fds
  <2> QED BY <1>2, <1>3, <2>1, InstallIs
<1> HIDE DEF one
<1>5. /\ Like(proc[q], rec) /\ rec.pc = "runcmd" /\ rec.cmd = c.cmd
      /\ \A d \in Fds : rec.fd[d] = IF d = c.fd THEN file ELSE proc[q].fd[d]
  BY <1>4, RuncmdIs DEF Like
<1> HIDE DEF rec
<1>6. Descriptors(rec, script)
  <2>1. Open(rec, 0 .. 2)
    BY <1>3, <1>5, Handles DEF Open, Fds
  <2>2. /\ rec.fd[0] = IF c.fd = 0 THEN file ELSE proc[q].fd[0]
        /\ rec.fd[1] = IF c.fd = 0 THEN proc[q].fd[1] ELSE file
        /\ rec.fd[2] = tty
    BY <1>2, <1>3, <1>5 DEF Fds, Descriptors
  <2>3. <<c.cmd, rec.fd[0], rec.fd[1]>> \in Due(proc[q], script)
    BY <1>1, <1>2, <2>2 DEF Descriptors
  <2>4. Due(rec, script) = Due(proc[q], script) /\ rec.job = proc[q].job
    BY <1>5 DEF Due, Like
  <2> QED BY <1>3, <1>5, <2>1, <2>2, <2>3, <2>4 DEF Descriptors, Piping, Holding, Starting
<1>7. Keeps(proc[q], rec)
  <2>1. c.cmd \in PartsOf(c)
    BY <1>1, <1>2 DEF Descriptors, PartsOf
  <2> QED BY <1>1, <1>3, <1>5, <2>1, KeepsIs DEF Like, Halves, Starting
<1>8. CASE proc' = [proc EXCEPT ![q] = rec]
  BY <1>1, <1>5, <1>6, <1>7, <1>8, StepOn DEF Like
<1> QED BY <1>1, <1>8, GivesUp DEF Halves

\* The child that runs a part of q's command with q's descriptors, and q at
\* its next statement.
LEMMA Delegate ==
  ASSUME NEW old, NEW typed, IsProcess(old), NEW part \in Commands,
         old.job \in 1 .. Len(typed), Open(old, 0 .. 2),
         <<part, old.fd[0], old.fd[1]>> \in Due(old, typed), old.fd[2] = tty,
         NEW new, new = Runcmd(old, part)
  PROVE  Like(old, new) /\ new.pc = "runcmd" /\ new.cmd = part /\ Descriptors(new, typed)
<1>1. /\ Like(old, new) /\ new.pc = "runcmd" /\ new.cmd = part
      /\ \A d \in Fds : new.fd[d] = old.fd[d]
  BY RuncmdIs
<1>2. Open(new, 0 .. 2) /\ new.fd[0] = old.fd[0] /\ new.fd[1] = old.fd[1] /\ new.fd[2] = tty
  BY <1>1 DEF Open, Fds
<1> QED BY <1>1, <1>2 DEF Descriptors, Piping, Holding, Starting, Due, Like

LEMMA ListForkIInv == ASSUME IInv, NEW q \in Pids, ListFork(q) PROVE IInv'
<1> DEFINE c == proc[q].cmd
           child == Runcmd(proc[q], c.left)
           rec == Goto(proc[q], "listwait")
<1>1. proc[q].pc = "runcmd" /\ Busy(q) /\ c.type = "LIST" /\ fork(q, "listwait", child)
  BY DEF ListFork, RunsA, At, Busy, One, Two
<1>2. IsProcess(proc[q]) /\ Descriptors(proc[q], script) /\ TypeOK /\ proc[q].back \in BOOLEAN
  BY <1>1, ActorIs DEF IInv
<1>3. /\ c \in Commands /\ c.left \in Commands /\ proc[q].job \in 1 .. Len(script)
      /\ Open(proc[q], 0 .. 2) /\ proc[q].fd[2] = tty
      /\ <<c, proc[q].fd[0], proc[q].fd[1]>> \in Due(proc[q], script)
  BY <1>1, <1>2, ParserAssumption DEF Descriptors, Piping, Holding, Starting
<1>4. /\ <<c.left, proc[q].fd[0], proc[q].fd[1]>> \in Due(proc[q], script)
      /\ <<c.right, proc[q].fd[0], proc[q].fd[1]>> \in Due(proc[q], script)
  BY <1>1, <1>2, <1>3, UnfoldIs DEF Descriptors, Due, TypeOK
<1>5. Like(proc[q], child) /\ child.pc = "runcmd" /\ child.cmd = c.left /\ Descriptors(child, script)
  BY <1>2, <1>3, <1>4, Delegate
<1> HIDE DEF child
<1>6. /\ Like(proc[q], rec) /\ rec.pc = "listwait" /\ rec.cmd = c
      /\ \A d \in Fds : rec.fd[d] = proc[q].fd[d]
  BY <1>2, GotoIs
<1> HIDE DEF rec
<1>7. Descriptors(rec, script)
  <2>1. Open(rec, 0 .. 2) /\ rec.fd[0] = proc[q].fd[0] /\ rec.fd[1] = proc[q].fd[1] /\ rec.fd[2] = tty
    BY <1>3, <1>6 DEF Open, Fds
  <2>2. Due(rec, script) = Due(proc[q], script) /\ rec.job = proc[q].job
    BY <1>6 DEF Due, Like
  <2> QED BY <1>1, <1>3, <1>4, <1>6, <2>1, <2>2 DEF Descriptors, Piping, Holding, Starting
<1>8. Children(q) = {}
  BY <1>1, Childless DEF Busy
<1>9. Under(child, proc[q])
  <2>1. Within(c.left, c) /\ Span(c.left) < Span(c)
    BY <1>1, <1>3, PartIsSmaller DEF PartsOf
  <2> QED BY <1>3, <1>5, <2>1 DEF Under, Like, Halves, Starting
<1> QED BY <1>1, <1>2, <1>5, <1>7, <1>8, <1>9, ForkIInv DEF Like, rec, One, Two, Busy, Halves

LEMMA ListWaitIInv == ASSUME IInv, NEW q \in Pids, ListWait(q) PROVE IInv'
<1> DEFINE next == Runcmd(proc[q], proc[q].cmd.right)
<1>1. proc[q].pc = "listwait" /\ wait4(q, next)
  BY DEF ListWait, At
<1>2. IsProcess(proc[q]) /\ Descriptors(proc[q], script)
  BY <1>1, ActorIs
<1>3. /\ proc[q].cmd \in Commands /\ proc[q].cmd.right \in Commands
      /\ proc[q].cmd.right \in PartsOf(proc[q].cmd)
  BY <1>1, <1>2, ParserAssumption DEF Descriptors, Holding, PartsOf
<1>a. /\ proc[q].job \in 1 .. Len(script) /\ Open(proc[q], 0 .. 2) /\ proc[q].fd[2] = tty
      /\ <<proc[q].cmd.right, proc[q].fd[0], proc[q].fd[1]>> \in Due(proc[q], script)
  BY <1>1, <1>2 DEF Descriptors
<1>4. Like(proc[q], next) /\ next.pc = "runcmd" /\ next.cmd = proc[q].cmd.right /\ Descriptors(next, script)
  BY <1>2, <1>3, <1>a, Delegate
<1> HIDE DEF next
<1>5. Keeps(proc[q], next)
  BY <1>1, <1>3, <1>4, KeepsIs DEF Like, Halves, Starting
<1> QED BY <1>1, <1>4, <1>5, WaitIInv DEF Like, One, Two

LEMMA BackIInv == ASSUME IInv, NEW q \in Pids, Back(q) PROVE IInv'
<1> DEFINE c == proc[q].cmd
           one == Runcmd(proc[q], c.cmd)
           child == [one EXCEPT !.back = TRUE]
           rec == Goto(proc[q], "exit")
<1>1. proc[q].pc = "runcmd" /\ Busy(q) /\ c.type = "BACK" /\ fork(q, "exit", child)
  BY DEF Back, RunsA, At, Busy, One, Two
<1>2. IsProcess(proc[q]) /\ Descriptors(proc[q], script) /\ TypeOK
  BY <1>1, ActorIs DEF IInv
<1>3. /\ c \in Commands /\ c.cmd \in Commands /\ proc[q].job \in 1 .. Len(script)
      /\ Open(proc[q], 0 .. 2) /\ proc[q].fd[2] = tty
  BY <1>1, <1>2, ParserAssumption DEF Descriptors, Piping, Holding, Starting
<1>4. <<c.cmd, proc[q].fd[0], proc[q].fd[1]>> \in Due(proc[q], script)
  BY <1>1, <1>2, <1>3, UnfoldIs DEF Descriptors, Due, TypeOK
<1>5. Like(proc[q], one) /\ one.pc = "runcmd" /\ Descriptors(one, script)
  BY <1>2, <1>3, <1>4, Delegate
<1> HIDE DEF one
<1>6. /\ IsProcess(child) /\ child.back = TRUE /\ child.pc = "runcmd" /\ child.cmd = one.cmd
      /\ child.job = one.job /\ child.p = one.p /\ child.fd = one.fd
  BY <1>5, BackIs DEF Like
<1> HIDE DEF child
<1>7. Descriptors(child, script)
  BY <1>5, <1>6, SameDescriptors
<1>8. Like(proc[q], rec) /\ rec.pc = "exit" /\ rec.fd[2] = tty
  BY <1>2, <1>3, GotoIs DEF Fds
<1> HIDE DEF rec
<1>9. Descriptors(rec, script)
  BY <1>8 DEF Descriptors, Piping, Holding, Starting
<1>10. Children(q) = {}
  BY <1>1, Childless DEF Busy
<1> QED BY <1>1, <1>6, <1>7, <1>9, <1>10, ForkIInv DEF rec, Busy, Halves, Holding

LEMMA PipeCreateIInv == ASSUME IInv, NEW q \in Pids, PipeCreate(q) PROVE IInv'
<1> DEFINE c == proc[q].cmd
           r == <<"r", Pipe(proc[q])>>
           w == <<"w", Pipe(proc[q])>>
           half == Install(proc[q], r)
           full == Install(half, w)
           one == Goto(full, "fork1")
           p == <<FreeFd(proc[q]), FreeFd(half)>>
           rec == [one EXCEPT !.p = p]
<1>1. /\ proc[q].pc = "runcmd" /\ Busy(q) /\ c.type = "PIPE" /\ script' = script
      /\ proc' = [proc EXCEPT ![q] = rec] \/ proc' = [proc EXCEPT ![q] = Goto(proc[q], "exit")]
  BY DEF PipeCreate, RunsA, At, Busy, One, Two, Fails
<1>2. IsProcess(proc[q]) /\ Descriptors(proc[q], script) /\ TypeOK
  BY <1>1, ActorIs DEF IInv
<1>3. /\ c \in Commands /\ proc[q].job \in 1 .. Len(script)
      /\ Open(proc[q], 0 .. 2) /\ <<c, proc[q].fd[0], proc[q].fd[1]>> \in Due(proc[q], script)
  BY <1>1, <1>2 DEF Descriptors, Piping, Holding, Starting
<1>4. <<c.left, proc[q].fd[0], w>> \in Due(proc[q], script) /\ <<c.right, r, proc[q].fd[1]>> \in Due(proc[q], script)
  BY <1>1, <1>2, <1>3, UnfoldIs DEF Due, TypeOK, Pipe
<1>5. r # closed /\ w # closed
  BY Handles
<1>6. Pipe(proc[q]) = <<proc[q].job, c>>
  BY DEF Pipe
<1> HIDE DEF r, w, c
<1>7. /\ Like(proc[q], half) /\ half.cmd = proc[q].cmd /\ FreeFd(proc[q]) = 3
      /\ \A d \in Fds : half.fd[d] = IF d = 3 THEN r ELSE proc[q].fd[d]
  <2>1. 0 .. 2 \in SUBSET Fds /\ 3 \in Fds \ (0 .. 2) /\ \A e \in Fds \ (0 .. 2) : 3 <= e
    BY DEF Fds
  <2>2. FreeFd(proc[q]) = 3
    BY <1>3, <2>1, FreeIs
  <2> QED BY <1>2, <1>3, <2>1, <2>2, InstallIs
<1> HIDE DEF half
<1>8. /\ Like(proc[q], full) /\ full.cmd = proc[q].cmd /\ FreeFd(half) = 4
      /\ \A d \in Fds : full.fd[d] = IF d = 4 THEN w ELSE half.fd[d]
  <2>1. 0 .. 3 \in SUBSET Fds /\ 4 \in Fds \ (0 .. 3) /\ \A e \in Fds \ (0 .. 3) : 4 <= e
    BY DEF Fds
  <2>2. Open(half, 0 .. 3)
    BY <1>3, <1>5, <1>7 DEF Open, Fds
  <2>3. FreeFd(half) = 4
    BY <2>1, <2>2, FreeIs
  <2>4. IsProcess(half)
    BY <1>7 DEF Like
  <2>5. Like(half, full) /\ full.cmd = half.cmd /\ \A d \in Fds : full.fd[d] = IF d = 4 THEN w ELSE half.fd[d]
    BY <2>1, <2>2, <2>4, InstallIs
  <2> QED BY <1>7, <2>3, <2>5 DEF Like
<1> HIDE DEF full
<1>9. /\ Like(proc[q], one) /\ one.pc = "fork1" /\ one.cmd = proc[q].cmd
      /\ \A d \in Fds : one.fd[d] = full.fd[d]
  <2>1. IsProcess(full)
    BY <1>8 DEF Like
  <2>2. /\ Like(full, one) /\ one.pc = "fork1" /\ one.cmd = full.cmd
        /\ \A d \in Fds : one.fd[d] = full.fd[d]
    BY <2>1, GotoIs
  <2> QED BY <1>8, <2>2 DEF Like
<1> HIDE DEF one
<1>10. /\ IsProcess(rec) /\ rec.p = <<3, 4>> /\ rec.pc = "fork1" /\ rec.cmd = c
       /\ rec.job = proc[q].job /\ rec.parent = proc[q].parent /\ rec.back = proc[q].back
       /\ \A d \in Fds : rec.fd[d] = IF d = 4 THEN w ELSE IF d = 3 THEN r ELSE proc[q].fd[d]
  <2>1. IsProcess(one)
    BY <1>9 DEF Like
  <2>2. /\ IsProcess(rec) /\ rec.p = p /\ rec.pc = one.pc /\ rec.cmd = one.cmd
        /\ rec.job = one.job /\ rec.parent = one.parent /\ rec.back = one.back /\ rec.fd = one.fd
    BY <2>1, ArrayIs
  <2> QED BY <1>7, <1>8, <1>9, <2>2 DEF Like, c
<1> HIDE DEF p, rec
<1>11. Descriptors(rec, script)
  <2>1. /\ Open(rec, Fds) /\ rec.fd[0] = proc[q].fd[0] /\ rec.fd[1] = proc[q].fd[1]
        /\ rec.fd[3] = r /\ rec.fd[4] = w /\ rec.fd[2] = proc[q].fd[2]
    BY <1>3, <1>5, <1>10 DEF Open, Fds
  <2>3. proc[q].fd[2] = tty
    BY <1>2 DEF Descriptors
  <2>2. Due(rec, script) = Due(proc[q], script) /\ <<"r", Pipe(rec)>> = r /\ <<"w", Pipe(rec)>> = w
    BY <1>6, <1>10 DEF Due, Pipe, r, w, c
  <2> QED BY <1>1, <1>3, <1>4, <1>10, <2>1, <2>2, <2>3 DEF Descriptors, Piping, Holding, Starting
<1>12. Keeps(proc[q], rec)
  BY <1>1, <1>10, KeepsIs DEF Halves, c, Starting
<1>13. CASE proc' = [proc EXCEPT ![q] = rec]
  BY <1>1, <1>10, <1>11, <1>12, <1>13, StepOn
<1> QED BY <1>1, <1>13, GivesUp DEF Halves

LEMMA PipeForkIInv == ASSUME IInv, NEW q \in Pids, PipeFork(q) PROVE IInv'
<1>1. proc[q].pc \in {"fork1", "fork2"}
  BY DEF PipeFork, At
<1>2. IsProcess(proc[q]) /\ Descriptors(proc[q], script) /\ proc[q].back \in BOOLEAN
  BY <1>1, ActorIs
<1>3. ASSUME NEW label \in {"fork2", "p1", "l1", "r1"},
             NEW STATE rec, rec = Goto(proc[q], label)
      PROVE  /\ IsProcess(rec) /\ rec.pc = label /\ rec.back = proc[q].back
             /\ Descriptors(rec, script) /\ (label \in Halves => Under(rec, proc[q]))
  <2>1. /\ Like(proc[q], rec) /\ rec.pc = label /\ rec.cmd = proc[q].cmd
        /\ \A d \in Fds : rec.fd[d] = proc[q].fd[d]
    BY <1>2, <1>3, GotoIs
  <2>2. \A d \in {0, 1, 2, 3, 4} : rec.fd[d] = proc[q].fd[d]
    BY <2>1 DEF Fds
  <2>3. Open(rec, Fds)
    BY <1>1, <1>2, <2>1 DEF Descriptors, Open
  <2>4. Due(rec, script) = Due(proc[q], script) /\ Pipe(rec) = Pipe(proc[q])
    BY <2>1 DEF Due, Pipe, Like
  <2>5. Descriptors(rec, script)
    BY <1>1, <1>2, <2>1, <2>2, <2>3, <2>4 DEF Descriptors, Piping, Holding, Starting, Like
  <2>6. proc[q].cmd \in Commands
    BY <1>1, <1>2 DEF Descriptors, Piping
  <2> QED BY <2>1, <2>5, <2>6 DEF Like, Under, Halves, Starting
<1>4. CASE proc[q].pc = "fork1"
  <2> DEFINE child == Goto(proc[q], "l1")
  <2>1. fork(q, "fork2", child)
    BY <1>4 DEF PipeFork, At
  <2>2. /\ IsProcess(child) /\ child.pc = "l1" /\ child.back = proc[q].back
        /\ Descriptors(child, script) /\ Under(child, proc[q])
    BY <1>3 DEF Halves
  <2>3. Descriptors(Goto(proc[q], "fork2"), script)
    BY <1>3
  <2>4. Children(q) = {}
    BY <1>4, Childless DEF One, Two
  <2> HIDE DEF child
  <2> QED BY <1>2, <1>4, <2>1, <2>2, <2>3, <2>4, ForkIInv DEF One, Halves
<1>5. CASE proc[q].pc = "fork2"
  <2> DEFINE child == Goto(proc[q], "r1")
  <2>1. fork(q, "p1", child)
    BY <1>5 DEF PipeFork, At
  <2>2. /\ IsProcess(child) /\ child.pc = "r1" /\ child.back = proc[q].back
        /\ Descriptors(child, script) /\ Under(child, proc[q])
    BY <1>3 DEF Halves
  <2>3. Descriptors(Goto(proc[q], "p1"), script)
    BY <1>3
  <2>4. \A b, d \in Children(q) : b = d
    BY <1>5 DEF IInv, FewChildren, One
  <2> HIDE DEF child
  <2> QED BY <1>2, <1>5, <2>1, <2>2, <2>3, <2>4, ForkIInv DEF Two, Halves
<1> QED BY <1>1, <1>4, <1>5

\* close and dup, and then the next statement.
LEMMA CloseGoto ==
  ASSUME NEW rec, IsProcess(rec), NEW d, NEW label, NEW new, new = Goto(close(rec, d), label)
  PROVE  /\ Like(rec, new) /\ new.pc = label /\ new.cmd = rec.cmd
         /\ \A e \in Fds : new.fd[e] = IF e = d THEN closed ELSE rec.fd[e]
<1> DEFINE one == close(rec, d)
<1>1. /\ Like(rec, one) /\ one.cmd = rec.cmd
      /\ \A e \in Fds : one.fd[e] = IF e = d THEN closed ELSE rec.fd[e]
  BY CloseIs
<1> HIDE DEF one
<1>2. IsProcess(one) /\ new = Goto(one, label)
  BY <1>1 DEF Like, one
<1> QED BY <1>1, <1>2, GotoIs DEF Like

LEMMA CloseRuncmd ==
  ASSUME NEW rec, IsProcess(rec), NEW d, NEW cmd, NEW new, new = Runcmd(close(rec, d), cmd)
  PROVE  /\ Like(rec, new) /\ new.pc = "runcmd" /\ new.cmd = cmd
         /\ \A e \in Fds : new.fd[e] = IF e = d THEN closed ELSE rec.fd[e]
<1> DEFINE one == close(rec, d)
<1>1. Like(rec, one) /\ \A e \in Fds : one.fd[e] = IF e = d THEN closed ELSE rec.fd[e]
  BY CloseIs
<1> HIDE DEF one
<1>2. IsProcess(one) /\ new = Runcmd(one, cmd)
  BY <1>1 DEF Like, one
<1> QED BY <1>1, <1>2, RuncmdIs DEF Like

\* Only d is free, so dup(from) makes it a copy of from.
LEMMA DupGoto ==
  ASSUME NEW rec, IsProcess(rec), NEW d \in Fds, Open(rec, Fds \ {d}), NEW from, NEW label,
         NEW new, new = Goto(dup(rec, from), label)
  PROVE  /\ Like(rec, new) /\ new.pc = label /\ new.cmd = rec.cmd
         /\ \A e \in Fds : new.fd[e] = IF e = d THEN rec.fd[from] ELSE rec.fd[e]
<1> DEFINE one == dup(rec, from)
<1>1. Fds \ {d} \in SUBSET Fds /\ d \in Fds \ (Fds \ {d}) /\ \A e \in Fds \ (Fds \ {d}) : d <= e
  BY DEF Fds
<1>2. one = Install(rec, rec.fd[from])
  BY DEF dup
<1>3. /\ Like(rec, one) /\ one.cmd = rec.cmd
      /\ \A e \in Fds : one.fd[e] = IF e = d THEN rec.fd[from] ELSE rec.fd[e]
  BY <1>1, <1>2, InstallIs
<1> HIDE DEF one
<1>4. IsProcess(one) /\ new = Goto(one, label)
  BY <1>3 DEF Like, one
<1> QED BY <1>3, <1>4, GotoIs DEF Like

LEMMA PipeLeftIInv == ASSUME IInv, NEW q \in Pids, PipeLeft(q) PROVE IInv'
<1> DEFINE old == proc[q]
<1>1. old.pc \in {"l1", "l2", "l3", "l4"} /\ Busy(q) /\ script' = script
  BY DEF PipeLeft, At, Busy, One, Two, Move
<1>2. IsProcess(old) /\ Descriptors(old, script)
  BY <1>1, ActorIs
<1>3. /\ old.p[1] = 3 /\ old.p[2] = 4 /\ old.cmd \in Commands /\ old.cmd.type = "PIPE"
      /\ old.p = <<3, 4>> /\ old.job \in 1 .. Len(script) /\ old.cmd.left \in Commands
  BY <1>1, <1>2, ParserAssumption DEF Descriptors, Piping, Holding, Starting
<1>4. ASSUME NEW STATE rec, proc' = [proc EXCEPT ![q] = rec], Like(old, rec),
             \/ rec.pc \in {"l2", "l3", "l4"} /\ rec.cmd = old.cmd
             \/ rec.pc = "runcmd" /\ rec.cmd = old.cmd.left,
             Descriptors(rec, script)
      PROVE  IInv'
  <2>1. Keeps(old, rec)
    BY <1>1, <1>3, <1>4, KeepsIs DEF Like, Halves, PartsOf, Starting
  <2> QED BY <1>1, <1>4, <2>1, StepOn DEF Like
<1>5. CASE old.pc = "l1"
  <2> DEFINE rec == Goto(close(old, 1), "l2")
  <2>1. proc' = [proc EXCEPT ![q] = rec]
    BY <1>5 DEF PipeLeft, At, Move
  <2>2. /\ Like(old, rec) /\ rec.pc = "l2" /\ rec.cmd = old.cmd
        /\ \A e \in Fds : rec.fd[e] = IF e = 1 THEN closed ELSE old.fd[e]
    BY <1>2, CloseGoto
  <2> HIDE DEF rec
  <2>3. Open(rec, Fds \ {1}) /\ rec.fd[2] = old.fd[2] /\ rec.fd[0] = old.fd[0] /\ rec.fd[4] = old.fd[4]
    BY <1>2, <1>5, <2>2 DEF Descriptors, Open, Fds
  <2>4. Descriptors(rec, script)
    BY <1>2, <1>3, <1>5, <2>2, <2>3 DEF Descriptors, Piping, Holding, Starting, Like, Due, Pipe
  <2> QED BY <1>4, <2>1, <2>2, <2>4
<1>6. CASE old.pc = "l2"
  <2> DEFINE rec == Goto(dup(old, 4), "l3")
  <2>1. proc' = [proc EXCEPT ![q] = rec]
    BY <1>3, <1>6 DEF PipeLeft, At, Move
  <2>2. Open(old, Fds \ {1}) /\ old.fd[4] = <<"w", Pipe(old)>>
    BY <1>2, <1>6 DEF Descriptors
  <2>3. 1 \in Fds
    BY DEF Fds
  <2>4. /\ Like(old, rec) /\ rec.pc = "l3" /\ rec.cmd = old.cmd
        /\ \A e \in Fds : rec.fd[e] = IF e = 1 THEN old.fd[4] ELSE old.fd[e]
    BY <1>2, <2>2, <2>3, DupGoto
  <2> HIDE DEF rec
  <2>5. Open(rec, Fds) /\ rec.fd[2] = old.fd[2] /\ rec.fd[0] = old.fd[0] /\ rec.fd[1] = <<"w", Pipe(old)>>
    BY <2>2, <2>4, Handles DEF Open, Fds
  <2>6. Descriptors(rec, script)
    BY <1>2, <1>3, <1>6, <2>4, <2>5 DEF Descriptors, Piping, Holding, Starting, Like, Due
  <2> QED BY <1>4, <2>1, <2>4, <2>6
<1>7. CASE old.pc = "l3"
  <2> DEFINE rec == Goto(close(old, 3), "l4")
  <2>1. proc' = [proc EXCEPT ![q] = rec]
    BY <1>3, <1>7 DEF PipeLeft, At, Move
  <2>2. /\ Like(old, rec) /\ rec.pc = "l4" /\ rec.cmd = old.cmd
        /\ \A e \in Fds : rec.fd[e] = IF e = 3 THEN closed ELSE old.fd[e]
    BY <1>2, CloseGoto
  <2> HIDE DEF rec
  <2>3. Open(rec, Fds \ {3}) /\ rec.fd[2] = old.fd[2] /\ rec.fd[0] = old.fd[0] /\ rec.fd[1] = old.fd[1]
    BY <1>2, <1>7, <2>2 DEF Descriptors, Open, Fds
  <2>4. Descriptors(rec, script)
    BY <1>2, <1>3, <1>7, <2>2, <2>3 DEF Descriptors, Piping, Holding, Starting, Like, Due
  <2> QED BY <1>4, <2>1, <2>2, <2>4
<1>8. CASE old.pc = "l4"
  <2> DEFINE rec == Runcmd(close(old, 4), old.cmd.left)
  <2>1. proc' = [proc EXCEPT ![q] = rec]
    BY <1>3, <1>8 DEF PipeLeft, At, Move
  <2>2. /\ Like(old, rec) /\ rec.pc = "runcmd" /\ rec.cmd = old.cmd.left
        /\ \A e \in Fds : rec.fd[e] = IF e = 4 THEN closed ELSE old.fd[e]
    BY <1>2, CloseRuncmd
  <2> HIDE DEF rec
  <2>3. Open(rec, 0 .. 2) /\ rec.fd[2] = old.fd[2] /\ rec.fd[0] = old.fd[0] /\ rec.fd[1] = old.fd[1]
    BY <1>2, <1>8, <2>2 DEF Descriptors, Open, Fds
  <2>4. Descriptors(rec, script)
    BY <1>2, <1>3, <1>8, <2>2, <2>3 DEF Descriptors, Piping, Holding, Starting, Like, Due
  <2> QED BY <1>4, <2>1, <2>2, <2>4
<1> QED BY <1>1, <1>5, <1>6, <1>7, <1>8

LEMMA PipeRightIInv == ASSUME IInv, NEW q \in Pids, PipeRight(q) PROVE IInv'
<1> DEFINE old == proc[q]
<1>1. old.pc \in {"r1", "r2", "r3", "r4"} /\ Busy(q) /\ script' = script
  BY DEF PipeRight, At, Busy, One, Two, Move
<1>2. IsProcess(old) /\ Descriptors(old, script)
  BY <1>1, ActorIs
<1>3. /\ old.p[1] = 3 /\ old.p[2] = 4 /\ old.cmd \in Commands /\ old.cmd.type = "PIPE"
      /\ old.p = <<3, 4>> /\ old.job \in 1 .. Len(script) /\ old.cmd.right \in Commands
  BY <1>1, <1>2, ParserAssumption DEF Descriptors, Piping, Holding, Starting
<1>4. ASSUME NEW STATE rec, proc' = [proc EXCEPT ![q] = rec], Like(old, rec),
             \/ rec.pc \in {"r2", "r3", "r4"} /\ rec.cmd = old.cmd
             \/ rec.pc = "runcmd" /\ rec.cmd = old.cmd.right,
             Descriptors(rec, script)
      PROVE  IInv'
  <2>1. Keeps(old, rec)
    BY <1>1, <1>3, <1>4, KeepsIs DEF Like, Halves, PartsOf, Starting
  <2> QED BY <1>1, <1>4, <2>1, StepOn DEF Like
<1>5. CASE old.pc = "r1"
  <2> DEFINE rec == Goto(close(old, 0), "r2")
  <2>1. proc' = [proc EXCEPT ![q] = rec]
    BY <1>5 DEF PipeRight, At, Move
  <2>2. /\ Like(old, rec) /\ rec.pc = "r2" /\ rec.cmd = old.cmd
        /\ \A e \in Fds : rec.fd[e] = IF e = 0 THEN closed ELSE old.fd[e]
    BY <1>2, CloseGoto
  <2> HIDE DEF rec
  <2>3. Open(rec, Fds \ {0}) /\ rec.fd[2] = old.fd[2] /\ rec.fd[1] = old.fd[1] /\ rec.fd[3] = old.fd[3]
    BY <1>2, <1>5, <2>2 DEF Descriptors, Open, Fds
  <2>4. Descriptors(rec, script)
    BY <1>2, <1>3, <1>5, <2>2, <2>3 DEF Descriptors, Piping, Holding, Starting, Like, Due, Pipe
  <2> QED BY <1>4, <2>1, <2>2, <2>4
<1>6. CASE old.pc = "r2"
  <2> DEFINE rec == Goto(dup(old, 3), "r3")
  <2>1. proc' = [proc EXCEPT ![q] = rec]
    BY <1>3, <1>6 DEF PipeRight, At, Move
  <2>2. Open(old, Fds \ {0}) /\ old.fd[3] = <<"r", Pipe(old)>>
    BY <1>2, <1>6 DEF Descriptors
  <2>3. 0 \in Fds
    BY DEF Fds
  <2>4. /\ Like(old, rec) /\ rec.pc = "r3" /\ rec.cmd = old.cmd
        /\ \A e \in Fds : rec.fd[e] = IF e = 0 THEN old.fd[3] ELSE old.fd[e]
    BY <1>2, <2>2, <2>3, DupGoto
  <2> HIDE DEF rec
  <2>5. Open(rec, Fds) /\ rec.fd[2] = old.fd[2] /\ rec.fd[1] = old.fd[1] /\ rec.fd[0] = <<"r", Pipe(old)>>
    BY <2>2, <2>4, Handles DEF Open, Fds
  <2>6. Descriptors(rec, script)
    BY <1>2, <1>3, <1>6, <2>4, <2>5 DEF Descriptors, Piping, Holding, Starting, Like, Due
  <2> QED BY <1>4, <2>1, <2>4, <2>6
<1>7. CASE old.pc = "r3"
  <2> DEFINE rec == Goto(close(old, 3), "r4")
  <2>1. proc' = [proc EXCEPT ![q] = rec]
    BY <1>3, <1>7 DEF PipeRight, At, Move
  <2>2. /\ Like(old, rec) /\ rec.pc = "r4" /\ rec.cmd = old.cmd
        /\ \A e \in Fds : rec.fd[e] = IF e = 3 THEN closed ELSE old.fd[e]
    BY <1>2, CloseGoto
  <2> HIDE DEF rec
  <2>3. Open(rec, Fds \ {3}) /\ rec.fd[2] = old.fd[2] /\ rec.fd[0] = old.fd[0] /\ rec.fd[1] = old.fd[1]
    BY <1>2, <1>7, <2>2 DEF Descriptors, Open, Fds
  <2>4. Descriptors(rec, script)
    BY <1>2, <1>3, <1>7, <2>2, <2>3 DEF Descriptors, Piping, Holding, Starting, Like, Due
  <2> QED BY <1>4, <2>1, <2>2, <2>4
<1>8. CASE old.pc = "r4"
  <2> DEFINE rec == Runcmd(close(old, 4), old.cmd.right)
  <2>1. proc' = [proc EXCEPT ![q] = rec]
    BY <1>3, <1>8 DEF PipeRight, At, Move
  <2>2. /\ Like(old, rec) /\ rec.pc = "runcmd" /\ rec.cmd = old.cmd.right
        /\ \A e \in Fds : rec.fd[e] = IF e = 4 THEN closed ELSE old.fd[e]
    BY <1>2, CloseRuncmd
  <2> HIDE DEF rec
  <2>3. Open(rec, 0 .. 2) /\ rec.fd[2] = old.fd[2] /\ rec.fd[0] = old.fd[0] /\ rec.fd[1] = old.fd[1]
    BY <1>2, <1>8, <2>2 DEF Descriptors, Open, Fds
  <2>4. Descriptors(rec, script)
    BY <1>2, <1>3, <1>8, <2>2, <2>3 DEF Descriptors, Piping, Holding, Starting, Like, Due
  <2> QED BY <1>4, <2>1, <2>2, <2>4
<1> QED BY <1>1, <1>5, <1>6, <1>7, <1>8

LEMMA PipeParentIInv == ASSUME IInv, NEW q \in Pids, PipeParent(q) PROVE IInv'
<1> DEFINE old == proc[q]
<1>1. old.pc \in {"p1", "p2", "wait1", "wait2"}
  BY DEF PipeParent, At
<1>2. /\ IsProcess(old) /\ Descriptors(old, script) /\ old.job \in 1 .. Len(script)
      /\ old.cmd \in Commands /\ old.fd[2] = tty
      /\ <<old.cmd, old.fd[0], old.fd[1]>> \in Due(old, script)
  BY <1>1, ActorIs DEF Descriptors, Holding
<1>3. ASSUME NEW rec, Like(old, rec), rec.cmd = old.cmd,
             rec.pc \in {"p2", "wait1", "wait2", "exit"}
      PROVE  /\ IsProcess(rec) /\ rec.parent = old.parent /\ rec.back = old.back
             /\ rec.job = old.job /\ Keeps(old, rec) /\ Due(rec, script) = Due(old, script)
  BY <1>1, <1>3, KeepsIs DEF Halves, Like, Due, Starting
<1>4. CASE old.pc = "p1"
  <2> DEFINE rec == Goto(close(old, 3), "p2")
  <2>1. old.p = <<3, 4>> /\ old.cmd.type = "PIPE" /\ Open(old, Fds)
    BY <1>2, <1>4 DEF Descriptors
  <2>2. proc' = [proc EXCEPT ![q] = rec] /\ script' = script
    BY <1>4, <2>1 DEF PipeParent, At, Move
  <2>3. /\ Like(old, rec) /\ rec.pc = "p2" /\ rec.cmd = old.cmd
        /\ \A e \in Fds : rec.fd[e] = IF e = 3 THEN closed ELSE old.fd[e]
    BY <1>2, CloseGoto
  <2> HIDE DEF rec
  <2>4. Open(rec, Fds \ {3}) /\ rec.fd[2] = old.fd[2] /\ rec.fd[0] = old.fd[0] /\ rec.fd[1] = old.fd[1]
    BY <2>1, <2>3 DEF Open, Fds
  <2>5. /\ IsProcess(rec) /\ rec.parent = old.parent /\ rec.back = old.back
        /\ rec.job = old.job /\ Keeps(old, rec) /\ Due(rec, script) = Due(old, script)
    BY <1>3, <2>3
  <2>6. Descriptors(rec, script)
    BY <1>2, <2>1, <2>3, <2>4, <2>5 DEF Descriptors, Piping, Holding, Starting, Like
  <2> QED BY <1>4, <2>2, <2>3, <2>5, <2>6, MoveIInv DEF Two
<1>5. CASE old.pc = "p2"
  <2> DEFINE rec == Goto(close(old, 4), "wait1")
  <2>1. old.p = <<3, 4>> /\ Open(old, Fds \ {3})
    BY <1>2, <1>5 DEF Descriptors
  <2>2. proc' = [proc EXCEPT ![q] = rec] /\ script' = script
    BY <1>5, <2>1 DEF PipeParent, At, Move
  <2>3. /\ Like(old, rec) /\ rec.pc = "wait1" /\ rec.cmd = old.cmd
        /\ \A e \in Fds : rec.fd[e] = IF e = 4 THEN closed ELSE old.fd[e]
    BY <1>2, CloseGoto
  <2> HIDE DEF rec
  <2>4. Open(rec, 0 .. 2) /\ rec.fd[2] = old.fd[2] /\ rec.fd[0] = old.fd[0] /\ rec.fd[1] = old.fd[1]
    BY <2>1, <2>3 DEF Open, Fds
  <2>5. /\ IsProcess(rec) /\ rec.parent = old.parent /\ rec.back = old.back
        /\ rec.job = old.job /\ Keeps(old, rec) /\ Due(rec, script) = Due(old, script)
    BY <1>3, <2>3
  <2>6. Descriptors(rec, script)
    BY <1>2, <2>3, <2>4, <2>5 DEF Descriptors, Piping, Holding, Starting
  <2> QED BY <1>5, <2>2, <2>3, <2>5, <2>6, MoveIInv DEF Two
<1>6. CASE old.pc \in {"wait1", "wait2"}
  <2> DEFINE label == IF old.pc = "wait1" THEN "wait2" ELSE "exit"
             rec == Goto(old, label)
  <2>1. wait4(q, rec)
    BY <1>6 DEF PipeParent, At
  <2>2. /\ Like(old, rec) /\ rec.pc = label /\ rec.cmd = old.cmd
        /\ \A e \in Fds : rec.fd[e] = old.fd[e]
    BY <1>2, GotoIs
  <2>3. /\ old.pc = "wait1" => label = "wait2"
        /\ old.pc # "wait1" => label = "exit"
    OBVIOUS
  <2> HIDE DEF rec, label
  <2>4. Open(rec, 0 .. 2) /\ rec.fd[2] = old.fd[2] /\ rec.fd[0] = old.fd[0] /\ rec.fd[1] = old.fd[1]
    BY <1>2, <1>6, <2>2 DEF Open, Fds, Descriptors
  <2>5. /\ IsProcess(rec) /\ rec.parent = old.parent /\ rec.back = old.back
        /\ rec.job = old.job /\ Keeps(old, rec) /\ Due(rec, script) = Due(old, script)
    BY <1>3, <1>6, <2>2, <2>3
  <2>6. Descriptors(rec, script)
    BY <1>2, <1>6, <2>2, <2>3, <2>4, <2>5 DEF Descriptors, Piping, Holding, Starting
  <2> QED BY <1>6, <2>1, <2>2, <2>3, <2>5, <2>6, WaitIInv DEF One, Two
<1> QED BY <1>1, <1>4, <1>5, <1>6

LEMMA ProgramIInv ==
  ASSUME IInv, NEW q \in Pids, Write(q) \/ Read(q) \/ StopEarly(q)
  PROVE  IInv'
<1> DEFINE old == proc[q]
<1>1. old.pc \in {"out", "in"} /\ Busy(q) /\ script' = script
  BY DEF Write, Read, StopEarly, At, Move, SetPipe, exit, Busy, One, Two
<1>2. IsProcess(old) /\ Descriptors(old, script)
  BY <1>1, ActorIs
<1>3. ASSUME NEW label \in {"out", "in"}, proc' = [proc EXCEPT ![q] = Goto(proc[q], label)]
      PROVE  IInv'
  <2> DEFINE rec == Goto(old, label)
  <2>1. /\ Like(old, rec) /\ rec.pc = label /\ rec.cmd = old.cmd
        /\ \A d \in Fds : rec.fd[d] = old.fd[d]
    BY <1>2, GotoIs
  <2>2. proc' = [proc EXCEPT ![q] = rec]
    BY <1>3
  <2> HIDE DEF rec
  <2>3. Descriptors(rec, script)
    <3>1. /\ Open(rec, 0 .. 2) /\ rec.fd[0] = old.fd[0] /\ rec.fd[1] = old.fd[1]
          /\ rec.job \in 1 .. Len(script) /\ rec.fd[2] = tty
      BY <1>1, <1>2, <2>1 DEF Descriptors, Open, Fds, Like
    <3>2. <<rec.cmd, rec.fd[0], rec.fd[1]>> \in Due(rec, script)
      BY <1>1, <1>2, <2>1, <3>1 DEF Descriptors, Due, Like
    <3> QED BY <2>1, <3>1, <3>2 DEF Descriptors, Piping, Holding, Starting
  <2>4. Keeps(old, rec)
    BY <1>1, <2>1, KeepsIs DEF Halves, Like, Starting
  <2> QED BY <1>1, <2>1, <2>2, <2>3, <2>4, StepOn DEF Like
<1>4. CASE proc' = [proc EXCEPT ![q] = Goto(proc[q], "exit")]
  BY <1>1, <1>4, GivesUp DEF Halves
<1>5. CASE old.pc = "out" /\ exit(q)
  BY <1>5, ExitIInv
<1>6. \/ \E label \in {"out", "in"} : proc' = [proc EXCEPT ![q] = Goto(proc[q], label)]
      \/ proc' = [proc EXCEPT ![q] = Goto(proc[q], "exit")]
      \/ old.pc = "out" /\ exit(q)
  BY DEF Write, Read, StopEarly, At, Move, SetPipe
<1> QED BY <1>3, <1>4, <1>5, <1>6

-----------------------------------------------------------------------------
(* What a line means: which commands share a pipe.                         *)

\* A set of naturals that is not empty has a least element.
LEMMA LeastNatural ==
  ASSUME NEW T, T \subseteq Nat, T # {}
  PROVE  \E l \in T : \A k \in T : l <= k
<1>1. PICK l \in T : \A k \in T : ~(<<k, l>> \in OpToRel(<, Nat))
  BY WFMin, NatLessThanWellFounded
<1>2. ASSUME NEW k \in T PROVE l <= k
  <2>1. <<k, l>> \in Nat \X Nat /\ l \in Nat /\ k \in Nat
    OBVIOUS
  <2>2. ~(k < l)
    BY <1>1, <2>1 DEF OpToRel
  <2> QED BY <2>1, <2>2
<1> QED BY <1>2

LEMMA Places ==
  ASSUME NEW c \in Commands
  PROVE  From(c) \in Nat /\ To(c) \in Nat /\ From(c) <= To(c)
BY PlacesAssumption

LEMMA WithinIs ==
  ASSUME NEW a \in Commands, NEW b \in Commands, NEW c \in Commands
  PROVE  Within(a, a) /\ (Within(a, b) /\ Within(b, c) => Within(a, c))
<1>1. \A k \in {a, b, c} : From(k) \in Nat /\ To(k) \in Nat
  BY Places
<1> QED BY <1>1 DEF Within

\* The sides of a PIPE: all words of the left one come first.
LEMMA Sides ==
  ASSUME NEW c \in Commands, c.type = "PIPE"
  PROVE  /\ c.left \in Commands /\ c.right \in Commands
         /\ Within(c.left, c) /\ Within(c.right, c) /\ To(c.left) < From(c.right)
<1>1. c.left \in Commands /\ c.right \in Commands
  BY ParserAssumption
<1>2. c.left \in PartsOf(c) /\ c.right \in PartsOf(c)
  BY DEF PartsOf
<1> QED BY <1>1, <1>2, PlacesAssumption

\* A command reads from a pipe only if it is on the right of it, and writes to
\* it only if it is on the left.
Source(job, W, c, h) ==
  /\ h[1] # "w"
  /\ h[1] = "r" => \E G \in Commands : /\ h = <<"r", <<job, G>>>> /\ G.type = "PIPE"
                                       /\ Within(c, G.right) /\ \E y \in W : y[1] = G
Sink(job, c, h) ==
  /\ h[1] # "r"
  /\ h[1] = "w" => \E F \in Commands : /\ h = <<"w", <<job, F>>>> /\ F.type = "PIPE"
                                       /\ Within(c, F.left)
\* What is on the left of a PIPE writes to it or to a pipe further inside.
Inside(job, W, c, h) ==
  \A y \in W : y[1].type = "PIPE" /\ Within(c, y[1].left) =>
    \A F : h = <<"w", <<job, F>>>> => F = y[1] \/ Within(F, y[1].left)
Meant(job, line, c, in, out) ==
  LET W == Wiring(job, line)
  IN  /\ c \in Commands /\ parse(line) \in Commands /\ Within(c, parse(line))
      /\ Source(job, W, c, in) /\ Sink(job, c, out) /\ Inside(job, W, c, out)

LEMMA PlainHandles ==
  /\ tty[1] = "tty" /\ \A x : tty # <<"w", x>> /\ tty # <<"r", x>>
  /\ \A x : <<"file", x>>[1] = "file" /\ <<"r", x>>[1] = "r" /\ <<"w", x>>[1] = "w"
BY DEF tty

\* A part of a command inherits its input and output.
LEMMA SourceOfPart ==
  ASSUME NEW job, NEW W, NEW c \in Commands, NEW h, Source(job, W, c, h), NEW part \in Commands, Within(part, c)
  PROVE  Source(job, W, part, h)
<1> SUFFICES ASSUME h[1] = "r"
             PROVE  \E G \in Commands : /\ h = <<"r", <<job, G>>>> /\ G.type = "PIPE"
                                        /\ Within(part, G.right) /\ \E y \in W : y[1] = G
  BY DEF Source
<1>1. PICK G \in Commands : /\ h = <<"r", <<job, G>>>> /\ G.type = "PIPE"
                            /\ Within(c, G.right) /\ \E y \in W : y[1] = G
  BY DEF Source
<1>2. Within(part, G.right)
  BY <1>1, Sides, WithinIs
<1> QED BY <1>1, <1>2

LEMMA SinkOfPart ==
  ASSUME NEW job, NEW c \in Commands, NEW h, Sink(job, c, h), NEW part \in Commands, Within(part, c)
  PROVE  Sink(job, part, h)
<1> SUFFICES ASSUME h[1] = "w"
             PROVE  \E F \in Commands : /\ h = <<"w", <<job, F>>>> /\ F.type = "PIPE"
                                        /\ Within(part, F.left)
  BY DEF Sink
<1>1. PICK F \in Commands : h = <<"w", <<job, F>>>> /\ F.type = "PIPE" /\ Within(c, F.left)
  BY DEF Sink
<1>2. Within(part, F.left)
  BY <1>1, Sides, WithinIs
<1> QED BY <1>1, <1>2

\* One step of Unfold.
LEMMA MeantOfPart ==
  ASSUME NEW job \in 1 .. MaxLines, NEW line \in Lines, NEW x \in Wiring(job, line),
         Meant(job, line, x[1], x[2], x[3]), NEW z \in Unfold(job, x[1], x[2], x[3])
  PROVE  Meant(job, line, z[1], z[2], z[3])
<1> DEFINE W == Wiring(job, line)
           c == x[1]
           part == z[1]
<1>1. /\ c \in Commands /\ parse(line) \in Commands /\ Within(c, parse(line))
      /\ Source(job, W, c, x[2]) /\ Sink(job, c, x[3]) /\ Inside(job, W, c, x[3])
  BY DEF Meant
<1>2. c.type \in {"EXEC", "REDIR", "PIPE", "LIST", "BACK"}
  BY <1>1, ParserAssumption
<1>3. /\ part \in PartsOf(c) /\ part \in Commands
      /\ \/ z[2] = x[2]
         \/ z[2][1] = "file"
         \/ c.type = "PIPE" /\ part = c.right /\ z[2] = <<"r", <<job, c>>>>
      /\ \/ z[3] = x[3] /\ (c.type = "PIPE" => part = c.right)
         \/ z[3][1] = "file"
         \/ c.type = "PIPE" /\ part = c.left /\ z[3] = <<"w", <<job, c>>>>
  <2>1. CASE c.type = "REDIR"
    BY <1>1, <2>1, ParserAssumption DEF Unfold, PartsOf
  <2>2. CASE c.type = "LIST"
    BY <1>1, <2>2, ParserAssumption DEF Unfold, PartsOf
  <2>3. CASE c.type = "PIPE"
    BY <1>1, <2>3, ParserAssumption DEF Unfold, PartsOf
  <2>4. CASE c.type = "BACK"
    BY <1>1, <2>4, ParserAssumption DEF Unfold, PartsOf
  <2>5. CASE c.type = "EXEC"
    BY <2>5 DEF Unfold
  <2> QED BY <1>2, <2>1, <2>2, <2>3, <2>4, <2>5
<1> HIDE DEF part
<1>4. Within(part, c)
  BY <1>1, <1>3, PlacesAssumption
<1>5. Within(part, parse(line))
  BY <1>1, <1>3, <1>4, WithinIs
<1>6. Source(job, W, part, z[2])
  <2>1. CASE z[2] = x[2]
    BY <1>1, <1>3, <1>4, <2>1, SourceOfPart
  <2>2. CASE z[2][1] = "file"
    BY <2>2 DEF Source
  <2>3. CASE c.type = "PIPE" /\ part = c.right /\ z[2] = <<"r", <<job, c>>>>
    <3>1. z[2][1] = "r" /\ Within(part, c.right)
      BY <1>3, <2>3, WithinIs
    <3> QED BY <1>1, <2>3, <3>1 DEF Source
  <2> QED BY <1>3, <2>1, <2>2, <2>3
<1>7. Sink(job, part, z[3])
  <2>1. CASE z[3] = x[3]
    BY <1>1, <1>3, <1>4, <2>1, SinkOfPart
  <2>2. CASE z[3][1] = "file"
    BY <2>2 DEF Sink
  <2>3. CASE c.type = "PIPE" /\ part = c.left /\ z[3] = <<"w", <<job, c>>>>
    <3>1. z[3][1] = "w" /\ Within(part, c.left)
      BY <1>3, <2>3, WithinIs
    <3> QED BY <1>1, <2>3, <3>1 DEF Sink
  <2> QED BY <1>3, <2>1, <2>2, <2>3
<1>8. Inside(job, W, part, z[3])
  <2> SUFFICES ASSUME NEW y \in W, y[1].type = "PIPE", Within(part, y[1].left), NEW F, z[3] = <<"w", <<job, F>>>>
               PROVE  F = y[1] \/ Within(F, y[1].left)
    BY DEF Inside
  <2>1. c = y[1] \/ Within(c, y[1].left)
    BY <1>3, PlacesAssumption
  <2>2. CASE z[3] = x[3] /\ (c.type = "PIPE" => part = c.right)
    <3>1. c # y[1]
      <4> SUFFICES ASSUME c = y[1] PROVE FALSE
        OBVIOUS
      <4>1. Within(c.right, c.left) /\ To(c.left) < From(c.right) /\ c.left \in Commands /\ c.right \in Commands
        BY <1>1, <2>2, Sides
      <4> QED BY <4>1, Places DEF Within
    <3> QED BY <1>1, <2>1, <2>2, <3>1 DEF Inside
  <2>3. CASE z[3][1] = "file"
    BY <2>3
  <2>4. CASE z[3] = <<"w", <<job, c>>>>
    <3>1. F = c
      BY <2>4
    <3> QED BY <2>1, <3>1
  <2> QED BY <1>3, <2>2, <2>3, <2>4
<1> QED BY <1>1, <1>3, <1>5, <1>6, <1>7, <1>8 DEF Meant, part

\* All that follows from a line is meant so, as nothing else is in Wiring.
LEMMA WiringIsMeant ==
  ASSUME NEW job \in 1 .. MaxLines, NEW line \in Lines, NEW x \in Wiring(job, line)
  PROVE  Meant(job, line, x[1], x[2], x[3])
<1> DEFINE W == Wiring(job, line)
           M == {y \in W : Meant(job, line, y[1], y[2], y[3])}
<1>1. /\ parse(line) \in Commands => <<parse(line), tty, tty>> \in W
      /\ \A y \in W : Unfold(job, y[1], y[2], y[3]) \subseteq W
      /\ \A V \in SUBSET W : Follows(job, line, V) => V = W
  BY WiringAssumption DEF Follows
<1>2. parse(line) \in Commands => <<parse(line), tty, tty>> \in M
  <2> SUFFICES ASSUME parse(line) \in Commands PROVE Meant(job, line, parse(line), tty, tty)
    BY <1>1
  <2>1. Source(job, W, parse(line), tty) /\ Sink(job, parse(line), tty) /\ Inside(job, W, parse(line), tty)
    BY PlainHandles DEF Source, Sink, Inside
  <2>2. Within(parse(line), parse(line))
    BY WithinIs
  <2> QED BY <2>1, <2>2 DEF Meant
<1>3. ASSUME NEW y \in M PROVE Unfold(job, y[1], y[2], y[3]) \subseteq M
  BY <1>1, <1>3, MeantOfPart
<1>4. Follows(job, line, M)
  BY <1>2, <1>3 DEF Follows
<1>5. M = W
  <2>1. M \in SUBSET W
    OBVIOUS
  <2> HIDE DEF M, W
  <2> QED BY <1>1, <1>4, <2>1
<1> QED BY <1>5

-----------------------------------------------------------------------------
(* Nobody can go on: what the processes would be waiting for.              *)

LEMMA InitContents == Init => Contents
BY DEF Init, Contents

LEMMA NextContents == Contents /\ [Next]_vars => Contents'
<1> SUFFICES ASSUME Contents, [Next]_vars PROVE Contents'
  OBVIOUS
<1>1. ASSUME NEW x, NEW k, x \in Pipes => k \in Nat, pipes' = [pipes EXCEPT ![x] = k]
      PROVE  Contents'
  BY <1>1 DEF Contents
<1>2. CASE pipes' = pipes
  BY <1>2 DEF Contents
<1>3. ASSUME NEW q \in Pids, Write(q) PROVE Contents'
  <2> DEFINE x == proc[q].fd[1][2]
  <2>1. pipes' = pipes \/ pipes' = [pipes EXCEPT ![x] = pipes[x] + 1]
    BY <1>3 DEF Write, Move, exit, SetPipe
  <2>2. x \in Pipes => pipes[x] + 1 \in Nat
    BY DEF Contents
  <2> QED BY <1>1, <1>2, <2>1, <2>2
<1>4. ASSUME NEW q \in Pids, Read(q) PROVE Contents'
  <2> DEFINE x == proc[q].fd[0][2]
  <2>1. pipes' = pipes \/ (pipes[x] > 0 /\ pipes' = [pipes EXCEPT ![x] = pipes[x] - 1])
    BY <1>4 DEF Read, Move, SetPipe
  <2>2. x \in Pipes /\ pipes[x] > 0 => pipes[x] - 1 \in Nat
    BY DEF Contents
  <2> QED BY <1>1, <1>2, <2>1, <2>2
<1>5. ASSUME NEW q \in Pids, PipeCreate(q) PROVE Contents'
  <2>1. pipes' = pipes \/ pipes' = [pipes EXCEPT ![Pipe(proc[q])] = 0]
    BY <1>5 DEF PipeCreate, Fails
  <2> QED BY <1>1, <1>2, <2>1
<1>6. ASSUME NEW q \in Pids, Step(q) \/ StopEarly(q), ~Write(q), ~Read(q), ~PipeCreate(q)
      PROVE  pipes' = pipes
  <2>1. CASE Parse(q) \/ Execve(q) \/ RedirClose(q) \/ RedirOpen(q) \/ StopEarly(q)
    BY <2>1 DEF Parse, Execve, RedirClose, RedirOpen, StopEarly, Move, Fails
  <2>2. CASE ListFork(q) \/ ListWait(q) \/ Back(q) \/ Exit(q)
    BY <2>2 DEF ListFork, ListWait, Back, Exit, fork, wait4, exit, Fails
  <2>3. CASE PipeFork(q) \/ PipeLeft(q) \/ PipeRight(q) \/ PipeParent(q)
    BY <2>3 DEF PipeFork, PipeLeft, PipeRight, PipeParent, Move, fork, wait4, Fails
  <2> QED BY <1>6, <2>1, <2>2, <2>3 DEF Step
<1>7. CASE EndOfInput \/ StartJob \/ WaitJob \/ (\E line \in Lines : Getcmd(line)) \/ UNCHANGED vars
  <2>1. pipes' = pipes
    BY <1>7 DEF EndOfInput, StartJob, WaitJob, Getcmd, Move, fork, wait4, Fails, vars
  <2> QED BY <1>2, <2>1
<1> QED BY <1>2, <1>3, <1>4, <1>5, <1>6, <1>7 DEF Next

\* A state without a process that can go on; the processes of it but the
\* first; the programs among these.
Stuck == IInv /\ Contents /\ \A q \in Pids : Running(q) => Blocked(q)
Settled(q) == q \in Pids /\ Running(q) /\ proc[q].pc # "wait"
Program(q, job) == Settled(q) /\ proc[q].pc \in {"out", "in"} /\ proc[q].job = job
Line(q) == script[proc[q].job]

LEMMA SettledIs ==
  ASSUME Stuck, NEW q, Settled(q)
  PROVE  /\ Blocked(q) /\ Alive(q) /\ proc[q].pc \in {"listwait", "wait1", "wait2", "out", "in"}
         /\ proc[q].job \in 1 .. MaxLines /\ Line(q) \in Lines /\ proc[q].cmd \in Commands
         /\ Meant(proc[q].job, Line(q), proc[q].cmd, proc[q].fd[0], proc[q].fd[1])
         /\ proc[q].fd[2] = tty /\ proc[q].fd[3] = closed /\ proc[q].fd[4] = closed
<1>1. q \in Pids /\ Blocked(q) /\ Alive(q)
  BY DEF Stuck, Settled, Running
<1>2. proc[q].pc \in {"listwait", "wait1", "wait2", "out", "in"}
  BY <1>1 DEF Blocked, Settled, At
<1>3. Descriptors(proc[q], script) /\ TypeOK
  BY <1>1, <1>2, ActorIs DEF Stuck, IInv
<1>4. /\ proc[q].job \in 1 .. Len(script) /\ Open(proc[q], 0 .. 2) /\ proc[q].fd[2] = tty
      /\ <<proc[q].cmd, proc[q].fd[0], proc[q].fd[1]>> \in Due(proc[q], script)
  BY <1>2, <1>3 DEF Descriptors, Holding
<1>5. proc[q].job \in 1 .. MaxLines /\ Line(q) \in Lines
  BY <1>3, <1>4, TableAssumption DEF TypeOK, Line
<1>6. Meant(proc[q].job, Line(q), proc[q].cmd, proc[q].fd[0], proc[q].fd[1])
  <2> DEFINE x == <<proc[q].cmd, proc[q].fd[0], proc[q].fd[1]>>
  <2>1. x \in Wiring(proc[q].job, Line(q))
    BY <1>4 DEF Due, Line
  <2>2. x[1] = proc[q].cmd /\ x[2] = proc[q].fd[0] /\ x[3] = proc[q].fd[1]
    OBVIOUS
  <2> HIDE DEF x
  <2>3. Meant(proc[q].job, Line(q), x[1], x[2], x[3])
    BY <1>5, <2>1, WiringIsMeant
  <2> QED BY <2>2, <2>3
<1>7. proc[q].fd[3] = closed /\ proc[q].fd[4] = closed
  BY <1>4 DEF Open, Fds
<1>8. proc[q].cmd \in Commands
  BY <1>6 DEF Meant
<1> QED BY <1>1, <1>2, <1>4, <1>5, <1>6, <1>7, <1>8

\* The ends of pipes are where they belong.
LEMMA EndIs ==
  ASSUME Stuck, NEW pipe, NEW end \in {"r", "w"}, HasEnd(pipe, end)
  PROVE  \E q \in Pids : Settled(q) /\ proc[q].fd[IF end = "r" THEN 0 ELSE 1] = <<end, pipe>>
<1>1. PICK q \in Pids, d \in Fds : Alive(q) /\ proc[q].fd[d] = <<end, pipe>>
  BY DEF HasEnd
<1>2. <<end, pipe>> # tty /\ <<end, pipe>> # closed
  BY DEF tty, closed
<1>3. proc[q].pc \notin {"prompt", "wait"}
  <2> SUFFICES ASSUME proc[q].pc \in {"prompt", "wait"} PROVE FALSE
    OBVIOUS
  <2>1. Descriptors(proc[q], script)
    BY ActorIs DEF Stuck
  <2>2. Open(proc[q], 0 .. 2) /\ proc[q].fd[0] = tty /\ proc[q].fd[1] = tty /\ proc[q].fd[2] = tty
    BY <2>1 DEF Descriptors, Starting
  <2>3. proc[q].fd[3] = closed /\ proc[q].fd[4] = closed
    BY <2>2 DEF Open, Fds
  <2>4. d \in {0, 1, 2, 3, 4}
    BY DEF Fds
  <2>5. proc[q].fd[d] \in {tty, closed}
    BY <2>2, <2>3, <2>4
  <2> QED BY <1>1, <1>2, <2>5
<1>4. Settled(q)
  BY <1>1, <1>3 DEF Settled, Running, At
<1>5. d \in {0, 1}
  <2>1. proc[q].fd[2] = tty /\ proc[q].fd[3] = closed /\ proc[q].fd[4] = closed
    BY <1>4, SettledIs
  <2>2. d \in {0, 1, 2, 3, 4}
    BY DEF Fds
  <2>3. proc[q].fd[d] # tty /\ proc[q].fd[d] # closed
    BY <1>1, <1>2
  <2> QED BY <2>1, <2>2, <2>3
<1>6. proc[q].fd[0][1] # "w" /\ proc[q].fd[1][1] # "r"
  BY <1>4, SettledIs DEF Meant, Source, Sink
<1>7. <<end, pipe>>[1] = end
  OBVIOUS
<1>8. d = IF end = "r" THEN 0 ELSE 1
  BY <1>1, <1>5, <1>6, <1>7
<1> QED BY <1>1, <1>4, <1>8

\* Below every process that waits there is a program.
LEMMA ProgramBelow ==
  ASSUME Stuck, NEW q, Settled(q)
  PROVE  \E l : Program(l, proc[q].job) /\ Within(proc[l].cmd, proc[q].cmd)
<1> DEFINE In(r) == /\ Settled(r) /\ proc[r].job = proc[q].job /\ Within(proc[r].cmd, proc[q].cmd)
           T == {Span(proc[r].cmd) : r \in {s \in Pids : In(s)}}
<1>0. proc[q].cmd \in Commands
  BY SettledIs
<1>1. In(q) /\ q \in Pids
  BY <1>0, WithinIs DEF Settled
<1>2. ASSUME NEW r, In(r) PROVE proc[r].cmd \in Commands /\ Span(proc[r].cmd) \in Nat /\ r \in Pids
  <2>1. proc[r].cmd \in Commands
    BY <1>2, SettledIs
  <2>2. From(proc[r].cmd) \in Nat /\ To(proc[r].cmd) \in Nat /\ From(proc[r].cmd) <= To(proc[r].cmd)
    BY <2>1, Places
  <2> QED BY <1>2, <2>1, <2>2 DEF Span, Settled
<1> HIDE DEF In
<1>3. T \subseteq Nat /\ T # {}
  BY <1>1, <1>2
<1>4. PICK least \in T : \A k \in T : least <= k
  BY <1>3, LeastNatural
<1>5. PICK r \in Pids : In(r) /\ Span(proc[r].cmd) = least
  BY <1>4
<1>6. \A s \in Pids : In(s) => Span(proc[r].cmd) <= Span(proc[s].cmd)
  BY <1>4, <1>5
<1>7. Settled(r) /\ proc[r].job = proc[q].job /\ Within(proc[r].cmd, proc[q].cmd)
  BY <1>5 DEF In
<1>8. proc[r].pc \in {"out", "in"}
  <2> SUFFICES ASSUME proc[r].pc \notin {"out", "in"} PROVE FALSE
    OBVIOUS
  <2>1. Blocked(r) /\ proc[r].pc \in {"listwait", "wait1", "wait2"}
    BY <1>7, SettledIs
  <2>2. PICK c \in Children(r) : ~At(c, "zombie")
    BY <2>1 DEF Blocked, At
  <2>3. c \in Pids /\ Alive(c) /\ proc[c].parent = r
    BY <2>2 DEF Children, At, Alive
  <2>4. Under(proc[c], proc[r])
    BY <2>1, <2>3 DEF Stuck, IInv, Nested, Holding
  <2>5. Settled(c)
    BY <2>3, <2>4 DEF Settled, Running, At, Under, Starting
  <2>6. proc[c].pc \notin Halves
    BY <2>5, SettledIs DEF Halves
  <2>7. /\ Within(proc[c].cmd, proc[r].cmd) /\ Span(proc[c].cmd) < Span(proc[r].cmd)
        /\ proc[c].cmd \in Commands /\ proc[r].cmd \in Commands /\ proc[c].job = proc[r].job
    BY <2>4, <2>6 DEF Under
  <2>8. In(c)
    BY <1>0, <1>7, <2>5, <2>7, WithinIs DEF In
  <2>9. Span(proc[r].cmd) \in Nat /\ Span(proc[c].cmd) \in Nat
    BY <1>2, <1>5, <2>8
  <2> QED BY <1>6, <2>3, <2>7, <2>8, <2>9
<1> QED BY <1>7, <1>8 DEF Program

\* A program that reads waits for one on the left of its pipe, which is empty.
LEMMA ReaderWaits ==
  ASSUME Stuck, NEW job, NEW q, Program(q, job), proc[q].pc = "in"
  PROVE  \E G \in Commands :
           /\ G.type = "PIPE" /\ Within(proc[q].cmd, G.right) /\ pipes[<<job, G>>] = 0
           /\ \E y \in Wiring(job, script[job]) : y[1] = G
           /\ \E l : Program(l, job) /\ Within(proc[l].cmd, G.left)
<1> DEFINE h == proc[q].fd[0]
<1>1. Settled(q) /\ proc[q].job = job
  BY DEF Program
<1>2. h[1] = "r" /\ HasEnd(h[2], "w") /\ pipes[h[2]] = 0
  BY <1>1, SettledIs DEF Blocked, At
<1>3. Source(job, Wiring(job, script[job]), proc[q].cmd, h)
  BY <1>1, SettledIs DEF Meant, Line
<1>4. PICK G \in Commands : /\ h = <<"r", <<job, G>>>> /\ G.type = "PIPE" /\ Within(proc[q].cmd, G.right)
                            /\ \E y \in Wiring(job, script[job]) : y[1] = G
  BY <1>2, <1>3 DEF Source
<1>5. h[2] = <<job, G>>
  BY <1>4
<1>6. PICK c \in Pids : Settled(c) /\ proc[c].fd[1] = <<"w", <<job, G>>>>
  <2>1. "w" \in {"r", "w"} /\ HasEnd(<<job, G>>, "w")
    BY <1>2, <1>5
  <2> QED BY <2>1, EndIs
<1>7. proc[c].job = job /\ Within(proc[c].cmd, G.left) /\ proc[c].cmd \in Commands
  <2>1. Sink(proc[c].job, proc[c].cmd, proc[c].fd[1]) /\ proc[c].cmd \in Commands
    BY <1>6, SettledIs DEF Meant
  <2>2. proc[c].fd[1][1] = "w"
    BY <1>6
  <2>3. PICK F \in Commands : proc[c].fd[1] = <<"w", <<proc[c].job, F>>>> /\ Within(proc[c].cmd, F.left)
    BY <2>1, <2>2 DEF Sink
  <2>4. <<proc[c].job, F>> = <<job, G>>
    BY <1>6, <2>3
  <2> QED BY <2>1, <2>3, <2>4
<1>8. PICK l : Program(l, job) /\ Within(proc[l].cmd, proc[c].cmd)
  BY <1>6, <1>7, ProgramBelow
<1>9. Within(proc[l].cmd, G.left)
  <2>1. proc[l].cmd \in Commands /\ G.left \in Commands
    BY <1>4, <1>8, SettledIs, Sides DEF Program
  <2> QED BY <1>7, <1>8, <2>1, WithinIs
<1> QED BY <1>2, <1>4, <1>5, <1>8, <1>9

\* A program that writes waits for one on the right of its pipe, which is full.
LEMMA WriterWaits ==
  ASSUME Stuck, NEW job, NEW q, Program(q, job), proc[q].pc = "out"
  PROVE  \E F \in Commands :
           /\ F.type = "PIPE" /\ Within(proc[q].cmd, F.left) /\ pipes[<<job, F>>] >= CAPACITY
           /\ proc[q].fd[1] = <<"w", <<job, F>>>>
           /\ \E l : Program(l, job) /\ Within(proc[l].cmd, F.right)
<1> DEFINE h == proc[q].fd[1]
<1>1. Settled(q) /\ proc[q].job = job
  BY DEF Program
<1>2. h[1] = "w" /\ HasEnd(h[2], "r") /\ pipes[h[2]] >= CAPACITY
  BY <1>1, SettledIs DEF Blocked, At
<1>3. Sink(job, proc[q].cmd, h)
  BY <1>1, SettledIs DEF Meant
<1>4. PICK F \in Commands : h = <<"w", <<job, F>>>> /\ F.type = "PIPE" /\ Within(proc[q].cmd, F.left)
  BY <1>2, <1>3 DEF Sink
<1>5. h[2] = <<job, F>>
  BY <1>4
<1>6. PICK c \in Pids : Settled(c) /\ proc[c].fd[0] = <<"r", <<job, F>>>>
  <2>1. "r" \in {"r", "w"} /\ HasEnd(<<job, F>>, "r")
    BY <1>2, <1>5
  <2> QED BY <2>1, EndIs
<1>7. proc[c].job = job /\ Within(proc[c].cmd, F.right) /\ proc[c].cmd \in Commands
  <2>1. /\ Source(proc[c].job, Wiring(proc[c].job, Line(c)), proc[c].cmd, proc[c].fd[0])
        /\ proc[c].cmd \in Commands
    BY <1>6, SettledIs DEF Meant
  <2>2. proc[c].fd[0][1] = "r"
    BY <1>6
  <2>3. PICK G \in Commands : proc[c].fd[0] = <<"r", <<proc[c].job, G>>>> /\ Within(proc[c].cmd, G.right)
    BY <2>1, <2>2 DEF Source
  <2>4. <<proc[c].job, G>> = <<job, F>>
    BY <1>6, <2>3
  <2> QED BY <2>1, <2>3, <2>4
<1>8. PICK l : Program(l, job) /\ Within(proc[l].cmd, proc[c].cmd)
  BY <1>6, <1>7, ProgramBelow
<1>9. Within(proc[l].cmd, F.right)
  <2>1. proc[l].cmd \in Commands /\ F.right \in Commands
    BY <1>4, <1>8, SettledIs, Sides DEF Program
  <2> QED BY <1>7, <1>8, <2>1, WithinIs
<1> QED BY <1>2, <1>4, <1>5, <1>8, <1>9

\* In a stretch of the line the last program to write has a reader outside.
LEMMA LastWriter ==
  ASSUME Stuck, NEW job, NEW stretch \in Commands, NEW first, Program(first, job),
         Within(proc[first].cmd, stretch),
         \A l : Program(l, job) /\ Within(proc[l].cmd, stretch) => proc[l].pc = "out"
  PROVE  \E F \in Commands : \E l, m :
           /\ Program(l, job) /\ Within(proc[l].cmd, stretch) /\ proc[l].fd[1] = <<"w", <<job, F>>>>
           /\ F.type = "PIPE" /\ pipes[<<job, F>>] >= CAPACITY
           /\ Program(m, job) /\ Within(proc[m].cmd, F.right) /\ ~Within(proc[m].cmd, stretch)
<1> DEFINE In(l) == Program(l, job) /\ Within(proc[l].cmd, stretch)
           T == {To(stretch) - From(proc[l].cmd) : l \in {s \in Pids : In(s)}}
<1>1. ASSUME NEW l, In(l)
      PROVE  /\ l \in Pids /\ proc[l].cmd \in Commands
             /\ From(proc[l].cmd) \in Nat /\ To(proc[l].cmd) \in Nat
             /\ From(proc[l].cmd) <= To(proc[l].cmd) /\ To(proc[l].cmd) <= To(stretch)
  <2>1. l \in Pids /\ proc[l].cmd \in Commands
    BY <1>1, SettledIs DEF Program, Settled
  <2> QED BY <1>1, <2>1, Places DEF Within
<1>2. To(stretch) \in Nat
  BY Places
<1>3. T \subseteq Nat /\ T # {}
  <2>1. ASSUME NEW l \in Pids, In(l) PROVE To(stretch) - From(proc[l].cmd) \in Nat
    BY <1>1, <1>2, <2>1
  <2>2. first \in Pids /\ In(first)
    BY DEF Program, Settled
  <2> HIDE DEF In
  <2> QED BY <2>1, <2>2
<1>4. PICK least \in T : \A k \in T : least <= k
  BY <1>3, LeastNatural
<1>5. PICK l \in Pids : In(l) /\ To(stretch) - From(proc[l].cmd) = least
  BY <1>4
<1>6. ASSUME NEW m, In(m) PROVE From(proc[m].cmd) <= From(proc[l].cmd)
  <2>1. To(stretch) - From(proc[l].cmd) <= To(stretch) - From(proc[m].cmd)
    BY <1>1, <1>4, <1>5, <1>6
  <2> QED BY <1>1, <1>2, <1>5, <1>6, <2>1
<1>7. Program(l, job) /\ Within(proc[l].cmd, stretch) /\ proc[l].pc = "out"
  BY <1>5
<1>8. PICK F \in Commands :
        /\ F.type = "PIPE" /\ Within(proc[l].cmd, F.left) /\ pipes[<<job, F>>] >= CAPACITY
        /\ proc[l].fd[1] = <<"w", <<job, F>>>>
        /\ \E m : Program(m, job) /\ Within(proc[m].cmd, F.right)
  BY <1>7, WriterWaits
<1>9. PICK m : Program(m, job) /\ Within(proc[m].cmd, F.right)
  BY <1>8
<1>10. ~Within(proc[m].cmd, stretch)
  <2> SUFFICES ASSUME Within(proc[m].cmd, stretch) PROVE FALSE
    OBVIOUS
  <2>1. In(m)
    BY <1>9
  <2>2. /\ F.left \in Commands /\ F.right \in Commands /\ To(F.left) < From(F.right)
        /\ To(F.left) \in Nat /\ From(F.right) \in Nat
    BY <1>8, Sides, Places
  <2>3. To(proc[l].cmd) <= To(F.left) /\ From(F.right) <= From(proc[m].cmd)
    BY <1>8, <1>9 DEF Within
  <2>4. From(proc[m].cmd) <= From(proc[l].cmd)
    BY <1>6, <2>1
  <2>5. /\ From(proc[l].cmd) \in Nat /\ To(proc[l].cmd) \in Nat /\ From(proc[m].cmd) \in Nat
        /\ From(proc[l].cmd) <= To(proc[l].cmd)
    BY <1>1, <1>5, <2>1
  <2> QED BY <2>2, <2>3, <2>4, <2>5
<1> QED BY <1>7, <1>8, <1>9, <1>10

\* Of the programs of a line that read, the first one has only writers on the
\* left of its pipe.
LEMMA FirstReader ==
  ASSUME Stuck, NEW job, NEW some, Program(some, job), proc[some].pc = "in"
  PROVE  \E q : /\ Program(q, job) /\ proc[q].pc = "in"
                /\ \A l : Program(l, job) /\ From(proc[l].cmd) < From(proc[q].cmd) => proc[l].pc = "out"
<1> DEFINE In(l) == Program(l, job) /\ proc[l].pc = "in"
           T == {From(proc[l].cmd) : l \in {s \in Pids : In(s)}}
<1>1. ASSUME NEW l, Program(l, job)
      PROVE  l \in Pids /\ From(proc[l].cmd) \in Nat
  BY <1>1, SettledIs, Places DEF Program, Settled
<1>2. T \subseteq Nat /\ T # {}
  BY <1>1
<1>3. PICK least \in T : \A k \in T : least <= k
  BY <1>2, LeastNatural
<1>4. PICK q \in Pids : In(q) /\ From(proc[q].cmd) = least
  BY <1>3
<1>5. ASSUME NEW l, Program(l, job), From(proc[l].cmd) < From(proc[q].cmd)
      PROVE  proc[l].pc = "out"
  <2> SUFFICES ASSUME proc[l].pc = "in" PROVE FALSE
    BY <1>5 DEF Program
  <2>1. From(proc[q].cmd) <= From(proc[l].cmd)
    BY <1>1, <1>3, <1>4, <1>5
  <2> QED BY <1>1, <1>4, <1>5, <2>1
<1> QED BY <1>4, <1>5

\* There is no such state: the pipes would have to be full and empty.
LEMMA NotStuck ==
  ASSUME Stuck, NEW q, Settled(q)
  PROVE  FALSE
<1> DEFINE job == proc[q].job
           line == script[job]
<1>1. job \in 1 .. MaxLines /\ line \in Lines /\ parse(line) \in Commands
  BY SettledIs DEF Line, Meant
<1>2. ASSUME NEW l, Program(l, job)
      PROVE  /\ proc[l].cmd \in Commands /\ Within(proc[l].cmd, parse(line))
             /\ Inside(job, Wiring(job, line), proc[l].cmd, proc[l].fd[1])
             /\ From(proc[l].cmd) \in Nat /\ To(proc[l].cmd) \in Nat
             /\ From(proc[l].cmd) <= To(proc[l].cmd)
  <2>1. Settled(l) /\ proc[l].job = job
    BY <1>2 DEF Program
  <2>2. /\ proc[l].cmd \in Commands /\ Within(proc[l].cmd, parse(line))
        /\ Inside(job, Wiring(job, line), proc[l].cmd, proc[l].fd[1])
    BY <2>1, SettledIs DEF Meant, Line
  <2> QED BY <2>2, Places
<1>3. PICK first : Program(first, job)
  BY ProgramBelow
<1> HIDE DEF job, line
<1>4. CASE \E some : Program(some, job) /\ proc[some].pc = "in"
  <2>1. PICK r : /\ Program(r, job) /\ proc[r].pc = "in"
                 /\ \A l : Program(l, job) /\ From(proc[l].cmd) < From(proc[r].cmd) => proc[l].pc = "out"
    BY <1>4, FirstReader
  <2>2. PICK G \in Commands :
          /\ G.type = "PIPE" /\ Within(proc[r].cmd, G.right) /\ pipes[<<job, G>>] = 0
          /\ \E y \in Wiring(job, script[job]) : y[1] = G
          /\ \E l : Program(l, job) /\ Within(proc[l].cmd, G.left)
    BY <2>1, ReaderWaits
  <2>3. /\ G.left \in Commands /\ G.right \in Commands /\ To(G.left) < From(G.right)
        /\ To(G.left) \in Nat /\ From(G.right) \in Nat
    BY <2>2, Sides, Places
  <2>4. ASSUME NEW l, Program(l, job), Within(proc[l].cmd, G.left) PROVE proc[l].pc = "out"
    <3>1. To(proc[l].cmd) <= To(G.left) /\ From(G.right) <= From(proc[r].cmd)
      BY <2>2, <2>4 DEF Within
    <3>2. From(proc[l].cmd) < From(proc[r].cmd)
      BY <1>2, <2>1, <2>3, <2>4, <3>1
    <3> QED BY <2>1, <2>4, <3>2
  <2>5. PICK b : Program(b, job) /\ Within(proc[b].cmd, G.left)
    BY <2>2
  <2>6. PICK F \in Commands : \E l, m :
          /\ Program(l, job) /\ Within(proc[l].cmd, G.left) /\ proc[l].fd[1] = <<"w", <<job, F>>>>
          /\ F.type = "PIPE" /\ pipes[<<job, F>>] >= CAPACITY
          /\ Program(m, job) /\ Within(proc[m].cmd, F.right) /\ ~Within(proc[m].cmd, G.left)
    <3>1. \A l : Program(l, job) /\ Within(proc[l].cmd, G.left) => proc[l].pc = "out"
      BY <2>4
    <3> QED BY <2>3, <2>5, <3>1, LastWriter
  <2>7. PICK l, m :
          /\ Program(l, job) /\ Within(proc[l].cmd, G.left) /\ proc[l].fd[1] = <<"w", <<job, F>>>>
          /\ F.type = "PIPE" /\ pipes[<<job, F>>] >= CAPACITY
          /\ Program(m, job) /\ Within(proc[m].cmd, F.right) /\ ~Within(proc[m].cmd, G.left)
    BY <2>6
  <2>8. F # G
    BY <2>2, <2>7, TableAssumption
  <2>9. Within(F, G.left)
    <3>1. Inside(job, Wiring(job, line), proc[l].cmd, proc[l].fd[1])
      BY <1>2, <2>7
    <3>2. PICK y \in Wiring(job, line) : y[1] = G
      BY <2>2 DEF line
    <3> QED BY <2>2, <2>7, <2>8, <3>1, <3>2 DEF Inside
  <2>10. Within(proc[m].cmd, G.left)
    <3>1. F.right \in Commands /\ Within(F.right, F) /\ proc[m].cmd \in Commands
      BY <1>2, <2>7, Sides
    <3>2. Within(proc[m].cmd, F)
      BY <2>7, <3>1, WithinIs
    <3> QED BY <2>3, <2>9, <3>1, <3>2, WithinIs
  <2> QED BY <2>7, <2>10
<1>5. CASE ~\E some : Program(some, job) /\ proc[some].pc = "in"
  <2>1. \A l : Program(l, job) => proc[l].pc = "out" /\ Within(proc[l].cmd, parse(line))
    BY <1>2, <1>5 DEF Program
  <2>2. PICK F \in Commands : \E l, m :
          /\ Program(l, job) /\ Within(proc[l].cmd, parse(line)) /\ proc[l].fd[1] = <<"w", <<job, F>>>>
          /\ F.type = "PIPE" /\ pipes[<<job, F>>] >= CAPACITY
          /\ Program(m, job) /\ Within(proc[m].cmd, F.right) /\ ~Within(proc[m].cmd, parse(line))
    BY <1>1, <1>3, <2>1, LastWriter
  <2> QED BY <2>1, <2>2
<1> QED BY <1>4, <1>5

-----------------------------------------------------------------------------
(* The theorems.                                                           *)

LEMMA NextIInv == IInv /\ [Next]_vars => IInv'
<1> SUFFICES ASSUME IInv, [Next]_vars PROVE IInv'
  OBVIOUS
<1>1. ASSUME NEW line \in Lines, Getcmd(line) PROVE IInv'
  BY <1>1, GetcmdIInv
<1>2. CASE EndOfInput \/ StartJob \/ WaitJob
  BY <1>2, EndOfInputIInv, StartJobIInv, WaitJobIInv
<1>3. ASSUME NEW q \in Pids, Step(q) \/ StopEarly(q) PROVE IInv'
  <2>1. CASE Parse(q) \/ Execve(q) \/ RedirClose(q) \/ RedirOpen(q)
    BY <2>1, ParseIInv, ExecveIInv, RedirCloseIInv, RedirOpenIInv
  <2>2. CASE ListFork(q) \/ ListWait(q) \/ Back(q)
    BY <2>2, ListForkIInv, ListWaitIInv, BackIInv
  <2>3. CASE PipeCreate(q) \/ PipeFork(q) \/ PipeLeft(q) \/ PipeRight(q) \/ PipeParent(q)
    BY <2>3, PipeCreateIInv, PipeForkIInv, PipeLeftIInv, PipeRightIInv, PipeParentIInv
  <2>4. CASE Exit(q)
    BY <2>4, ExitIInv DEF Exit, At
  <2>5. CASE Write(q) \/ Read(q) \/ StopEarly(q)
    BY <2>5, ProgramIInv
  <2> QED BY <1>3, <2>1, <2>2, <2>3, <2>4, <2>5 DEF Step
<1>4. CASE UNCHANGED vars
  <2>1. proc' = proc /\ script' = script
    BY <1>4 DEF vars
  <2>2. \A q \in Pids : Children(q)' = Children(q) /\ Alive(q)' = Alive(q) /\ InFront(q)' = InFront(q)
    BY <2>1 DEF Children, Alive, InFront
  <2>3. TypeOK'
    BY <2>1 DEF IInv, TypeOK, Table
  <2>4. FewChildren'
    BY <2>1, <2>2 DEF IInv, FewChildren, Children
  <2>5. Ancestors' /\ InPlace'
    BY <2>1, <2>2 DEF IInv, Ancestors, InPlace
  <2>6. Nested'
    BY <2>1, <2>2 DEF IInv, Nested
  <2> QED BY <2>3, <2>4, <2>5, <2>6 DEF IInv
<1> QED BY <1>1, <1>2, <1>3, <1>4 DEF Next

\* The processes that runcmd and _start fork are a tree, in which nobody has
\* more children than it waits for, and at every system call the descriptors
\* are the ones its code counts on: for all lines, trees of commands, failing
\* calls and orders of the processes.
THEOREM Invariance == Spec => []IInv
<1> QED BY InitIInv, NextIInv, PTL DEF Spec

\* runcmd starts every program with the input and output that its line says
\* and with no other descriptor.
THEOREM ProgramsAreWired == Spec => []Wired
<1>1. IInv => Wired
  <2> SUFFICES ASSUME IInv, NEW q \in Pids, proc[q].pc \in {"out", "in"}
               PROVE  /\ \A d \in Fds : proc[q].fd[d] = closed <=> d > 2
                      /\ <<proc[q].cmd, proc[q].fd[0], proc[q].fd[1]>> \in
                           Wiring(proc[q].job, script[proc[q].job])
    BY DEF Wired
  <2>1. Descriptors(proc[q], script)
    BY ActorIs
  <2> QED BY <2>1 DEF Descriptors, Open, Due, Fds
<1> QED BY <1>1, Invariance, PTL

\* When _start asks for the next line, only background processes are left of
\* the earlier ones, and it has reaped what it forked.
THEOREM PromptWaits == Spec => []PromptMeansDone
<1>1. IInv => PromptMeansDone
  <2> SUFFICES ASSUME IInv, proc[1].pc = "prompt"
               PROVE  Children(1) = {} /\ \A q \in Pids \ {1} : Alive(q) => proc[q].back
    BY DEF PromptMeansDone, At
  <2>1. 1 \in Pids /\ Alive(1)
    BY TableAssumption DEF Pids, Alive
  <2>2. Children(1) = {}
    BY <2>1, Childless DEF One, Two
  <2> DEFINE S == {q \in Pids \ {1} : InFront(q)}
  <2>3. S = {}
    <3> SUFFICES ASSUME S # {} PROVE FALSE
      OBVIOUS
    <3>1. PICK q \in S : proc[q].parent \notin S
      <4>1. S \in SUBSET (Pids \ {1}) /\ \A q \in S : InFront(q)
        OBVIOUS
      <4> HIDE DEF S
      <4> QED BY <4>1 DEF IInv, Ancestors
    <3>2. q \in Pids \ {1} /\ Alive(q) /\ ~proc[q].back /\ proc[q].parent \in Pids
      BY <3>1 DEF IInv, Ancestors, InFront
    <3> DEFINE r == proc[q].parent
    <3>3. q \in Children(r)
      BY <3>2 DEF Children, Alive
    <3>4. Alive(r)
      BY <3>2, <3>3, Childless DEF Alive, One, Two
    <3>5. ~proc[r].back
      BY <3>2, <3>4 DEF IInv, Ancestors
    <3>6. r = 1
      BY <3>1, <3>2, <3>4, <3>5 DEF InFront
    <3> QED BY <2>2, <3>3, <3>6
  <2> QED BY <2>2, <2>3 DEF InFront
<1> QED BY <1>1, Invariance, PTL

\* However commands nest, whatever fails and in whatever order the processes
\* run, runcmd never makes them all wait for each other: the parents at
\* wait4, the writers of full pipes and the readers of empty ones.
THEOREM NobodyDeadlocks == Spec => []NoDeadlock
<1>1. IInv /\ Contents => NoDeadlock
  <2> SUFFICES ASSUME IInv, Contents, NEW q \in Pids, Running(q),
                      \A r \in Pids : Running(r) => Blocked(r)
               PROVE  FALSE
    BY DEF NoDeadlock
  <2>1. Stuck
    BY DEF Stuck
  <2>2. CASE proc[q].pc # "wait"
    BY <2>1, <2>2, NotStuck DEF Settled
  <2>3. CASE proc[q].pc = "wait"
    <3>1. PICK c \in Children(q) : ~At(c, "zombie")
      BY <2>3 DEF Blocked, At
    <3>2. c \in Pids /\ Alive(c) /\ proc[c].parent = q
      BY <3>1 DEF Children, At, Alive
    <3>3. q = 1 /\ c # q
      BY <2>3, <3>2, AliveIs DEF IInv, TypeOK, FewChildren, init, Pids
    <3>4. proc[c].pc \notin {"prompt", "wait"}
      BY <3>2, <3>3 DEF IInv, FewChildren
    <3> QED BY <2>1, <3>2, <3>4, NotStuck DEF Settled, Running, At
  <2> QED BY <2>2, <2>3
<1>2. Spec => []Contents
  BY InitContents, NextContents, PTL DEF Spec
<1> QED BY <1>1, <1>2, Invariance, PTL
=============================================================================
