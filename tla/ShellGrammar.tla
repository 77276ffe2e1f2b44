---------------------------- MODULE ShellGrammar ----------------------------
(***************************************************************************)
(* The language of the shell as a grammar, without a parser:               *)
(*    line   ::=  jobs  |  jobs ; line          jobs ::=  pipe  |  jobs &   *)
(*    pipe   ::=  exec  |  exec | pipe                                      *)
(*    exec   ::=  (words and redirections in any order)                     *)
(*             |  ( line ) redirections                                     *)
(* XTrees(s) is the set of all trees the tokens at the places lo .. hi of  *)
(* the line have as an X: empty if they are no X, and with more than one   *)
(* element if the grammar is ambiguous.  The parser is compared with it on *)
(* every short line.                                                       *)
(***************************************************************************)
EXTENDS ShellParser, SequencesExt

IsRedir(tok) == tok \in {"<", ">", ">>"}

\* The places lo .. hi hold words and redirections, each with its file.
Plain(buf, lo, hi) ==
  \A k \in lo .. hi : \/ IsWord(buf[k])
                      \/ IsRedir(buf[k]) /\ k < hi /\ IsWord(buf[k + 1])

IsFile(buf, lo, k) == k > lo /\ IsRedir(buf[k - 1])

\* cmd inside the redirections of lo .. hi; the first one is the innermost.
Redirected(buf, lo, hi, cmd) ==
  FoldLeft(LAMBDA c, k : [type |-> "REDIR", cmd |-> c, file |-> k + 1, mode |-> buf[k],
                          fd |-> IF buf[k] = "<" THEN 0 ELSE 1],
           cmd,
           SetToSortSeq({k \in lo .. hi : IsRedir(buf[k])}, LAMBDA j, k : j < k))

Arguments(buf, lo, hi) ==
  SetToSortSeq({k \in lo .. hi : IsWord(buf[k]) /\ ~IsFile(buf, lo, k)}, LAMBDA j, k : j < k)

RECURSIVE LineTrees(_, _, _)
ExecTrees(buf, lo, hi) ==
  {Redirected(buf, lo, hi, [type |-> "EXEC", argv |-> Arguments(buf, lo, hi)]) :
     x \in {y \in {0} : Plain(buf, lo, hi) /\ Len(Arguments(buf, lo, hi)) < MAXARGS}}
  \cup
  UNION {{Redirected(buf, m + 1, hi, c) : c \in LineTrees(buf, lo + 1, m - 1)} :
           m \in {k \in lo + 1 .. hi : /\ buf[lo] = "(" /\ buf[k] = ")"
                                       /\ Plain(buf, k + 1, hi)
                                       /\ Arguments(buf, k + 1, hi) = <<>>}}

RECURSIVE PipeTrees(_, _, _)
PipeTrees(buf, lo, hi) ==
  ExecTrees(buf, lo, hi) \cup
  UNION {{[type |-> "PIPE", left |-> l, right |-> r] :
            l \in ExecTrees(buf, lo, m - 1), r \in PipeTrees(buf, m + 1, hi)} :
           m \in {k \in lo .. hi : buf[k] = "|"}}

RECURSIVE JobTrees(_, _, _)
JobTrees(buf, lo, hi) ==
  PipeTrees(buf, lo, hi) \cup
  IF lo <= hi /\ buf[hi] = "&"
    THEN {[type |-> "BACK", cmd |-> c] : c \in JobTrees(buf, lo, hi - 1)}
    ELSE {}

LineTrees(buf, lo, hi) ==
  JobTrees(buf, lo, hi) \cup
  UNION {{[type |-> "LIST", left |-> l, right |-> r] :
            l \in JobTrees(buf, lo, m - 1), r \in LineTrees(buf, m + 1, hi)} :
           m \in {k \in lo .. hi : buf[k] = ";"}}

Trees(buf) == LineTrees(buf, 1, Len(buf))

\* The memory a tree takes.
RECURSIVE Size(_)
Size(cmd) == CASE cmd.type = "EXEC" -> 8 + 16 * MAXARGS
               [] cmd.type = "REDIR" -> 40 + Size(cmd.cmd)
               [] cmd.type \in {"PIPE", "LIST"} -> 24 + Size(cmd.left) + Size(cmd.right)
               [] cmd.type = "BACK" -> 16 + Size(cmd.cmd)

-----------------------------------------------------------------------------
\* The parser accepts a line exactly if the grammar derives it and its tree
\* fits into `mem'; the tree is then the only one the line has.
ParsedAsDerived(line) ==
  LET cmd == parsecmd(line)
      fits == {c \in Trees(line) : Size(c) < MEMSIZE}
  IN  IF cmd.type = "panic" THEN fits = {} ELSE fits = {cmd} /\ Trees(line) = {cmd}

\* Every word of an accepted line gets a NUL after it.
AllTerminated(line) ==
  parsecmd(line).type # "panic" =>
    nulterminate(parsecmd(line)) = {k \in DOMAIN line : IsWord(line[k])}
=============================================================================
