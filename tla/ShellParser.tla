---------------------------- MODULE ShellParser ----------------------------
(***************************************************************************)
(* The parser of unix-shell/sh-xv6.c (lines 9-43, 92-99, 200-444).  `buf'  *)
(* is the line as a sequence of tokens: what gettoken makes of a run of    *)
(* characters.  A symbol stands for itself; everything else is a word.     *)
(* Words are known by their place in the line, since argv[] and eargv[]    *)
(* are pointers into it.                                                   *)
(*                                                                         *)
(* A parse function takes and returns the state of the parse:              *)
(*   pos   *ps, the place of the next token     mem   freem - mem          *)
(*   cmd   the command built so far             ok    no assertion failed  *)
(* After a failed assertion (the process exits) nothing changes any more.  *)
(***************************************************************************)
EXTENDS Integers, Sequences

CONSTANTS MAXARGS,              \* #define MAXARGS
          MEMSIZE               \* sizeof(mem)

Symbols == {"<", "|", ">", ">>", "&", ";", "(", ")"}
IsWord(tok) == tok \notin Symbols

Panic(s) == [s EXCEPT !.ok = FALSE]

\* Is there a next token, and is it one of toks?
peek(buf, s, toks) == s.ok /\ s.pos <= Len(buf) /\ buf[s.pos] \in toks

\* gettoken() where the kind of the token is known.
gettoken(s) == [s EXCEPT !.pos = @ + 1]

\* zalloc() and the assignments to the new node.
zalloc(s, size, cmd) ==
  IF s.ok /\ s.mem + size < MEMSIZE
    THEN [s EXCEPT !.cmd = cmd, !.mem = @ + size]
    ELSE Panic(s)

\* The constructors.  The sizes are those of the structs on x86-64.
execcmd(s) == zalloc(s, 8 + 16 * MAXARGS, [type |-> "EXEC", argv |-> <<>>])
redircmd(s, file, mode, fd) ==
  zalloc(s, 40, [type |-> "REDIR", cmd |-> s.cmd, file |-> file, mode |-> mode, fd |-> fd])
pipecmd(left, s) == zalloc(s, 24, [type |-> "PIPE", left |-> left, right |-> s.cmd])
listcmd(left, s) == zalloc(s, 24, [type |-> "LIST", left |-> left, right |-> s.cmd])
backcmd(s) == zalloc(s, 16, [type |-> "BACK", cmd |-> s.cmd])

RECURSIVE parseredirs(_, _)
parseredirs(buf, s) ==
  IF ~peek(buf, s, {"<", ">", ">>"}) THEN s
  ELSE LET t == gettoken(s)
       IN  IF t.pos <= Len(buf) /\ IsWord(buf[t.pos])
             THEN parseredirs(buf, gettoken(
                    redircmd(t, t.pos, buf[s.pos], IF buf[s.pos] = "<" THEN 0 ELSE 1)))
             ELSE Panic(s)

\* cmd->argv[argc] = q, where cmd is the EXEC node inside the redirections
\* parsed so far; and argc.
RECURSIVE AddArg(_, _)
AddArg(cmd, q) == IF cmd.type = "REDIR" THEN [cmd EXCEPT !.cmd = AddArg(@, q)]
                                        ELSE [cmd EXCEPT !.argv = Append(@, q)]
RECURSIVE argc(_)
argc(cmd) == IF cmd.type = "REDIR" THEN argc(cmd.cmd) ELSE Len(cmd.argv)

\* The loop of parseexec.
RECURSIVE parseargs(_, _)
parseargs(buf, s) ==
  IF ~s.ok \/ s.pos > Len(buf) \/ peek(buf, s, {"|", ")", "&", ";"}) THEN s
  ELSE IF IsWord(buf[s.pos]) /\ argc(s.cmd) + 1 < MAXARGS
         THEN parseargs(buf, parseredirs(buf, gettoken([s EXCEPT !.cmd = AddArg(@, s.pos)])))
         ELSE Panic(s)

RECURSIVE parseline(_, _)
parseblock(buf, s) ==
  LET t == parseline(buf, gettoken(s))
  IN  IF peek(buf, t, {")"}) THEN parseredirs(buf, gettoken(t)) ELSE Panic(t)

parseexec(buf, s) ==
  IF peek(buf, s, {"("}) THEN parseblock(buf, s)
                         ELSE parseargs(buf, parseredirs(buf, execcmd(s)))

RECURSIVE parsepipe(_, _)
parsepipe(buf, s) ==
  LET t == parseexec(buf, s)
  IN  IF peek(buf, t, {"|"}) THEN pipecmd(t.cmd, parsepipe(buf, gettoken(t))) ELSE t

\* while (peek(ps, es, "&")).
RECURSIVE parseback(_, _)
parseback(buf, s) == IF peek(buf, s, {"&"}) THEN parseback(buf, backcmd(gettoken(s))) ELSE s

\* Bug: a list ends with its second command.
Bug_parseline(buf, s) ==
  LET t == parseback(buf, parsepipe(buf, s))
  IN  IF peek(buf, t, {";"}) THEN listcmd(t.cmd, parsepipe(buf, gettoken(t))) ELSE t

parseline(buf, s) ==
  LET t == parseback(buf, parsepipe(buf, s))
  IN  IF peek(buf, t, {";"}) THEN listcmd(t.cmd, parseline(buf, gettoken(t))) ELSE t

\* The command of the line, or [type |-> "panic"] if an assertion fails.
parsecmd(buf) ==
  LET s == parseline(buf, [pos |-> 1, mem |-> 0, cmd |-> <<>>, ok |-> TRUE])
  IN  IF s.ok /\ s.pos = Len(buf) + 1 THEN s.cmd ELSE [type |-> "panic"]

\* Bug: the right side of a pipe is forgotten.
RECURSIVE Bug_nulterminate(_)
Bug_nulterminate(cmd) ==
  CASE cmd.type = "EXEC" -> {cmd.argv[k] : k \in DOMAIN cmd.argv}
    [] cmd.type = "REDIR" -> Bug_nulterminate(cmd.cmd) \cup {cmd.file}
    [] cmd.type = "PIPE" -> Bug_nulterminate(cmd.left)
    [] cmd.type = "LIST" -> Bug_nulterminate(cmd.left) \cup Bug_nulterminate(cmd.right)
    [] cmd.type = "BACK" -> Bug_nulterminate(cmd.cmd)

\* The words after which nulterminate() puts a NUL into the line.
RECURSIVE nulterminate(_)
nulterminate(cmd) ==
  CASE cmd.type = "EXEC" -> {cmd.argv[k] : k \in DOMAIN cmd.argv}
    [] cmd.type = "REDIR" -> nulterminate(cmd.cmd) \cup {cmd.file}
    [] cmd.type \in {"PIPE", "LIST"} -> nulterminate(cmd.left) \cup nulterminate(cmd.right)
    [] cmd.type = "BACK" -> nulterminate(cmd.cmd)
=============================================================================
