------------------------------- MODULE MCShell -------------------------------
(* Lines with every kind of command and of nesting.  "( a" does not parse,  *)
(* and the empty line is an EXEC without arguments.                         *)
EXTENDS Shell

CONSTANTS MAXARGS, MEMSIZE      \* of the parser

Parser == INSTANCE ShellParser
MCparse(line) == Parser!parsecmd(line)

MCLines == {<<>>, <<"cd", "d">>, <<"(", "a">>,
            <<"a", "<", "f">>, <<"a", ">", "f", ">>", "g">>,
            <<"a", "&">>, <<"a", ";", "b", "&">>,
            <<"a", "|", "b">>, <<"a", "|", "b", "|", "c">>,
            <<"(", "a", "&", ")", "|", "b">>, <<"(", "a", "|", "b", ")", "&">>}
MCCdLines == {<<"cd", "d">>}

RECURSIVE Parts(_)
Parts(cmd) == {cmd} \cup CASE cmd.type \in {"REDIR", "BACK"} -> Parts(cmd.cmd)
                          [] cmd.type \in {"PIPE", "LIST"} -> Parts(cmd.left) \cup Parts(cmd.right)
                          [] OTHER -> {}
MCCommands == UNION {Parts(MCparse(line)) : line \in MCLines} \ {[type |-> "panic"]}

\* The first and the last of a command's words; an empty line has none.
Words(cmd) == Parser!nulterminate(cmd)
MCFrom(cmd) == IF Words(cmd) = {} THEN 0 ELSE Min(Words(cmd))
MCTo(cmd) == IF Words(cmd) = {} THEN 0 ELSE Max(Words(cmd))

\* The least wiring of the parts of a command.
RECURSIVE WiringOf(_, _, _, _)
WiringOf(job, cmd, in, out) ==
  {<<cmd, in, out>>} \cup UNION {WiringOf(job, x[1], x[2], x[3]) : x \in Unfold(job, cmd, in, out)}
MCWiring(job, line) == IF Parsed[line].type = "panic" THEN {}
                       ELSE WiringOf(job, Parsed[line], tty, tty)
=============================================================================
