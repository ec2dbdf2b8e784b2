----------------------------- MODULE ShellParse -----------------------------
(***************************************************************************)
(* The shell's parser (sh.c): recursive descent over a line of tokens.     *)
(*                                                                         *)
(* gettoken() is the step from position i of the line to i + 1, ">>" being *)
(* the token "+"; peek() looks at the token at i.  Words of the tree are   *)
(* positions in the line, as argv[] and file point into buf.  A parse is   *)
(* [cmd, at], at being *ps; at = 0 after a panic(), which ends the child.  *)
(***************************************************************************)
EXTENDS Integers, SequencesExt

CONSTANT MAXARGS

Symbols == {"<", "|", ">", "+", "&", ";", "(", ")"}

IsWord(ts, i) == i <= Len(ts) /\ ts[i] \notin Symbols
peek(ts, i, toks) == i <= Len(ts) /\ ts[i] \in toks

execcmd(argv) == [type |-> "EXEC", argv |-> argv]
redircmd(cmd, redir) == [type |-> "REDIR", cmd |-> cmd, file |-> redir.file, fd |-> redir.fd]
pipecmd(left, right) == [type |-> "PIPE", left |-> left, right |-> right]
listcmd(left, right) == [type |-> "LIST", left |-> left, right |-> right]
backcmd(cmd) == [type |-> "BACK", cmd |-> cmd]

NoCmd == execcmd(<<>>)
Parsed(cmd, at) == [cmd |-> cmd, at |-> at]
Panic == Parsed(NoCmd, 0)
Failed(r) == r.at = 0

\* Redirections in the order in which they are read; the tree gets the last
\* one outermost.
Redirected(cmd, redirs) == FoldLeft(redircmd, cmd, redirs)

\* parseredirs(): the redirections from i on, after those in redirs.
RECURSIVE parseredirs(_, _, _)
parseredirs(ts, i, redirs) ==
  IF ~peek(ts, i, {"<", ">", "+"}) THEN [redirs |-> redirs, at |-> i]
  ELSE IF ~IsWord(ts, i + 1) THEN [redirs |-> redirs, at |-> 0]
  ELSE parseredirs(ts, i + 2, Append(redirs, [file |-> i + 1, fd |-> IF ts[i] = "<" THEN 0 ELSE 1]))

\* The loop of parseexec().
RECURSIVE Arguments(_, _, _, _)
Arguments(ts, i, argv, redirs) ==
  IF i > Len(ts) \/ peek(ts, i, {"|", ")", "&", ";"})
  THEN Parsed(Redirected(execcmd(argv), redirs), i)
  ELSE IF ~IsWord(ts, i) \/ Len(argv) + 1 >= MAXARGS THEN Panic
  ELSE LET r == parseredirs(ts, i + 1, redirs) IN
       IF Failed(r) THEN Panic ELSE Arguments(ts, r.at, Append(argv, i), r.redirs)

\* The loop of parseline(): one BACK for every "&".
RECURSIVE Ampersands(_, _)
Ampersands(ts, r) ==
  IF Failed(r) \/ ~peek(ts, r.at, {"&"}) THEN r
  ELSE Ampersands(ts, Parsed(backcmd(r.cmd), r.at + 1))

\* The functions below call each other; P[f, i] is what f returns at i.
parseblock(ts, P, i) ==
  LET line == P["line", i + 1]
      r == parseredirs(ts, line.at + 1, <<>>)
  IN  IF Failed(line) \/ ~peek(ts, line.at, {")"}) \/ Failed(r) THEN Panic
      ELSE Parsed(Redirected(line.cmd, r.redirs), r.at)

parseexec(ts, P, i) ==
  LET r == parseredirs(ts, i, <<>>) IN
  IF peek(ts, i, {"("}) THEN parseblock(ts, P, i)
  ELSE IF Failed(r) THEN Panic
  ELSE Arguments(ts, r.at, <<>>, r.redirs)

\* What follows a left command when the next token is sep.
Joined(ts, left, sep, right) ==
  IF Failed(left) \/ ~peek(ts, left.at, {sep}) THEN left
  ELSE IF Failed(right) THEN Panic
  ELSE Parsed(IF sep = "|" THEN pipecmd(left.cmd, right.cmd) ELSE listcmd(left.cmd, right.cmd), right.at)

\* A mutant of parsepipe: one command to the right of a "|".
parsepipeOnce(ts, P, i) ==
  LET left == P["exec", i] IN Joined(ts, left, "|", P["exec", left.at + 1])

parsepipe(ts, P, i) ==
  LET left == P["exec", i] IN Joined(ts, left, "|", P["pipe", left.at + 1])

parseline(ts, P, i) ==
  LET left == Ampersands(ts, P["pipe", i]) IN Joined(ts, left, ";", P["line", left.at + 1])

\* parsecmd(): the line is to be used up.
parsecmd(ts) ==
  LET P[f \in {"line", "pipe", "exec"}, i \in 1..Len(ts) + 2] ==
        CASE f = "line" -> parseline(ts, P, i)
          [] f = "pipe" -> parsepipe(ts, P, i)
          [] f = "exec" -> parseexec(ts, P, i)
      r == P["line", 1]
  IN  IF r.at = Len(ts) + 1 THEN r ELSE Panic

\* nulterminate(): the words behind which it puts a 0.
RECURSIVE nulterminate(_)
nulterminate(cmd) ==
  CASE cmd.type = "EXEC" -> ToSet(cmd.argv)
    [] cmd.type = "REDIR" -> nulterminate(cmd.cmd) \cup {cmd.file}
    [] cmd.type = "BACK" -> nulterminate(cmd.cmd)
    [] OTHER -> nulterminate(cmd.left) \cup nulterminate(cmd.right)

=============================================================================
