---------------------------- MODULE ShellGrammar ----------------------------
(***************************************************************************)
(* What a command line of the shell (sh.c) means, as sets of trees, and    *)
(* the parser of ShellParse on every line that can be typed with the       *)
(* tokens of Alphabet.                                                     *)
(***************************************************************************)
EXTENDS ShellParse, FiniteSetsExt

CONSTANTS
  Alphabet,
  LineLength          \* bound: tokens of a line

VARIABLE text         \* the line in buf[], as far as it has been typed

GrammarInit == text = <<>>
TypeToken(t) == Len(text) < LineLength /\ text' = Append(text, t)
GrammarNext == \E t \in Alphabet : TypeToken(t)

-----------------------------------------------------------------------------
(* Trees for tokens i..j of the line ts. *)
Ordered(S) == SetToSortSeq(S, LAMBDA m, n : m < n)
Words(ts, i, j) == {n \in i..j : IsWord(ts, n)}

\* The redirections among them, their words, and both in the order of the line.
Arrows(ts, i, j) == {n \in i..j - 1 : ts[n] \in {"<", ">", "+"} /\ IsWord(ts, n + 1)}
Names(ts, i, j) == {n + 1 : n \in Arrows(ts, i, j)}
Redirs(ts, i, j) ==
  LET arrows == Ordered(Arrows(ts, i, j))
  IN  [k \in DOMAIN arrows |->
         [file |-> arrows[k] + 1, fd |-> IF ts[arrows[k]] = "<" THEN 0 ELSE 1]]

\* Words and redirections in any order.
Simple(ts, i, j) ==
  LET args == Words(ts, i, j) \ Names(ts, i, j) IN
  IF Arrows(ts, i, j) \cup Words(ts, i, j) # i..j \/ Cardinality(args) >= MAXARGS THEN {}
  ELSE {Redirected(execcmd(Ordered(args)), Redirs(ts, i, j))}

\* A line in parentheses, and redirections.
RECURSIVE LineTrees(_, _, _)
Block(ts, i, j) ==
  UNION {{Redirected(t, Redirs(ts, k + 1, j)) : t \in LineTrees(ts, i + 1, k - 1)} :
           k \in {n \in i + 1..j :
                   /\ ts[i] = "(" /\ ts[n] = ")"
                   /\ Arrows(ts, n + 1, j) \cup Names(ts, n + 1, j) = n + 1..j}}

RECURSIVE PipeTrees(_, _, _)
PipeTrees(ts, i, j) ==
  Simple(ts, i, j) \cup Block(ts, i, j)
  \cup UNION {{pipecmd(l, r) : l \in Simple(ts, i, k - 1) \cup Block(ts, i, k - 1),
                               r \in PipeTrees(ts, k + 1, j)} : k \in {n \in i..j : ts[n] = "|"}}

RECURSIVE BackTrees(_, _, _)
BackTrees(ts, i, j) ==
  PipeTrees(ts, i, j)
  \cup (IF j >= i /\ ts[j] = "&" THEN {backcmd(t) : t \in BackTrees(ts, i, j - 1)} ELSE {})

LineTrees(ts, i, j) ==
  BackTrees(ts, i, j)
  \cup UNION {{listcmd(l, r) : l \in BackTrees(ts, i, k - 1), r \in LineTrees(ts, k + 1, j)} :
              k \in {n \in i..j : ts[n] = ";"}}

-----------------------------------------------------------------------------
\* parsecmd() accepts the lines that mean something and gives each the one
\* tree that it means: "|" binds closer than "&", "&" closer than ";", both
\* "|" and ";" to the right, redirections the command or block they stand in.
GrammarParsed ==
  LET r == parsecmd(text) IN
  LineTrees(text, 1, Len(text)) = IF Failed(r) THEN {} ELSE {r.cmd}

\* nulterminate() reaches every word of an accepted line, in whatever part of
\* the tree it ended up: none runs on into the character behind it.
WordsTerminated ==
  LET r == parsecmd(text) IN
  ~Failed(r) => nulterminate(r.cmd) = {i \in DOMAIN text : IsWord(text, i)}

\* Together: what runcmd() gets is the tree that the line means, and every
\* string in it ends where its word ends.
ParserSound == GrammarParsed /\ WordsTerminated
=============================================================================
