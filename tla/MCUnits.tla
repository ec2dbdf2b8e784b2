------------------------------ MODULE MCUnits ------------------------------
(***************************************************************************)
(* Six parts of the system that share no state, side by side: a            *)
(* behaviour is a behaviour of one of them, the unit, while the others     *)
(* stay in their initial states.  The shell, the parser and the console    *)
(* may come to rest; the others always have a step to take.                *)
(***************************************************************************)
EXTENDS Strace, ShellRun, ShellGrammar, Console, Malloc, SpinLock

VARIABLE unit

unitsVars == <<unit, straceVars, shellVars, text, consoleVars, mallocVars, spinVars>>

\* Pipelines, a list in a pipeline in the background, redirections, a command and
\* a file that do not exist, a syntax error.
MCLines ==
  { <<"gen", "|", "cat", "|", "ls">>, <<"gen", "|", "ls">>,
    <<"(", "gen", ";", "ls", ")", "|", "cat", "&">>, <<"ls", "&">>,
    <<"cat", "<", "f", ">", "g">>, <<"ls", "<", "nofile", "|", "cat">>,
    <<"nosuch", "|", "cat", ";", "ls">>, <<"ls", ")">> }

UnitsInit ==
  /\ unit \in {"strace", "shell", "parser", "console", "malloc", "spinlock"}
  /\ StraceInit /\ ShellInit /\ GrammarInit /\ ConsoleInit /\ MallocInit /\ SpinInit

Still(u, vars) == unit # u => UNCHANGED vars
OthersStill ==
  /\ UNCHANGED unit
  /\ Still("strace", straceVars) /\ Still("shell", shellVars) /\ Still("parser", text)
  /\ Still("console", consoleVars) /\ Still("malloc", mallocVars) /\ Still("spinlock", spinVars)

UnitsNext ==
  \/ unit = "strace" /\ StraceNext /\ OthersStill
  \/ unit = "shell" /\ ShellNext /\ OthersStill
  \/ unit = "parser" /\ GrammarNext /\ OthersStill
  \/ unit = "console" /\ ConsoleNext /\ OthersStill
  \/ unit = "malloc" /\ MallocNext /\ OthersStill
  \/ unit = "spinlock" /\ SpinNext /\ OthersStill
  \/ unit \in {"shell", "parser", "console"} /\ UNCHANGED unitsVars

\* ShellFairness, which asks nothing of the other units.
UnitsSpec == UnitsInit /\ [][UnitsNext]_unitsVars /\ WF_shellVars(unit = "shell" /\ Running)
=============================================================================
