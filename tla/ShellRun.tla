------------------------------ MODULE ShellRun ------------------------------
(***************************************************************************)
(* The shell at work (sh.c): the loop of main() with the tracer's commands *)
(* and runcmd() in the processes it forks.                                 *)
(*                                                                         *)
(* A process runs its part of the tree of the line; fork(), wait() and the *)
(* system calls between them are steps of their own.  A pipe is named by   *)
(* the line and the PIPE command it was made for.  Programs, files and the *)
(* kernel's fork() and pipe() are external: a program that reads goes on   *)
(* to the end of its input, one that writes much needs a reader or nobody. *)
(***************************************************************************)
EXTENDS ShellParse, FiniteSetsExt

CONSTANTS
  Pids,              \* numbers; 0 is init, -1 the shell
  CommandLines,      \* lines of tokens that are typed
  Readers, Writers, Unknown, Missing,   \* words: programs and a file
  Typed              \* bound: tokens that are typed

VARIABLES
  main,              \* where main() is
  stracing, straceRunning, straceFlag,
  pt,                \* the processes the shell has forked, and theirs
  typed,             \* number of tokens so far
  troubled,          \* history: a fork() or a pipe() has failed
  asked              \* history: strace on or off; no filter, no strace run yet

shellVars == <<main, stracing, straceRunning, straceFlag, pt, typed, troubled, asked>>

\* What a descriptor refers to.
Object(kind, id) == [kind |-> kind, id |-> id]
Closed == Object("none", <<0, NoCmd>>)
Terminal == Object("console", <<0, NoCmd>>)
File(no, pos) == Object("file", <<no, execcmd(<<pos>>)>>)
ReadEnd(no, cmd) == Object("r", <<no, cmd>>)
WriteEnd(no, cmd) == Object("w", <<no, cmd>>)

Descriptors == 0..4
FirstClosed(fd) == Min({n \in Descriptors : fd[n] = Closed})
close(fd, n) == [fd EXCEPT ![n] = Closed]
open(fd, o) == [fd EXCEPT ![FirstClosed(fd)] = o]
dup(fd, n) == open(fd, fd[n])
ShellFiles == [n \in Descriptors |-> IF n <= 2 THEN Terminal ELSE Closed]

NoProc == [st |-> "none", cmd |-> NoCmd, pc |-> "runcmd", fd |-> [n \in Descriptors |-> Closed],
           p |-> <<0, 0>>, parent |-> 0, stracing |-> FALSE, traced |-> FALSE,
           no |-> 0, ts |-> <<>>, whole |-> NoCmd, back |-> FALSE, asked |-> [on |-> FALSE, pure |-> TRUE]]

ShellInit ==
  /\ main = "prompt"
  /\ stracing = FALSE /\ straceRunning = FALSE /\ straceFlag = FALSE
  /\ pt = [q \in Pids |-> NoProc]
  /\ typed = 0 /\ troubled = FALSE
  /\ asked = [on |-> FALSE, pure |-> TRUE]

Living(q) == pt[q].st \in {"run", "prog"}
Children(q) == {c \in Pids : pt[c].st # "none" /\ pt[c].parent = q}
FreePids == {q \in Pids : pt[q].st = "none"}
MainUnchanged == UNCHANGED <<main, stracing, straceRunning, straceFlag, typed, asked>>

\* The table after q's exit(): its children go to init, which reaps them.
Exited(q) ==
  [c \in Pids |->
     IF c = q THEN IF pt[q].parent = 0 THEN NoProc
                   ELSE [NoProc EXCEPT !.st = "zombie", !.parent = pt[q].parent]
     ELSE IF c \notin Children(q) THEN pt[c]
     ELSE IF pt[c].st = "zombie" THEN NoProc ELSE [pt[c] EXCEPT !.parent = 0]]

exitproc(q) == pt' = Exited(q) /\ UNCHANGED troubled

\* fork1() of process q, which goes on as next, or panic().
fork1(q, child, next) ==
  \/ /\ FreePids # {}
     /\ pt' = [pt EXCEPT ![Min(FreePids)] = child, ![q] = next]
     /\ UNCHANGED troubled
  \/ /\ FreePids = {} \/ ~troubled
     /\ pt' = Exited(q) /\ troubled' = TRUE

\* wait() of process q, which goes on as next; runcmd() calls it with a child.
waitchild(q, next) ==
  /\ \E c \in Children(q) : pt[c].st = "zombie" /\ pt' = [pt EXCEPT ![c] = NoProc, ![q] = next]
  /\ UNCHANGED troubled

-----------------------------------------------------------------------------
(* runcmd(). *)
Runs(q, type, pc) == pt[q].st = "run" /\ pt[q].cmd.type = type /\ pt[q].pc = pc
Child(q, cmd, pc) == [pt[q] EXCEPT !.cmd = cmd, !.pc = pc, !.parent = q]

RunExec(q) ==
  LET argv == pt[q].cmd.argv IN
  /\ Runs(q, "EXEC", "runcmd")
  /\ IF argv = <<>> \/ (argv # <<>> /\ pt[q].ts[argv[1]] \in Unknown) THEN exitproc(q)
     ELSE pt' = [pt EXCEPT ![q].st = "prog", ![q].traced = pt[q].stracing] /\ UNCHANGED troubled

RunRedir(q) ==
  LET c == pt[q].cmd IN
  /\ Runs(q, "REDIR", "runcmd")
  /\ IF c.fd = 0 /\ pt[q].ts[c.file] \in Missing THEN exitproc(q)
     ELSE /\ pt' = [pt EXCEPT ![q].cmd = c.cmd,
                              ![q].fd = open(close(@, c.fd), File(pt[q].no, c.file))]
          /\ UNCHANGED troubled

\* A mutant of RunList: the right command does not wait for the left one.
RunListAtOnce(q) ==
  /\ Runs(q, "LIST", "runcmd")
  /\ fork1(q, Child(q, pt[q].cmd.left, "runcmd"), [pt[q] EXCEPT !.cmd = @.right])

RunList(q) ==
  \/ /\ Runs(q, "LIST", "runcmd")
     /\ fork1(q, Child(q, pt[q].cmd.left, "runcmd"), [pt[q] EXCEPT !.pc = "wait"])
  \/ Runs(q, "LIST", "wait") /\ waitchild(q, [pt[q] EXCEPT !.pc = "runcmd", !.cmd = @.right])

RunBack(q) ==
  \/ /\ Runs(q, "BACK", "runcmd")
     /\ fork1(q, [Child(q, pt[q].cmd.cmd, "runcmd") EXCEPT !.back = TRUE], [pt[q] EXCEPT !.pc = "exit"])
  \/ Runs(q, "BACK", "exit") /\ exitproc(q)

\* A mutant of CloseEnds: the end that was not used.
CloseEndsOne(r) == close(r.fd, r.p[1])

\* Both ends that runcmd() got from pipe().
CloseEnds(r) == close(close(r.fd, r.p[1]), r.p[2])

RunPipe(q) ==
  LET r == pt[q]
      n1 == FirstClosed(r.fd)
      fd1 == open(r.fd, ReadEnd(r.no, r.cmd))
  IN
  \/ /\ Runs(q, "PIPE", "runcmd")
     /\ \/ /\ pt' = [pt EXCEPT ![q].fd = open(fd1, WriteEnd(r.no, r.cmd)), ![q].p = <<n1, FirstClosed(fd1)>>,
                               ![q].pc = "forkleft"]
           /\ UNCHANGED troubled
        \/ ~troubled /\ pt' = Exited(q) /\ troubled' = TRUE
  \/ Runs(q, "PIPE", "forkleft") /\ fork1(q, Child(q, r.cmd, "left"), [r EXCEPT !.pc = "forkright"])
  \/ Runs(q, "PIPE", "forkright") /\ fork1(q, Child(q, r.cmd, "right"), [r EXCEPT !.pc = "close"])

\* The child to the left of the "|", and the one to the right.
PipeChild(q) ==
  LET r == pt[q] IN
  /\ \/ /\ Runs(q, "PIPE", "left")
        /\ pt' = [pt EXCEPT ![q] = [r EXCEPT !.fd = CloseEnds([r EXCEPT !.fd = dup(close(@, 1), r.p[2])]),
                                             !.pc = "runcmd", !.cmd = @.left]]
     \/ /\ Runs(q, "PIPE", "right")
        /\ pt' = [pt EXCEPT ![q] = [r EXCEPT !.fd = CloseEnds([r EXCEPT !.fd = dup(close(@, 0), r.p[1])]),
                                             !.pc = "runcmd", !.cmd = @.right]]
  /\ UNCHANGED troubled

\* A mutant of PipeParent: it keeps both ends.
PipeParentKeeps(q) ==
  \/ Runs(q, "PIPE", "close") /\ pt' = [pt EXCEPT ![q].pc = "wait2"] /\ UNCHANGED troubled
  \/ Runs(q, "PIPE", "wait2") /\ waitchild(q, [pt[q] EXCEPT !.pc = "wait1"])
  \/ Runs(q, "PIPE", "wait1") /\ waitchild(q, [pt[q] EXCEPT !.pc = "exit"])
  \/ Runs(q, "PIPE", "exit") /\ exitproc(q)

PipeParent(q) ==
  \/ /\ Runs(q, "PIPE", "close")
     /\ pt' = [pt EXCEPT ![q].fd = CloseEnds(pt[q]), ![q].pc = "wait2"]
     /\ UNCHANGED troubled
  \/ Runs(q, "PIPE", "wait2") /\ waitchild(q, [pt[q] EXCEPT !.pc = "wait1"])
  \/ Runs(q, "PIPE", "wait1") /\ waitchild(q, [pt[q] EXCEPT !.pc = "exit"])
  \/ Runs(q, "PIPE", "exit") /\ exitproc(q)

-----------------------------------------------------------------------------
(* A program ends. *)
HasOpen(q, o) == Living(q) /\ \E n \in Descriptors : pt[q].fd[n] = o
Word(q) == pt[q].ts[pt[q].cmd.argv[1]]
InputEnds(q) ==
  LET in == pt[q].fd[0] IN
  in.kind = "r" => ~\E o \in Pids : HasOpen(o, [in EXCEPT !.kind = "w"])
OutputTaken(q) ==
  LET out == pt[q].fd[1]
      end == [out EXCEPT !.kind = "r"]
  IN  out.kind = "w" => \/ ~\E o \in Pids : HasOpen(o, end)
                        \/ \E o \in Pids : pt[o].st = "prog" /\ Word(o) \in Readers /\ pt[o].fd[0] = end

ProgramEnds(q) ==
  /\ pt[q].st = "prog"
  /\ Word(q) \in Readers => InputEnds(q)
  /\ Word(q) \in Writers => OutputTaken(q)
  /\ exitproc(q)

-----------------------------------------------------------------------------
(* main(). *)
Input(length) == main = "prompt" /\ typed + length <= Typed /\ typed' = typed + length

\* fork1() in main(); the child parses the line and runs it.
Start(ts, traced, next) ==
  LET r == parsecmd(ts)
      child == [NoProc EXCEPT !.st = "run", !.cmd = r.cmd, !.fd = ShellFiles, !.parent = -1,
                              !.stracing = traced, !.no = typed', !.ts = ts, !.whole = r.cmd, !.asked = asked']
  IN
  \/ /\ FreePids # {}
     /\ pt' = [pt EXCEPT ![Min(FreePids)] =
                 IF Failed(r) THEN [NoProc EXCEPT !.st = "zombie", !.parent = -1] ELSE child]
     /\ main' = next /\ UNCHANGED troubled
  \/ /\ FreePids = {} \/ ~troubled
     /\ main' = "gone" /\ troubled' = TRUE /\ UNCHANGED pt

\* chdir() is called by the shell itself.
cd == Input(2) /\ UNCHANGED <<main, stracing, straceRunning, straceFlag, pt, troubled, asked>>

\* straceR_commands(): strace on, strace off and strace dump.
straceR_commands(c) ==
  /\ Input(2)
  /\ \/ /\ c \in {"on", "off"}
        /\ stracing' = (c = "on") /\ asked' = [asked EXCEPT !.on = (c = "on")]
        /\ UNCHANGED <<main, pt, troubled>>
     \/ c = "dump" /\ UNCHANGED <<stracing, asked>> /\ Start(<<"dump">>, stracing, "wait")
  /\ UNCHANGED <<straceRunning, straceFlag>>

\* straceO_commands(): strace -e, -s, -f and their combinations; they set the
\* flags in the kernel.
straceO_commands ==
  /\ Input(2)
  /\ stracing' = TRUE /\ straceFlag' = TRUE /\ asked' = [asked EXCEPT !.pure = FALSE]
  /\ UNCHANGED <<main, straceRunning, pt, troubled>>

\* What is left of a line without its first eleven characters.
Rests(ts) ==
  LET ends == {SubSeq(ts, k, Len(ts)) : k \in 2..Len(ts) + 1}
  IN  ends \cup {<<u>> \o ts2 : u \in Unknown, ts2 \in ends}

\* straceR_mode(): strace run with a command, or once straceRunning is set
\* any other line, of which it runs what follows the first eleven characters.
straceR_mode(ts) ==
  /\ Input(Len(ts) + 2)
  /\ stracing' = TRUE /\ straceRunning' = TRUE /\ asked' = [asked EXCEPT !.pure = FALSE]
  /\ \/ Start(ts, TRUE, "wait")
     \/ straceRunning /\ \E rest \in Rests(ts) : Start(rest, TRUE, "wait")
  /\ UNCHANGED straceFlag

\* The rest of the loop: fork1(), runcmd() in the child, and wait().
plain(ts) ==
  /\ Input(Len(ts)) /\ ~straceRunning
  /\ UNCHANGED <<stracing, straceRunning, straceFlag, asked>>
  /\ Start(ts, stracing, "waitplain")

\* wait() has found the child; after a plain command the flags are looked at.
Prompt ==
  /\ main \in {"wait", "waitplain"}
  /\ \E c \in Children(-1) : pt[c].st = "zombie" /\ pt' = [pt EXCEPT ![c] = NoProc]
  /\ main' = "prompt"
  /\ stracing' = (stracing /\ ~(main = "waitplain" /\ straceFlag))
  /\ UNCHANGED <<straceRunning, straceFlag, typed, troubled, asked>>

ProcessStep(q) ==
  /\ \/ RunExec(q) \/ RunRedir(q) \/ RunList(q) \/ RunBack(q)
     \/ RunPipe(q) \/ PipeChild(q) \/ PipeParent(q) \/ ProgramEnds(q)
  /\ MainUnchanged

MainStep ==
  \/ cd \/ straceO_commands \/ Prompt
  \/ \E c \in {"on", "off", "dump"} : straceR_commands(c)
  \/ \E ts \in CommandLines : straceR_mode(ts) \/ plain(ts)

ShellNext == MainStep \/ \E q \in Pids : ProcessStep(q)

\* scheduler() is not idle while a process can run; it may always prefer the
\* same one, since it does not rotate among equal priorities.  A program ends
\* when it can.
Running == Prompt \/ \E q \in Pids : ProcessStep(q)
ShellFairness == WF_shellVars(Running)

ShellSpec == ShellInit /\ [][ShellNext]_shellVars /\ ShellFairness

-----------------------------------------------------------------------------
(* Properties. *)
ShellTypeOK ==
  /\ main \in {"prompt", "wait", "waitplain", "gone"}
  /\ \A q \in Pids :
       /\ pt[q].st \in {"none", "run", "prog", "zombie"}
       /\ pt[q].parent \in Pids \cup {0, -1}
       /\ pt[q].st = "none" \/ pt[q].parent \in {0, -1} \/ Living(pt[q].parent)

\* Where input and output of every program of a tree are to be.
RECURSIVE Plumbing(_, _, _, _)
Plumbing(cmd, no, in, out) ==
  CASE cmd.type = "EXEC" -> {[argv |-> cmd.argv, in |-> in, out |-> out]}
    [] cmd.type = "REDIR" /\ cmd.fd = 0 -> Plumbing(cmd.cmd, no, File(no, cmd.file), out)
    [] cmd.type = "REDIR" /\ cmd.fd = 1 -> Plumbing(cmd.cmd, no, in, File(no, cmd.file))
    [] cmd.type = "BACK" -> Plumbing(cmd.cmd, no, in, out)
    [] cmd.type = "LIST" -> Plumbing(cmd.left, no, in, out) \cup Plumbing(cmd.right, no, in, out)
    [] cmd.type = "PIPE" -> Plumbing(cmd.left, no, in, WriteEnd(no, cmd))
                              \cup Plumbing(cmd.right, no, ReadEnd(no, cmd), out)

\* runcmd() with its close(), dup() and open() relies on the lowest descriptor
\* being the one just closed: every program starts with 0, 1 and 2 open and
\* nothing else, on the files and pipes that its place in the line says.
PlumbingExact ==
  \A q \in Pids : pt[q].st = "prog" =>
    /\ {n \in Descriptors : pt[q].fd[n] # Closed} = 0..2
    /\ [argv |-> pt[q].cmd.argv, in |-> pt[q].fd[0], out |-> pt[q].fd[1]]
         \in Plumbing(pt[q].whole, pt[q].no, Terminal, Terminal)

\* When the wait() of main() returns, what still runs was put in the background
\* with "&": the wait()s of LIST and PIPE commands have found all children, and
\* background ones have gone to init.  (Unless fork() or pipe() has failed,
\* where runcmd() exits and leaves a half of its pipe behind.)
ForegroundDone ==
  main = "prompt" /\ ~troubled => \A q \in Pids : Living(q) => pt[q].back

\* Commands before any filter or strace run are traced as the last strace on
\* or off before their line said, in all their processes, those still in the
\* background when the next strace command is typed included.
TracedAsAsked ==
  \A q \in Pids : pt[q].st = "prog" /\ pt[q].asked.pure => pt[q].traced = pt[q].asked.on

\* The prompt comes back after every line: no command of a pipeline waits for
\* an end of input or for a reader that an open descriptor of the shell's own
\* processes holds back.
PromptReturns == main \in {"wait", "waitplain"} ~> main \in {"prompt", "gone"}

\* Every program that runcmd() starts is what was typed: below a living process
\* of the shell or init, on the files and pipes of its place in the line, and
\* traced or not as the strace commands before it said.
StartedAsTyped == ShellTypeOK /\ PlumbingExact /\ TracedAsAsked
=============================================================================
