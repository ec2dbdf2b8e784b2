------------------------------- MODULE Strace -------------------------------
(***************************************************************************)
(* The kernel side of the tracer (syscall.c): who is traced, the filter    *)
(* flags, and the ring dumpBuf of the last N lines.                        *)
(*                                                                         *)
(* A line is "exec", "exit" or "call"; only "call" lines go on to show a   *)
(* return value.  adding() takes no lock: it copies the indices, works on  *)
(* a slot and stores the indices, and other processes run in between.      *)
(* What is printed on the console is left out.                             *)
(***************************************************************************)
EXTENDS Integers, SequencesExt

CONSTANTS
  Procs, shell,     \* the shell never calls strace() itself
  N

ASSUME StraceAssumption == shell \in Procs /\ N \in Nat \ {0}

VARIABLES
  alive,            \* processes that exist
  straced,          \* proc->straced, without T_STRACE it is {}
  flags,            \* the filters that are set, of e_flag, s_flag, f_flag
  dumpBuf,          \* what is in each slot
  startIndex, endIndex, wrap,
  at,               \* how far a process is in syscall()
  line,             \* the line it is adding
  copy,             \* its copy of the three indices
  history           \* the last N lines in the order in which they were finished

straceVars == <<alive, straced, flags, dumpBuf, startIndex, endIndex, wrap, at, line, copy, history>>

Filters == {"e", "s", "f"}
Lines == {"exec", "exit", "call"}
Slots == 0..N - 1
NoCopy == [start |-> 0, end |-> 0, wrapped |-> FALSE]

StraceInit ==
  /\ alive = {shell}
  /\ straced = [p \in Procs |-> {}]
  /\ flags = {}
  /\ dumpBuf = [i \in Slots |-> "empty"]
  /\ startIndex = 0 /\ endIndex = 0 /\ wrap = FALSE
  /\ at = [p \in Procs |-> "user"]
  /\ line = [p \in Procs |-> "call"]
  /\ copy = [p \in Procs |-> NoCopy]
  /\ history = <<>>

ring == <<dumpBuf, startIndex, endIndex, wrap, history>>
Traced(p) == "T_STRACE" \in straced[p]
InUser(p) == p \in alive /\ at[p] = "user"

-----------------------------------------------------------------------------
\* A mutant of Cleared.
ClearedNever(c) == dumpBuf

\* The end of a system call of p: if p was traced at its start, it has line l
\* to add.
Log(p, l) ==
  /\ at' = [at EXCEPT ![p] = IF Traced(p) THEN "adding" ELSE "user"]
  /\ line' = [line EXCEPT ![p] = IF Traced(p) THEN l ELSE @]

\* What fork() gives the child.
Inherit(p) == IF "T_FORK" \in straced[p] THEN straced[p] ELSE {}

fork(p, c) ==
  /\ InUser(p) /\ c \in Procs \ alive
  /\ alive' = alive \cup {c}
  /\ straced' = [straced EXCEPT ![c] = Inherit(p)]
  /\ Log(p, "call")
  /\ UNCHANGED <<flags, copy, ring>>

sys_strace(p, mode) ==
  /\ InUser(p) /\ p # shell
  /\ straced' = [straced EXCEPT ![p] = IF "T_STRACE" \in mode THEN mode ELSE {}]
  /\ Log(p, "call")
  /\ UNCHANGED <<alive, flags, copy, ring>>

\* sys_eflag(), sys_sflag(), sys_fflag(); e_flag -1 and the others 0 mean off.
set_flag(p, f, on) ==
  /\ InUser(p)
  /\ flags' = IF on THEN flags \cup {f} ELSE flags \ {f}
  /\ Log(p, "call")
  /\ UNCHANGED <<alive, straced, copy, ring>>

\* Any other call of a traced process; a successful exec has a line of its own.
other(p, l) ==
  /\ InUser(p) /\ Traced(p) /\ l # "exit"
  /\ Log(p, l)
  /\ UNCHANGED <<alive, straced, flags, copy, ring>>

Gone(p) ==
  /\ alive' = alive \ {p}
  /\ straced' = [straced EXCEPT ![p] = {}]

\* SYS_exit: a traced process first logs the call, see adding_store.
sys_exit(p) ==
  /\ InUser(p) /\ p # shell
  /\ IF Traced(p) THEN UNCHANGED <<alive, straced>> ELSE Gone(p)
  /\ Log(p, "exit")
  /\ UNCHANGED <<flags, copy, ring>>

\* trap() makes a killed process exit without a system call.
killed(p) ==
  /\ InUser(p) /\ p # shell
  /\ Gone(p)
  /\ UNCHANGED <<flags, at, line, copy, ring>>

-----------------------------------------------------------------------------
\* adding(), up to the test: local copies of the indices.
adding_copy(p) ==
  /\ at[p] = "adding"
  /\ copy' = [copy EXCEPT ![p] = [start |-> startIndex, end |-> endIndex, wrapped |-> wrap]]
  /\ at' = [at EXCEPT ![p] = "slot"]
  /\ UNCHANGED <<alive, straced, flags, line, ring>>

\* memset() of the oldest slot.
Cleared(c) == [dumpBuf EXCEPT ![c.end] = "empty"]

\* A line copied over another one leaves the rest of a longer one behind it.
Over(new, old) == IF old = "mixed" \/ (old = "call" /\ new # "call") THEN "mixed" ELSE new

Advance(i) == (i + 1) % N

\* The test, which looks at wrap itself, and the copying of the line.
adding_slot(p) ==
  LET c == copy[p]
      full == c.start = c.end /\ wrap
      buf == IF full THEN Cleared(c) ELSE dumpBuf
  IN
  /\ at[p] = "slot"
  /\ dumpBuf' = [buf EXCEPT ![c.start] = Over(line[p], @)]
  /\ copy' = [copy EXCEPT ![p].end = IF full THEN Advance(@) ELSE @,
                          ![p].start = Advance(@),
                          ![p].wrapped = @ \/ Advance(c.start) = 0]
  /\ at' = [at EXCEPT ![p] = "store"]
  /\ UNCHANGED <<alive, straced, flags, line, startIndex, endIndex, wrap, history>>

LastN(h) == SubSeq(h, Len(h) - N + 1, Len(h))

\* The indices are stored.  After its exit line a process resets the filters
\* and is gone.
adding_store(p) ==
  /\ at[p] = "store"
  /\ startIndex' = copy[p].start /\ endIndex' = copy[p].end /\ wrap' = copy[p].wrapped
  /\ history' = LET h == Append(history, line[p]) IN IF Len(h) > N THEN LastN(h) ELSE h
  /\ IF line[p] = "exit" THEN Gone(p) /\ flags' = {} ELSE UNCHANGED <<alive, straced, flags>>
  /\ at' = [at EXCEPT ![p] = "user"]
  /\ copy' = [copy EXCEPT ![p] = NoCopy]
  /\ line' = [line EXCEPT ![p] = "call"]
  /\ UNCHANGED dumpBuf

adding(p) == adding_copy(p) \/ adding_slot(p) \/ adding_store(p)

StraceNext ==
  \E p \in Procs :
    \/ adding(p) \/ sys_exit(p) \/ killed(p)
    \/ \E c \in Procs : fork(p, c)
    \/ \E mode \in {{}, {"T_STRACE"}, {"T_STRACE", "T_FORK"}} : sys_strace(p, mode)
    \/ \E f \in Filters, on \in BOOLEAN : set_flag(p, f, on)
    \/ \E l \in Lines : other(p, l)

StraceSpec == StraceInit /\ [][StraceNext]_straceVars

-----------------------------------------------------------------------------
\* The slots from the oldest line to the latest.
Chronological ==
  IF wrap THEN [i \in 1..N |-> dumpBuf[(startIndex + i - 1) % N]]
  ELSE [i \in 1..startIndex |-> dumpBuf[i - 1]]

(***************************************************************************)
(* Whenever no process is inside adding(), the ring holds the last N lines *)
(* that were logged, whole and in their order: wrapping, the clearing of   *)
(* the oldest slot and lines of different lengths included.                *)
(***************************************************************************)
RecentHistory == (\A p \in Procs : at[p] = "user") => Chronological = history
=============================================================================
