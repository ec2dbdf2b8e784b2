------------------------------ MODULE SpinLock ------------------------------
(***************************************************************************)
(* Spin locks and the interrupt flag (spinlock.c) under context switches   *)
(* (sched(), scheduler(), forkret() of proc.c) and interrupts (trap.c).    *)
(*                                                                         *)
(* A context is a process or the scheduler of a CPU.  It runs user code,   *)
(* a system call with interrupts on, or an interrupt handler with them     *)
(* off, and there it takes ptable.lock, or another lock and inside it      *)
(* ptable.lock, as sleep() and wakeup() do.                                *)
(***************************************************************************)
EXTENDS Integers, FiniteSetsExt

CONSTANTS
  Processors, Processes,
  nobody,               \* no CPU
  ptablelock, otherlock

ASSUME SpinAssumption ==
  ptablelock # otherlock /\ nobody \notin Processors /\ Processors \cap Processes = {}

SpinLocks == {ptablelock, otherlock}
Contexts == Processors \cup Processes

VARIABLES
  cpuOf,          \* lk->cpu of a lock that is locked, or nobody
  ncli, intena,   \* of a CPU
  iflag,          \* FL_IF of a CPU
  current,        \* the context that a CPU runs
  mode,           \* of a context: user, call, handler (and what it interrupted)
  stage,          \* of a context: which lock it waits for or has, see below
  savedIntena     \* the variable intena of sched()

spinVars == <<cpuOf, ncli, intena, iflag, current, mode, stage, savedIntena>>

\* free: no lock.  want, have: of the other lock.  want2, have2: ptable.lock
\* inside it.  wantpt, havept: ptable.lock alone.  off: switched out by sched();
\* new: never run; back, forkret, trapret: just switched to.  top: at the sti() of
\* scheduler(), with interrupts off after the boot.
SpinInit ==
  /\ cpuOf = [l \in SpinLocks |-> nobody]
  /\ ncli = [c \in Processors |-> 0] /\ intena = [c \in Processors |-> FALSE]
  /\ iflag = [c \in Processors |-> FALSE]
  /\ current = [c \in Processors |-> c]
  /\ mode = [x \in Contexts |-> [now |-> IF x \in Processes THEN "user" ELSE "call", was |-> "user"]]
  /\ stage = [x \in Contexts |-> IF x \in Processes THEN "new" ELSE "top"]
  /\ savedIntena = [t \in Processes |-> FALSE]

At(c, x, s) == current[c] = x /\ stage[x] = s
To(x, s) == stage' = [stage EXCEPT ![x] = s]

-----------------------------------------------------------------------------
\* Mutants: popcli() looks at intena alone; sched() forgets intena.
EnabledAgainSoon(c) == iflag[c] \/ intena[c]
RestoredIntenaNever(c, x) == intena[c]

IntenaPushed(c) == IF ncli[c] = 0 THEN iflag[c] ELSE intena[c]

\* The first part of acquire(): pushcli().
pushcli(c) ==
  /\ intena' = [intena EXCEPT ![c] = IntenaPushed(c)]
  /\ iflag' = [iflag EXCEPT ![c] = FALSE]
  /\ ncli' = [ncli EXCEPT ![c] = @ + 1]

\* The flag after the popcli() of c.
EnabledAgain(c) == iflag[c] \/ (ncli[c] = 1 /\ intena[c])

\* release(), with popcli().
Release(c, l) ==
  /\ cpuOf' = [cpuOf EXCEPT ![l] = nobody]
  /\ iflag' = [iflag EXCEPT ![c] = EnabledAgain(c)]
  /\ ncli' = [ncli EXCEPT ![c] = @ - 1]

\* The second part of acquire(): the xchg succeeds.
Grab(c, l) == cpuOf[l] = nobody /\ cpuOf' = [cpuOf EXCEPT ![l] = c]

Want(c, x, from, to) ==
  /\ At(c, x, from) /\ mode[x].now # "user"
  /\ To(x, to) /\ pushcli(c)
  /\ UNCHANGED <<cpuOf, current, mode, savedIntena>>
Got(c, x, from, to, l) ==
  /\ At(c, x, from)
  /\ To(x, to) /\ Grab(c, l)
  /\ UNCHANGED <<ncli, intena, iflag, current, mode, savedIntena>>
Drop(c, x, from, to, l) ==
  /\ At(c, x, from)
  /\ To(x, to) /\ Release(c, l)
  /\ UNCHANGED <<intena, current, mode, savedIntena>>

\* A critical section of another lock, with a wakeup() in it: of a system call
\* or of a handler.
Section(c, x) ==
  \/ (x \in Processes \/ mode[x].now = "handler") /\ Want(c, x, "free", "want")
  \/ Got(c, x, "want", "have", otherlock)
  \/ Want(c, x, "have", "want2") \/ Got(c, x, "want2", "have2", ptablelock)
  \/ Drop(c, x, "have2", "have", ptablelock) \/ Drop(c, x, "have", "free", otherlock)

\* sleep(chan, lk) has acquired ptable.lock and releases lk.
sleep(c, x) == x \in Processes /\ mode[x].now = "call" /\ Drop(c, x, "have2", "havept", otherlock)

\* ptable.lock alone: yield(), exit(), wait() of a process, wakeup(), and the
\* loop of scheduler(), which then begins again.
LoopTop(x) == IF x \in Processors /\ mode[x].now = "call" THEN "top" ELSE "free"
PtableSection(c, x) ==
  \/ Want(c, x, "free", "wantpt") \/ Got(c, x, "wantpt", "havept", ptablelock)
  \/ Drop(c, x, "havept", LoopTop(x), ptablelock)

\* sched(): from the process to the scheduler of its CPU.
sched(c, x) ==
  /\ x \in Processes /\ At(c, x, "havept")
  /\ savedIntena' = [savedIntena EXCEPT ![x] = intena[c]]
  /\ current' = [current EXCEPT ![c] = c]
  /\ To(x, "off")
  /\ UNCHANGED <<cpuOf, ncli, intena, iflag, mode>>

\* scheduler(): swtch() to a process, with ptable.lock.  The round-robin
\* scheduler may switch to several before it releases the lock.
scheduler(c, x) ==
  /\ At(c, c, "havept") /\ mode[c].now = "call"
  /\ x \in Processes /\ stage[x] \in {"off", "new"}
  /\ current' = [current EXCEPT ![c] = x]
  /\ To(x, IF stage[x] = "new" THEN "forkret" ELSE "back")
  /\ UNCHANGED <<cpuOf, ncli, intena, iflag, mode, savedIntena>>

RestoredIntena(c, x) == savedIntena[x]

\* The end of sched() in a process that runs again.
Resume(c, x) ==
  /\ At(c, x, "back")
  /\ intena' = [intena EXCEPT ![c] = RestoredIntena(c, x)]
  /\ To(x, "havept")
  /\ UNCHANGED <<cpuOf, ncli, iflag, current, mode, savedIntena>>

\* forkret() releases with the intena that it finds on the CPU; the iret to user
\* code then takes FL_IF from the trap frame.
forkret(c, x) == Drop(c, x, "forkret", "trapret", ptablelock)
trapret(c, x) ==
  /\ At(c, x, "trapret") /\ To(x, "free")
  /\ iflag' = [iflag EXCEPT ![c] = TRUE]
  /\ UNCHANGED <<cpuOf, ncli, intena, current, mode, savedIntena>>

\* The sti() at the head of the scheduler's loop: the release() before it takes
\* intena from the process that ran last.
sti(c) ==
  /\ At(c, c, "top")
  /\ iflag' = [iflag EXCEPT ![c] = TRUE]
  /\ To(c, "free")
  /\ UNCHANGED <<cpuOf, ncli, intena, current, mode, savedIntena>>

-----------------------------------------------------------------------------
SetMode(x, m) == mode' = [mode EXCEPT ![x] = m] /\ UNCHANGED <<cpuOf, ncli, intena, current, stage, savedIntena>>

\* An interrupt gate turns interrupts off; iret restores them.  An interrupt just
\* before sti() is as good as one just after it, and with locks there is none
\* (HoldersUninterrupted).
Interrupt(c, x) ==
  /\ At(c, x, "free") /\ iflag[c] /\ mode[x].now # "handler"
  /\ iflag' = [iflag EXCEPT ![c] = FALSE]
  /\ SetMode(x, [now |-> "handler", was |-> mode[x].now])
Iret(c, x) ==
  /\ At(c, x, "free") /\ mode[x].now = "handler"
  /\ iflag' = [iflag EXCEPT ![c] = TRUE]
  /\ SetMode(x, [now |-> mode[x].was, was |-> "user"])

\* A system call is a trap gate, which leaves interrupts on.
Syscall(c, x) == /\ At(c, x, "free") /\ x \in Processes /\ mode[x].now \in {"user", "call"}
                 /\ SetMode(x, [now |-> IF mode[x].now = "user" THEN "call" ELSE "user", was |-> "user"])
                 /\ UNCHANGED iflag

SpinNext ==
  \E c \in Processors, x \in Contexts :
    \/ Section(c, x) \/ sleep(c, x) \/ PtableSection(c, x)
    \/ sched(c, x) \/ scheduler(c, x) \/ Resume(c, x) \/ forkret(c, x) \/ trapret(c, x)
    \/ Interrupt(c, x) \/ Iret(c, x) \/ Syscall(c, x)
    \/ sti(c) /\ x = c

SpinSpec == SpinInit /\ [][SpinNext]_spinVars

-----------------------------------------------------------------------------
(* Properties. *)
\* acquire() and release(): the CPU that holds a lock, or waits for one, has
\* interrupts off and counts its locks in ncli; so no handler ever waits for a
\* lock of the context it interrupted, and panic("acquire") is unreachable.
HoldersUninterrupted ==
  \A c \in Processors :
    LET x == current[c]
        waits == IF stage[x] \in {"want", "want2", "wantpt"} THEN 1 ELSE 0
    IN
    /\ ncli[c] = waits + Cardinality({l \in SpinLocks : cpuOf[l] = c})
    /\ ncli[c] > 0 => ~iflag[c]
    /\ stage[x] = "want" => cpuOf[otherlock] # c
    /\ stage[x] \in {"want2", "wantpt"} => cpuOf[ptablelock] # c

\* "intena is a property of this kernel thread, not this CPU" (sched): outside
\* of its critical sections every context has interrupts on, and a handler has
\* them off, whichever CPU it was moved to and whatever ran there meanwhile.
InterruptsRestored ==
  \A c \in Processors :
    LET x == current[c] IN
    stage[x] = "free" => iflag[c] = (mode[x].now # "handler")

\* sched() never panics: it has only ptable.lock and interrupts are off.
SchedAssertionsHold ==
  \A c \in Processors : stage[current[c]] = "havept" =>
    cpuOf[ptablelock] = c /\ ncli[c] = 1 /\ ~iflag[c]

\* The panics of acquire(), release(), popcli() and sched() are unreachable,
\* however interrupts, sections and context switches are interleaved.
LocksSound == HoldersUninterrupted /\ SchedAssertionsHold
=============================================================================
