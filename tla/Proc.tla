-------------------------------- MODULE Proc --------------------------------
(***************************************************************************)
(* The process table of proc.c and everything that runs under ptable.lock: *)
(* fork, exit, wait, kill, nice, sleep/wakeup, yield and the per-CPU       *)
(* scheduler, together with the timer part of trap.c and sys_sleep.        *)
(*                                                                         *)
(* A struct proc* is the index of its slot in ptable.proc, NULL is 0.      *)
(* A critical section of ptable.lock is one step, except that a CPU keeps  *)
(* the lock across swtch(): the variable ptlock records who has it between *)
(* the scheduler's swtch() and the release() of the process it switched    *)
(* to.  What the code does outside the lock is a step of its own.          *)
(***************************************************************************)
EXTENDS Integers, FiniteSetsExt

CONSTANTS
  NPROC,              \* number of slots of ptable.proc
  CPUs, cpu0, NoCpu,  \* the processors, the one that counts ticks, "nobody"
  MaxPid,             \* bound: fork is not called once nextpid exceeds it
  PidArgs, NiceArgs,  \* the pids and nice values user programs pass to kill() and nice()
  SCHEDULER_PRIORITY  \* the compile-time choice of scheduler

ASSUME ProcAssumption ==
  /\ NPROC \in Nat \ {0}
  /\ cpu0 \in CPUs /\ NoCpu \notin CPUs
  /\ MaxPid \in Nat
  /\ PidArgs \subseteq Int /\ NiceArgs \subseteq Int
  /\ SCHEDULER_PRIORITY \in BOOLEAN

VARIABLES
  state, pid, parent, chan, killed,   \* fields of ptable.proc[s]
  nice, priority, original_priority,
  nextpid,
  proc,       \* proc[c]: cpus[c].proc, 0 while c is in scheduler()
  ptlock,     \* the CPU that holds ptable.lock across a swtch(), or NoCpu
  ctx,        \* where the kernel thread of a slot is switched out, or will be
  pc,         \* what the thread is executing outside any ptable.lock section
  np,         \* the local variable np of a fork() in progress
  scan,       \* p of the for loop of the round-robin scheduler, per CPU
  panicked    \* panic() stops every CPU

fields == <<state, pid, parent, chan, killed>>
levels == <<nice, priority, original_priority>>
vars == <<fields, levels, nextpid, proc, ptlock, ctx, pc, np, scan, panicked>>

Slots == 1..NPROC
initproc == 1
ticksChan == NPROC + 1     \* the address of ticks: no struct proc is there

ProcState == {"UNUSED", "EMBRYO", "SLEEPING", "RUNNABLE", "RUNNING", "ZOMBIE"}
ForkPc == {"alloc_nice", "alloc_priority", "alloc_kstack", "copyuvm", "runnable"}
SleepPc == {"ticksleep", "sleeploop"}
Ctx == {"none", "forkret", "yield", "sleep", "wait", "tick"}

\* Every field has its type and the range the code gives it; in particular
\* sys_nice() and allocproc() keep nice and priority within the five levels
\* (0 is the BSS value of a slot that was never used).
TypeOK ==
  /\ state \in [Slots -> ProcState]
  /\ pid \in [Slots -> Nat]
  /\ parent \in [Slots -> Slots \cup {0}]
  /\ chan \in [Slots -> 0..ticksChan]
  /\ killed \in [Slots -> {0, 1}]
  /\ nice \in [Slots -> 0..5]
  /\ priority \in [Slots -> 0..5]
  /\ original_priority \in [Slots -> -1..5]
  /\ nextpid \in Nat
  /\ proc \in [CPUs -> Slots \cup {0}]
  /\ ptlock \in CPUs \cup {NoCpu}
  /\ ctx \in [Slots -> Ctx]
  /\ pc \in [Slots -> {"user"} \cup ForkPc \cup SleepPc]
  /\ np \in [Slots -> Slots \cup {0}]
  /\ scan \in [CPUs -> 1..(NPROC + 1)]
  /\ panicked \in BOOLEAN

\* userinit() has made slot 1 the first process; the rest of the table is BSS.
Init ==
  /\ state = [s \in Slots |-> IF s = initproc THEN "RUNNABLE" ELSE "UNUSED"]
  /\ pid = [s \in Slots |-> IF s = initproc THEN 1 ELSE 0]
  /\ parent = [s \in Slots |-> 0]
  /\ chan = [s \in Slots |-> 0]
  /\ killed = [s \in Slots |-> 0]
  /\ nice = [s \in Slots |-> IF s = initproc THEN 3 ELSE 0]
  /\ priority = [s \in Slots |-> IF s = initproc THEN 3 ELSE 0]
  /\ original_priority = [s \in Slots |-> IF s = initproc THEN -1 ELSE 0]
  /\ nextpid = 2
  /\ proc = [c \in CPUs |-> 0]
  /\ ptlock = NoCpu
  /\ ctx = [s \in Slots |-> IF s = initproc THEN "forkret" ELSE "none"]
  /\ pc = [s \in Slots |-> "user"]
  /\ np = [s \in Slots |-> 0]
  /\ scan = [c \in CPUs |-> 1]
  /\ panicked = FALSE

-----------------------------------------------------------------------------
\* c executes p's code and does not hold ptable.lock for it.
Running(c, p) == p # 0 /\ proc[c] = p /\ ptlock # c

\* c executes p in user mode; only there is a system call made.
InUser(c, p) == Running(c, p) /\ pc[p] = "user" /\ ctx[p] = "none"

\* trap() enters syscall() only for a process that has not been killed.
Syscall(c, p) == InUser(c, p) /\ killed[p] = 0

\* acquire(&ptable.lock) succeeds.
PtableFree == ptlock = NoCpu

\* Some thread holds tickslock between the test of its loop and sleep().
TicksFree == \A s \in Slots : pc[s] # "ticksleep"

\* wakeup1(ch), applied to the table of states st.
wakeup1(st, ch) ==
  [s \in Slots |-> IF st[s] = "SLEEPING" /\ chan[s] = ch THEN "RUNNABLE" ELSE st[s]]

\* sched(): leave p for the scheduler of c with the new states st.  The
\* scheduler comes back holding ptable.lock; the priority scheduler releases
\* it at once, the round-robin one goes on with its loop.
sched(c, p, st, where) ==
  /\ state' = st
  /\ proc' = [proc EXCEPT ![c] = 0]
  /\ ctx' = [ctx EXCEPT ![p] = where]
  /\ ptlock' = IF SCHEDULER_PRIORITY THEN NoCpu ELSE c

-----------------------------------------------------------------------------
\* The choice of the priority scheduler: its loop keeps the first slot of the
\* best priority, because it replaces its candidate only by a strictly better one.
HighestPriority ==
  CHOOSE s \in Slots :
    /\ state[s] = "RUNNABLE"
    /\ \A t \in Slots : state[t] = "RUNNABLE" =>
         priority[s] < priority[t] \/ (priority[s] = priority[t] /\ s <= t)

\* Mutant: the loop starts at the first slot every time.
FirstInTable(c) ==
  CHOOSE s \in Slots :
    /\ state[s] = "RUNNABLE"
    /\ \A t \in Slots : state[t] = "RUNNABLE" => s <= t

\* The choice of the round-robin scheduler: the first RUNNABLE slot its loop meets.
NextInTable(c) ==
  CHOOSE s \in Slots :
    /\ state[s] = "RUNNABLE" /\ s >= scan[c]
    /\ \A t \in Slots : state[t] = "RUNNABLE" /\ t >= scan[c] => s <= t

\* Mutant: the scheduler forgets to mark its choice RUNNING.
DispatchUnmarked(c, p) ==
  /\ proc' = [proc EXCEPT ![c] = p]
  /\ ptlock' = c
  /\ UNCHANGED state

\* c switches to p with ptable.lock held.
Dispatch(c, p) ==
  /\ proc' = [proc EXCEPT ![c] = p]
  /\ state' = [state EXCEPT ![p] = "RUNNING"]
  /\ ptlock' = c

PriorityScheduler(c) ==
  /\ SCHEDULER_PRIORITY /\ PtableFree /\ proc[c] = 0
  /\ \E s \in Slots : state[s] = "RUNNABLE"
  /\ Dispatch(c, HighestPriority)
  /\ UNCHANGED scan

RoundRobinScheduler(c) ==
  /\ ~SCHEDULER_PRIORITY /\ proc[c] = 0
  /\ ptlock = c \/ PtableFree
  /\ IF \E s \in Slots : state[s] = "RUNNABLE" /\ s >= scan[c]
     THEN /\ Dispatch(c, NextInTable(c))
          /\ scan' = [scan EXCEPT ![c] = NextInTable(c) + 1]
     ELSE /\ ptlock' = NoCpu
          /\ scan' = [scan EXCEPT ![c] = 1]
          /\ UNCHANGED <<proc, state>>

scheduler(c) ==
  /\ PriorityScheduler(c) \/ RoundRobinScheduler(c)
  /\ UNCHANGED <<pid, parent, chan, killed, levels, nextpid, ctx, pc, np, panicked>>

-----------------------------------------------------------------------------
\* wait(), from the top of its loop with ptable.lock held: reap the first
\* zombie child, give up, or sleep on the own slot.
WaitLoop(c, p) ==
  LET kids == {s \in Slots : parent[s] = p}
      zombies == {s \in kids : state[s] = "ZOMBIE"}
  IN
  \/ /\ zombies # {}
     /\ LET z == Min(zombies) IN
        /\ state' = [state EXCEPT ![z] = "UNUSED"]
        /\ pid' = [pid EXCEPT ![z] = 0]
        /\ parent' = [parent EXCEPT ![z] = 0]
        /\ killed' = [killed EXCEPT ![z] = 0]
     /\ chan' = [chan EXCEPT ![p] = 0]
     /\ ctx' = [ctx EXCEPT ![p] = "none"]
     /\ ptlock' = NoCpu
     /\ UNCHANGED proc
  \/ /\ zombies = {} /\ (kids = {} \/ killed[p] = 1)
     /\ chan' = [chan EXCEPT ![p] = 0]
     /\ ctx' = [ctx EXCEPT ![p] = "none"]
     /\ ptlock' = NoCpu
     /\ UNCHANGED <<state, pid, parent, killed, proc>>
  \/ /\ zombies = {} /\ kids # {} /\ killed[p] = 0
     /\ chan' = [chan EXCEPT ![p] = p]
     /\ sched(c, p, [state EXCEPT ![p] = "SLEEPING"], "wait")
     /\ UNCHANGED <<pid, parent, killed>>

Wait(c, p) ==
  /\ Syscall(c, p) /\ PtableFree
  /\ WaitLoop(c, p)
  /\ UNCHANGED <<levels, nextpid, pc, np, scan, panicked>>

\* The scheduler has switched to p, which still has to release ptable.lock:
\* in forkret(), at the end of yield() or sleep(), or after another round in wait().
Resume(c) ==
  LET p == proc[c] IN
  /\ p # 0 /\ ptlock = c
  /\ \/ /\ ctx[p] \in {"forkret", "yield"}
        /\ ptlock' = NoCpu
        /\ ctx' = [ctx EXCEPT ![p] = "none"]
        /\ UNCHANGED <<state, pid, parent, chan, killed, proc>>
     \/ /\ ctx[p] = "sleep"
        /\ chan' = [chan EXCEPT ![p] = 0]
        /\ ptlock' = NoCpu
        /\ ctx' = [ctx EXCEPT ![p] = "none"]
        /\ UNCHANGED <<state, pid, parent, killed, proc>>
     \/ /\ ctx[p] = "wait"
        /\ WaitLoop(c, p)
  /\ UNCHANGED <<levels, nextpid, pc, np, scan, panicked>>

-----------------------------------------------------------------------------
\* fork() up to the release of ptable.lock in allocproc(): the first UNUSED
\* slot becomes an EMBRYO with a fresh pid.
Fork(c, p) ==
  LET free == {s \in Slots : state[s] = "UNUSED"} IN
  /\ Syscall(c, p) /\ PtableFree
  /\ free # {} /\ nextpid <= MaxPid
  /\ LET s == Min(free) IN
     /\ state' = [state EXCEPT ![s] = "EMBRYO"]
     /\ pid' = [pid EXCEPT ![s] = nextpid]
     /\ np' = [np EXCEPT ![p] = s]
  /\ nextpid' = nextpid + 1
  /\ pc' = [pc EXCEPT ![p] = "alloc_nice"]
  /\ UNCHANGED <<parent, chan, killed, levels, proc, ptlock, ctx, scan, panicked>>

\* The rest of allocproc() runs without ptable.lock: three plain stores ...
AllocNice(c, p) ==
  /\ Running(c, p) /\ ctx[p] = "none" /\ pc[p] = "alloc_nice"
  /\ nice' = [nice EXCEPT ![np[p]] = 3]
  /\ pc' = [pc EXCEPT ![p] = "alloc_priority"]
  /\ UNCHANGED <<fields, priority, original_priority, nextpid, proc, ptlock, ctx,
                 np, scan, panicked>>

AllocPriority(c, p) ==
  /\ Running(c, p) /\ ctx[p] = "none" /\ pc[p] = "alloc_priority"
  /\ priority' = [priority EXCEPT ![np[p]] = 3]
  /\ pc' = [pc EXCEPT ![p] = "alloc_kstack"]
  /\ UNCHANGED <<fields, nice, original_priority, nextpid, proc, ptlock, ctx,
                 np, scan, panicked>>

\* Mutant: the failing fork() leaves its EMBRYO behind.
GiveUpLeaks(p) ==
  /\ pc' = [pc EXCEPT ![p] = "user"]
  /\ np' = [np EXCEPT ![p] = 0]
  /\ UNCHANGED state

\* An EMBRYO is given up by a plain store of its state: pid and killed stay.
GiveUp(p) ==
  /\ state' = [state EXCEPT ![np[p]] = "UNUSED"]
  /\ pc' = [pc EXCEPT ![p] = "user"]
  /\ np' = [np EXCEPT ![p] = 0]

\* ... and kalloc() of the kernel stack, which may fail.
AllocKstack(c, p) ==
  /\ Running(c, p) /\ ctx[p] = "none" /\ pc[p] = "alloc_kstack"
  /\ original_priority' = [original_priority EXCEPT ![np[p]] = -1]
  /\ \/ /\ ctx' = [ctx EXCEPT ![np[p]] = "forkret"]
        /\ pc' = [pc EXCEPT ![p] = "copyuvm"]
        /\ UNCHANGED <<state, np>>
     \/ GiveUp(p) /\ UNCHANGED ctx
  /\ UNCHANGED <<pid, parent, chan, killed, nice, priority, nextpid, proc, ptlock,
                 scan, panicked>>

\* fork() after allocproc(): copyuvm() may fail; else np becomes a child of p.
ForkCopy(c, p) ==
  /\ Running(c, p) /\ ctx[p] = "none" /\ pc[p] = "copyuvm"
  /\ \/ /\ parent' = [parent EXCEPT ![np[p]] = p]
        /\ pc' = [pc EXCEPT ![p] = "runnable"]
        /\ UNCHANGED <<state, np>>
     \/ GiveUp(p) /\ UNCHANGED parent
  /\ UNCHANGED <<pid, chan, killed, levels, nextpid, proc, ptlock, ctx, scan, panicked>>

ForkRunnable(c, p) ==
  /\ Running(c, p) /\ ctx[p] = "none" /\ pc[p] = "runnable" /\ PtableFree
  /\ state' = [state EXCEPT ![np[p]] = "RUNNABLE"]
  /\ pc' = [pc EXCEPT ![p] = "user"]
  /\ np' = [np EXCEPT ![p] = 0]
  /\ UNCHANGED <<pid, parent, chan, killed, levels, nextpid, proc, ptlock, ctx, scan,
                 panicked>>

-----------------------------------------------------------------------------
\* Mutants: exit() wakes nobody; exit() does not wake init for the zombies it
\* hands over; exit() keeps its living children.
ExitStatesNoWakeup(p) == [state EXCEPT ![p] = "ZOMBIE"]
ExitStatesParentOnly(p) == [wakeup1(state, parent[p]) EXCEPT ![p] = "ZOMBIE"]
ReparentZombies(p) ==
  [s \in Slots |-> IF parent[s] = p /\ state[s] = "ZOMBIE" THEN initproc ELSE parent[s]]

\* The states after exit() of p has woken its parent, and init when it hands
\* zombies over to it, and has made p a zombie.
ExitStates(p) ==
  LET woken == wakeup1(state, parent[p])
      handed == \E s \in Slots : parent[s] = p /\ woken[s] = "ZOMBIE"
  IN [(IF handed THEN wakeup1(woken, initproc) ELSE woken) EXCEPT ![p] = "ZOMBIE"]

\* exit() passes the children of p to init.
Reparent(p) == [s \in Slots |-> IF parent[s] = p THEN initproc ELSE parent[s]]

\* exit(): called by the process, by trap() for a killed process in user
\* mode (also from a timer interrupt), and for one that faults in user mode.
Exit(c, p) ==
  /\ Running(c, p) /\ pc[p] = "user"
  /\ p = initproc \/ PtableFree
  /\ ctx[p] = "none" \/ (ctx[p] = "tick" /\ killed[p] = 1)
  /\ IF p = initproc
     THEN panicked' = TRUE /\ UNCHANGED <<state, parent, proc, ctx, ptlock>>
     ELSE /\ sched(c, p, ExitStates(p), "none")
          /\ parent' = Reparent(p)
          /\ UNCHANGED panicked
  /\ UNCHANGED <<pid, chan, killed, levels, nextpid, pc, np, scan>>

\* Mutant: kill() leaves a sleeper asleep.
KilledStateAsleep(st) == st

\* kill() wakes its victim.
KilledState(st) == IF st = "SLEEPING" THEN "RUNNABLE" ELSE st

\* kill(k): the first slot with that pid, whatever its state.
Kill(c, p, k) ==
  LET match == {s \in Slots : pid[s] = k} IN
  /\ Syscall(c, p) /\ PtableFree /\ match # {}
  /\ LET s == Min(match) IN
     /\ killed' = [killed EXCEPT ![s] = 1]
     /\ state' = [state EXCEPT ![s] = KilledState(@)]
  /\ UNCHANGED <<pid, parent, chan, levels, nextpid, proc, ptlock, ctx, pc, np, scan,
                 panicked>>

\* Mutant: no upper limit.
NiceFromOne(v) == v >= 1

\* The values sys_nice() accepts.
ValidNice(v) == v >= 1 /\ v <= 5

\* nice(k, v): the first used slot with that pid gets the value as nice and
\* as priority; a value outside 1..5 is refused.
SysNice(c, p, k, v) ==
  LET match == {s \in Slots : pid[s] = k /\ state[s] # "UNUSED"} IN
  /\ Syscall(c, p) /\ PtableFree /\ match # {}
  /\ ValidNice(v)
  /\ nice' = [nice EXCEPT ![Min(match)] = v]
  /\ priority' = [priority EXCEPT ![Min(match)] = v]
  /\ UNCHANGED <<fields, original_priority, nextpid, proc, ptlock, ctx, pc, np, scan,
                 panicked>>

-----------------------------------------------------------------------------
\* sys_sleep(): the test of its loop, with tickslock held.  How many ticks
\* are left is abstracted to a choice.
SysSleep(c, p) ==
  /\ Syscall(c, p) /\ TicksFree
  /\ pc' = [pc EXCEPT ![p] = "ticksleep"]
  /\ UNCHANGED <<fields, levels, nextpid, proc, ptlock, ctx, np, scan, panicked>>

SysSleepAgain(c, p) ==
  /\ Running(c, p) /\ ctx[p] = "none" /\ pc[p] = "sleeploop" /\ TicksFree
  /\ killed[p] = 0
  /\ pc' = [pc EXCEPT ![p] = "ticksleep"]
  /\ UNCHANGED <<fields, levels, nextpid, proc, ptlock, ctx, np, scan, panicked>>

SysSleepReturn(c, p) ==
  /\ Running(c, p) /\ ctx[p] = "none" /\ pc[p] = "sleeploop" /\ TicksFree
  /\ pc' = [pc EXCEPT ![p] = "user"]
  /\ UNCHANGED <<fields, levels, nextpid, proc, ptlock, ctx, np, scan, panicked>>

\* sleep(&ticks, &tickslock): takes ptable.lock before it lets go of tickslock.
SleepOnTicks(c, p) ==
  /\ Running(c, p) /\ pc[p] = "ticksleep" /\ PtableFree
  /\ chan' = [chan EXCEPT ![p] = ticksChan]
  /\ sched(c, p, [state EXCEPT ![p] = "SLEEPING"], "sleep")
  /\ pc' = [pc EXCEPT ![p] = "sleeploop"]
  /\ UNCHANGED <<pid, parent, killed, levels, nextpid, np, scan, panicked>>

\* The timer interrupt of CPU 0 counts a tick and wakes the sleepers; if it
\* interrupted a process it goes on to the end of trap().
TimerTick ==
  LET p == proc[cpu0] IN
  /\ PtableFree /\ TicksFree
  /\ p # 0 => ctx[p] = "none"
  /\ state' = wakeup1(state, ticksChan)
  /\ ctx' = IF p = 0 THEN ctx ELSE [ctx EXCEPT ![p] = "tick"]
  /\ UNCHANGED <<pid, parent, chan, killed, levels, nextpid, proc, ptlock, pc, np, scan,
                 panicked>>

\* The end of trap() for a timer interrupt: the process gives up the CPU.  A
\* process that holds tickslock is not interrupted; a killed one in user mode exits.
TimerYield(c, p) ==
  /\ Running(c, p) /\ PtableFree
  /\ ctx[p] = IF c = cpu0 THEN "tick" ELSE "none"
  /\ pc[p] # "ticksleep"
  /\ pc[p] = "user" => killed[p] = 0
  /\ sched(c, p, [state EXCEPT ![p] = "RUNNABLE"], "yield")
  /\ UNCHANGED <<pid, parent, chan, killed, levels, nextpid, pc, np, scan, panicked>>

-----------------------------------------------------------------------------
\* The steps of p inside the kernel, which it takes whenever it is given the CPU.
KernelStep(c, p) ==
  \/ AllocNice(c, p) \/ AllocPriority(c, p) \/ AllocKstack(c, p)
  \/ ForkCopy(c, p) \/ ForkRunnable(c, p)
  \/ SleepOnTicks(c, p) \/ SysSleepAgain(c, p) \/ SysSleepReturn(c, p)

\* The system calls p may make, apart from nice().
UserStep(c, p) ==
  \/ Fork(c, p) \/ Exit(c, p) \/ Wait(c, p) \/ SysSleep(c, p)
  \/ \E k \in PidArgs : Kill(c, p, k)

\* After a panic() nothing runs.
Halted == panicked /\ UNCHANGED vars

ProcStep ==
  /\ ~panicked
  /\ \/ TimerTick
     \/ \E c \in CPUs :
          \/ scheduler(c) \/ Resume(c)
          \/ \E p \in Slots : KernelStep(c, p) \/ UserStep(c, p) \/ TimerYield(c, p)

NiceStep ==
  /\ ~panicked
  /\ \E c \in CPUs, p \in Slots, k \in PidArgs, v \in NiceArgs : SysNice(c, p, k, v)

Next == ProcStep \/ NiceStep \/ Halted

Spec == Init /\ [][Next]_vars

-----------------------------------------------------------------------------
(* What the process table promises. *)

\* A process is RUNNING exactly while one CPU has it as its cpus[c].proc, and
\* no two CPUs run the same kernel stack: scheduler() and sched() hand a
\* process over under ptable.lock.
OneCpuPerProcess ==
  /\ \A c \in CPUs : proc[c] # 0 => state[proc[c]] = "RUNNING"
  /\ \A s \in Slots : state[s] = "RUNNING" => \E c \in CPUs : proc[c] = s
  /\ \A c, d \in CPUs : proc[c] = proc[d] /\ proc[c] # 0 => c = d

Alive(s) == state[s] \in {"SLEEPING", "RUNNABLE", "RUNNING"}

\* Every process other than init has a parent that is alive and can still
\* wait() for it: exit() passes its children on, whatever they are doing.
ParentsAlive ==
  \A s \in Slots \ {initproc} :
    Alive(s) \/ state[s] = "ZOMBIE" => parent[s] # 0 /\ Alive(parent[s])

\* No exit is missed: a process asleep in wait() has a child to wait for, none
\* of its children is a zombie already, and it has not been killed.
NoMissedExit ==
  \A s \in Slots : state[s] = "SLEEPING" /\ ctx[s] = "wait" =>
    /\ chan[s] = s
    /\ killed[s] = 0
    /\ \E k \in Slots : parent[k] = s
    /\ \A k \in Slots : parent[k] = s => state[k] # "ZOMBIE"

\* An EMBRYO belongs to exactly one fork() in progress, and that fork() still
\* owns it: nothing else allocates, reaps or schedules the slot meanwhile.
EmbryoOwned ==
  /\ \A s \in Slots : pc[s] \in ForkPc => np[s] # 0 /\ state[np[s]] = "EMBRYO"
  /\ \A s \in Slots : state[s] = "EMBRYO" => \E p \in Slots : np[p] = s
  /\ \A s, t \in Slots : np[s] = np[t] /\ np[s] # 0 => s = t

-----------------------------------------------------------------------------
(* Liveness.  The assumptions are the ones the machine gives: every CPU goes
   on executing its scheduler() and whatever it has switched to, the timer
   never stops, and a thread that is given the CPU again and again gets
   through its kernel code (a time slice is many instructions long), to the end
   of the loop of sys_sleep() (every round takes a tick), to the check of
   proc->killed at the end of trap() and, for init, to the wait() of the loop
   of init.c. *)
Live(A) == ~panicked /\ A

Fairness ==
  /\ \A c \in CPUs : /\ WF_vars(Live(scheduler(c)))
                     /\ WF_vars(Live(Resume(c)))
                     /\ WF_vars(Live(\E p \in Slots : TimerYield(c, p)))
  /\ WF_vars(Live(TimerTick))
  /\ \A p \in Slots : /\ SF_vars(Live(\E c \in CPUs : KernelStep(c, p)))
                      /\ SF_vars(Live(\E c \in CPUs : SysSleepReturn(c, p)))
                      /\ SF_vars(Live(killed[p] = 1 /\ \E c \in CPUs : Exit(c, p)))
  /\ SF_vars(Live(\E c \in CPUs : Wait(c, initproc)))

FairSpec == Spec /\ Fairness

\* A zombie whose parent has died is reaped: exit() hands it to init and wakes
\* init if it is asleep in wait().
OrphansReaped ==
  \A s \in Slots \ {initproc} :
    (state[s] = "ZOMBIE" /\ parent[s] = initproc) ~> (state[s] = "UNUSED" \/ panicked)

\* kill() takes effect: a killed process reaches exit(), wherever it was when
\* the flag was set, also on its way into the sleep() of sys_sleep().
KilledExits ==
  \A s \in Slots : (killed[s] = 1 /\ Alive(s)) ~> (~Alive(s) \/ panicked)

\* The round-robin scheduler starves nobody.
NoStarvation ==
  \A s \in Slots : (state[s] = "RUNNABLE") ~> (state[s] # "RUNNABLE" \/ panicked)

AtBestLevel(s) == /\ state[s] = "RUNNABLE"
                  /\ \A t \in Slots : Alive(t) => priority[s] <= priority[t]

\* The priority scheduler shares the CPU among the processes of the best level.
RoundRobinWithinLevel == \A s \in Slots : AtBestLevel(s) ~> (~AtBestLevel(s) \/ panicked)
=============================================================================
