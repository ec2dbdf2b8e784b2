--------------------------- MODULE SpinLockProofs ---------------------------
(***************************************************************************)
(* Proofs about module SpinLock, for any number of CPUs and processes.     *)
(***************************************************************************)
EXTENDS SpinLock, FiniteSetTheorems, TLAPS

Stages == {"free", "top", "want", "have", "want2", "have2", "wantpt", "havept",
           "off", "new", "back", "forkret", "trapret"}

SpinTypeOK ==
  /\ cpuOf \in [SpinLocks -> Processors \cup {nobody}]
  /\ ncli \in [Processors -> Int] /\ intena \in [Processors -> BOOLEAN]
  /\ iflag \in [Processors -> BOOLEAN] /\ current \in [Processors -> Contexts]
  /\ mode \in [Contexts -> [now : {"user", "call", "handler"}, was : {"user", "call"}]]
  /\ stage \in [Contexts -> Stages]
  /\ savedIntena \in [Processes -> BOOLEAN]

\* Which context runs where: every scheduler on its own CPU or, while a process
\* runs there, inside its loop with ptable.lock; every process on one CPU at most.
PlaceInv ==
  /\ \A c \in Processors : current[c] \in Processors => current[c] = c
  /\ \A c, d \in Processors : current[c] = current[d] => c = d
  /\ \A c \in Processors : current[c] # c => stage[c] = "havept" /\ mode[c].now = "call"
  /\ \A c \in Processors : stage[current[c]] \notin {"off", "new"}
  /\ \A c \in Processors : stage[c] \notin {"off", "new", "back", "forkret", "trapret"}

HoldsOther(s) == s \in {"have", "want2", "have2"}
HoldsPtable(s) == s \in {"have2", "havept", "forkret", "back"}
Waits(s) == s \in {"want", "want2", "wantpt"}
One(b) == IF b THEN 1 ELSE 0

\* What a CPU holds, and its ncli, as the stage of the context it runs says.
HoldInv ==
  \A c \in Processors :
    LET s == stage[current[c]] IN
    /\ cpuOf[otherlock] = c <=> HoldsOther(s)
    /\ cpuOf[ptablelock] = c <=> HoldsPtable(s)
    /\ ncli[c] = One(Waits(s)) + One(HoldsOther(s)) + One(HoldsPtable(s))
    /\ ncli[c] > 0 => ~iflag[c]

\* The interrupt flag that a context is to have outside of its sections is in
\* iflag, in intena of its CPU while it has a lock, and in savedIntena while it
\* is switched out; only the scheduler may find another's in intena.
FlagInv ==
  /\ \A c \in Processors : stage[current[c]] = "free" =>
       (iflag[c] <=> mode[current[c]].now # "handler")
  /\ \A c \in Processors :
       \/ stage[current[c]] \in {"want", "have", "want2", "have2", "wantpt"}
       \/ stage[current[c]] = "havept" /\ (current[c] \in Processes \/ mode[current[c]].now # "call")
       => (intena[c] <=> mode[current[c]].now # "handler")
  /\ \A t \in Processes : stage[t] \in {"off", "back"} => (savedIntena[t] <=> mode[t].now # "handler")
  /\ \A x \in Contexts : stage[x] \in {"new", "forkret", "trapret", "top"} => mode[x].now # "handler"

SpinInv == SpinTypeOK /\ PlaceInv /\ HoldInv /\ FlagInv

-----------------------------------------------------------------------------
\* It holds after the boot.
LEMMA InitSpinInv == SpinInit => SpinInv
<1>. SUFFICES ASSUME SpinInit PROVE SpinInv
  OBVIOUS
<1>1. SpinTypeOK
  BY DEF SpinInit, SpinTypeOK, Contexts, Stages
<1>2. PlaceInv
  BY SpinAssumption DEF SpinInit, PlaceInv, Contexts
<1>3. HoldInv
  BY SpinAssumption DEF SpinInit, HoldInv, Contexts, SpinLocks, HoldsOther, HoldsPtable, Waits, One
<1>4. FlagInv
  BY SpinAssumption DEF SpinInit, FlagInv, Contexts
<1>. QED
  BY <1>1, <1>2, <1>3, <1>4 DEF SpinInv

\* acquire() up to its loop.
LEMMA WantSpinInv ==
  ASSUME SpinInv, NEW c \in Processors, NEW x \in Contexts, NEW from, NEW to,
         <<from, to>> \in {<<"free", "want">>, <<"have", "want2">>, <<"free", "wantpt">>},
         Want(c, x, from, to)
  PROVE  SpinInv'
<1>. USE DEF SpinInv, Want, At, To, pushcli, IntenaPushed
<1>1. SpinTypeOK'
  BY DEF SpinTypeOK, Stages
<1>2. PlaceInv'
  BY SpinAssumption DEF SpinTypeOK, PlaceInv, Contexts
<1>3. HoldInv'
  BY SpinAssumption DEF SpinTypeOK, PlaceInv, HoldInv, HoldsOther, HoldsPtable, Waits, One
<1>4. FlagInv'
  <2>1. intena'[c] <=> mode[x].now # "handler"
    BY DEF SpinTypeOK, HoldInv, FlagInv, HoldsOther, HoldsPtable, Waits, One
  <2>2. \A d \in Processors \ {c} : intena'[d] = intena[d] /\ iflag'[d] = iflag[d] /\ current[d] # x
    BY DEF SpinTypeOK, PlaceInv
  <2>3. stage' = [stage EXCEPT ![x] = to] /\ to \in {"want", "want2", "wantpt"}
    OBVIOUS
  <2>. QED
    BY <2>1, <2>2, <2>3 DEF SpinTypeOK, FlagInv
<1>. QED
  BY <1>1, <1>2, <1>3, <1>4

\* acquire(): the xchg succeeds.
LEMMA GotSpinInv ==
  ASSUME SpinInv, NEW c \in Processors, NEW x \in Contexts, NEW from, NEW to, NEW l,
         <<from, to, l>> \in {<<"want", "have", otherlock>>, <<"want2", "have2", ptablelock>>,
                             <<"wantpt", "havept", ptablelock>>},
         Got(c, x, from, to, l)
  PROVE  SpinInv'
<1>. USE DEF SpinInv, Got, At, To, Grab
<1>1. SpinTypeOK'
  BY SpinAssumption DEF SpinTypeOK, Stages, Contexts, SpinLocks
<1>2. PlaceInv'
  BY SpinAssumption DEF SpinTypeOK, PlaceInv, HoldInv, Contexts, HoldsOther, HoldsPtable, Waits, One
<1>3. HoldInv'
  BY SpinAssumption DEF SpinTypeOK, SpinLocks, PlaceInv, HoldInv, Contexts, HoldsOther, HoldsPtable, Waits, One
<1>4. FlagInv'
  BY SpinAssumption DEF SpinTypeOK, PlaceInv, HoldInv, FlagInv, Contexts, HoldsOther, HoldsPtable, Waits, One
<1>. QED
  BY <1>1, <1>2, <1>3, <1>4

\* release().
LEMMA DropSpinInv ==
  ASSUME SpinInv, NEW c \in Processors, NEW x \in Contexts, NEW from, NEW to, NEW l,
         \/ <<from, to, l>> \in {<<"have2", "have", ptablelock>>, <<"have", "free", otherlock>>,
                                <<"forkret", "trapret", ptablelock>>}
         \/ <<from, to, l>> = <<"have2", "havept", otherlock>> /\ x \in Processes
         \/ <<from, to, l>> = <<"havept", LoopTop(x), ptablelock>>,
         Drop(c, x, from, to, l)
  PROVE  SpinInv'
<1>. USE DEF SpinInv, Drop, At, To, Release, EnabledAgain, LoopTop
<1>1. SpinTypeOK'
  BY SpinAssumption DEF SpinTypeOK, Stages, Contexts, SpinLocks
<1>2. PlaceInv'
  BY SpinAssumption DEF SpinTypeOK, PlaceInv, HoldInv, Contexts, HoldsOther, HoldsPtable, Waits, One
<1>3. HoldInv'
  BY SpinAssumption DEF SpinTypeOK, SpinLocks, PlaceInv, HoldInv, Contexts, HoldsOther, HoldsPtable, Waits, One
<1>4. FlagInv'
  <2>1. ASSUME to = "free" PROVE iflag'[c] <=> mode[x].now # "handler"
    <3>1. from = "have" \/ (from = "havept" /\ (x \in Processes \/ mode[x].now # "call"))
      BY <2>1 DEF SpinTypeOK, Contexts, HoldInv, FlagInv
    <3>2. ncli[c] = 1 /\ ~iflag[c]
      BY <3>1 DEF SpinTypeOK, HoldInv, HoldsOther, HoldsPtable, Waits, One
    <3>3. intena[c] <=> mode[x].now # "handler"
      BY <3>1 DEF FlagInv
    <3>4. iflag'[c] <=> intena[c]
      BY <3>2 DEF SpinTypeOK
    <3>. QED
      BY <3>3, <3>4
  <2>2. \A d \in Processors \ {c} : iflag'[d] = iflag[d] /\ current[d] # x
    BY DEF SpinTypeOK, PlaceInv
  <2>3. /\ stage' = [stage EXCEPT ![x] = to] /\ UNCHANGED <<intena, current, mode, savedIntena>>
        /\ to \in {"have", "free", "trapret", "havept", "top"}
    OBVIOUS
  <2>4. to \in {"trapret", "top"} => mode[x].now # "handler"
    BY DEF FlagInv
  <2>5. to \in {"have", "havept"} => (intena[c] <=> mode[x].now # "handler")
    BY DEF FlagInv
  <2>. QED
    BY <2>1, <2>2, <2>3, <2>4, <2>5 DEF SpinTypeOK, FlagInv
<1>. QED
  BY <1>1, <1>2, <1>3, <1>4

\* sched(): to the scheduler.
LEMMA SchedSpinInv ==
  ASSUME SpinInv, NEW c \in Processors, NEW x \in Contexts,
         sched(c, x)
  PROVE  SpinInv'
<1>. USE DEF SpinInv, sched, At, To
<1>1. SpinTypeOK'
  BY SpinAssumption DEF SpinTypeOK, Stages, Contexts, SpinLocks
<1>2. PlaceInv'
  BY SpinAssumption DEF SpinTypeOK, PlaceInv, HoldInv, Contexts, HoldsOther, HoldsPtable, Waits, One
<1>3. HoldInv'
  BY SpinAssumption DEF SpinTypeOK, SpinLocks, PlaceInv, HoldInv, Contexts, HoldsOther, HoldsPtable, Waits, One
<1>4. FlagInv'
  BY SpinAssumption DEF SpinTypeOK, PlaceInv, HoldInv, FlagInv, Contexts, HoldsOther, HoldsPtable, Waits, One
<1>. QED
  BY <1>1, <1>2, <1>3, <1>4

\* scheduler(): to a process.
LEMMA SchedulerSpinInv ==
  ASSUME SpinInv, NEW c \in Processors, NEW x \in Contexts,
         scheduler(c, x)
  PROVE  SpinInv'
<1>. USE DEF SpinInv, scheduler, At, To
<1>1. SpinTypeOK'
  BY SpinAssumption DEF SpinTypeOK, Stages, Contexts, SpinLocks
<1>2. PlaceInv'
  BY SpinAssumption DEF SpinTypeOK, PlaceInv, HoldInv, Contexts, HoldsOther, HoldsPtable, Waits, One
<1>3. HoldInv'
  BY SpinAssumption DEF SpinTypeOK, SpinLocks, PlaceInv, HoldInv, Contexts, HoldsOther, HoldsPtable, Waits, One
<1>4. FlagInv'
  BY SpinAssumption DEF SpinTypeOK, PlaceInv, HoldInv, FlagInv, Contexts, HoldsOther, HoldsPtable, Waits, One
<1>. QED
  BY <1>1, <1>2, <1>3, <1>4

\* sched() goes on.
LEMMA ResumeSpinInv ==
  ASSUME SpinInv, NEW c \in Processors, NEW x \in Contexts,
         Resume(c, x)
  PROVE  SpinInv'
<1>. USE DEF SpinInv, Resume, At, To, RestoredIntena
<1>1. SpinTypeOK'
  <2>1. x \in Processes
    BY DEF SpinTypeOK, PlaceInv, Contexts
  <2>. QED
    BY <2>1 DEF SpinTypeOK, Stages
<1>2. PlaceInv'
  BY SpinAssumption DEF SpinTypeOK, PlaceInv, HoldInv, Contexts, HoldsOther, HoldsPtable, Waits, One
<1>3. HoldInv'
  BY SpinAssumption DEF SpinTypeOK, SpinLocks, PlaceInv, HoldInv, Contexts, HoldsOther, HoldsPtable, Waits, One
<1>4. FlagInv'
  <2>1. x \in Processes
    BY DEF SpinTypeOK, PlaceInv, Contexts
  <2>2. intena'[c] <=> mode[x].now # "handler"
    BY <2>1 DEF SpinTypeOK, FlagInv
  <2>3. \A d \in Processors \ {c} : intena'[d] = intena[d] /\ current[d] # x
    BY DEF SpinTypeOK, PlaceInv
  <2>. QED
    BY <2>1, <2>2, <2>3 DEF SpinTypeOK, FlagInv
<1>. QED
  BY <1>1, <1>2, <1>3, <1>4

\* The iret of a new process.
LEMMA TrapretSpinInv ==
  ASSUME SpinInv, NEW c \in Processors, NEW x \in Contexts,
         trapret(c, x)
  PROVE  SpinInv'
<1>. USE DEF SpinInv, trapret, At, To
<1>1. SpinTypeOK'
  BY SpinAssumption DEF SpinTypeOK, Stages, Contexts, SpinLocks
<1>2. PlaceInv'
  BY SpinAssumption DEF SpinTypeOK, PlaceInv, HoldInv, Contexts, HoldsOther, HoldsPtable, Waits, One
<1>3. HoldInv'
  BY SpinAssumption DEF SpinTypeOK, SpinLocks, PlaceInv, HoldInv, Contexts, HoldsOther, HoldsPtable, Waits, One
<1>4. FlagInv'
  BY SpinAssumption DEF SpinTypeOK, PlaceInv, HoldInv, FlagInv, Contexts, HoldsOther, HoldsPtable, Waits, One
<1>. QED
  BY <1>1, <1>2, <1>3, <1>4

\* The head of the loop of scheduler().
LEMMA StiSpinInv ==
  ASSUME SpinInv, NEW c \in Processors, NEW x \in Contexts,
         sti(c)
  PROVE  SpinInv'
<1>. USE DEF SpinInv, sti, At, To
<1>1. SpinTypeOK'
  BY SpinAssumption DEF SpinTypeOK, Stages, Contexts, SpinLocks
<1>2. PlaceInv'
  BY SpinAssumption DEF SpinTypeOK, PlaceInv, HoldInv, Contexts, HoldsOther, HoldsPtable, Waits, One
<1>3. HoldInv'
  BY SpinAssumption DEF SpinTypeOK, SpinLocks, PlaceInv, HoldInv, Contexts, HoldsOther, HoldsPtable, Waits, One
<1>4. FlagInv'
  BY SpinAssumption DEF SpinTypeOK, PlaceInv, HoldInv, FlagInv, Contexts, HoldsOther, HoldsPtable, Waits, One
<1>. QED
  BY <1>1, <1>2, <1>3, <1>4

\* An interrupt.
LEMMA InterruptSpinInv ==
  ASSUME SpinInv, NEW c \in Processors, NEW x \in Contexts,
         Interrupt(c, x)
  PROVE  SpinInv'
<1>. USE DEF SpinInv, Interrupt, At, SetMode
<1>1. SpinTypeOK'
  BY SpinAssumption DEF SpinTypeOK, Stages, Contexts, SpinLocks
<1>2. PlaceInv'
  BY SpinAssumption DEF SpinTypeOK, PlaceInv, HoldInv, Contexts, HoldsOther, HoldsPtable, Waits, One
<1>3. HoldInv'
  BY SpinAssumption DEF SpinTypeOK, SpinLocks, PlaceInv, HoldInv, Contexts, HoldsOther, HoldsPtable, Waits, One
<1>4. FlagInv'
  BY SpinAssumption DEF SpinTypeOK, PlaceInv, HoldInv, FlagInv, Contexts, HoldsOther, HoldsPtable, Waits, One
<1>. QED
  BY <1>1, <1>2, <1>3, <1>4

\* Its end.
LEMMA IretSpinInv ==
  ASSUME SpinInv, NEW c \in Processors, NEW x \in Contexts,
         Iret(c, x)
  PROVE  SpinInv'
<1>. USE DEF SpinInv, Iret, At, SetMode
<1>1. SpinTypeOK'
  BY SpinAssumption DEF SpinTypeOK, Stages, Contexts, SpinLocks
<1>2. PlaceInv'
  BY SpinAssumption DEF SpinTypeOK, PlaceInv, HoldInv, Contexts, HoldsOther, HoldsPtable, Waits, One
<1>3. HoldInv'
  BY SpinAssumption DEF SpinTypeOK, SpinLocks, PlaceInv, HoldInv, Contexts, HoldsOther, HoldsPtable, Waits, One
<1>4. FlagInv'
  BY SpinAssumption DEF SpinTypeOK, PlaceInv, HoldInv, FlagInv, Contexts, HoldsOther, HoldsPtable, Waits, One
<1>. QED
  BY <1>1, <1>2, <1>3, <1>4

\* A system call, or its end.
LEMMA SyscallSpinInv ==
  ASSUME SpinInv, NEW c \in Processors, NEW x \in Contexts,
         Syscall(c, x)
  PROVE  SpinInv'
<1>. USE DEF SpinInv, Syscall, At, SetMode
<1>1. SpinTypeOK'
  BY SpinAssumption DEF SpinTypeOK, Stages, Contexts, SpinLocks
<1>2. PlaceInv'
  BY SpinAssumption DEF SpinTypeOK, PlaceInv, HoldInv, Contexts, HoldsOther, HoldsPtable, Waits, One
<1>3. HoldInv'
  BY SpinAssumption DEF SpinTypeOK, SpinLocks, PlaceInv, HoldInv, Contexts, HoldsOther, HoldsPtable, Waits, One
<1>4. FlagInv'
  BY SpinAssumption DEF SpinTypeOK, PlaceInv, HoldInv, FlagInv, Contexts, HoldsOther, HoldsPtable, Waits, One
<1>. QED
  BY <1>1, <1>2, <1>3, <1>4

\* The invariant is preserved by every step of a CPU.
LEMMA NextSpinInv == SpinInv /\ [SpinNext]_spinVars => SpinInv'
<1>. SUFFICES ASSUME SpinInv, [SpinNext]_spinVars PROVE SpinInv'
  OBVIOUS
<1>1. CASE UNCHANGED spinVars
  BY <1>1 DEF spinVars, SpinInv, SpinTypeOK, PlaceInv, HoldInv, FlagInv
<1>2. ASSUME NEW c \in Processors, NEW x \in Contexts, Section(c, x) PROVE SpinInv'
  BY <1>2, WantSpinInv, GotSpinInv, DropSpinInv DEF Section
<1>3. ASSUME NEW c \in Processors, NEW x \in Contexts, PtableSection(c, x) PROVE SpinInv'
  BY <1>3, WantSpinInv, GotSpinInv, DropSpinInv DEF PtableSection
<1>4. ASSUME NEW c \in Processors, NEW x \in Contexts, sleep(c, x) \/ forkret(c, x) PROVE SpinInv'
  BY <1>4, DropSpinInv DEF sleep, forkret
<1>. QED
  BY <1>1, <1>2, <1>3, <1>4, SchedSpinInv, SchedulerSpinInv, ResumeSpinInv, TrapretSpinInv, StiSpinInv,
     InterruptSpinInv, IretSpinInv, SyscallSpinInv DEF SpinNext

\* So it holds always: spinlock.c, sched() and scheduler() keep locks, counts
\* and interrupt flags in step on any number of CPUs.
THEOREM SpinInvariance == SpinSpec => []SpinInv
BY InitSpinInv, NextSpinInv, PTL DEF SpinSpec

\* How many locks a CPU holds.
LEMMA LocksHeld ==
  ASSUME NEW c
  PROVE  Cardinality({l \in SpinLocks : cpuOf[l] = c})
           = One(cpuOf[otherlock] = c) + One(cpuOf[ptablelock] = c)
<1>. DEFINE held == {l \in SpinLocks : cpuOf[l] = c}
<1>1. CASE cpuOf[otherlock] # c /\ cpuOf[ptablelock] # c
  <2>1. held = {}
    BY <1>1 DEF SpinLocks
  <2>. QED
    BY <1>1, <2>1, FS_EmptySet DEF One
<1>2. CASE cpuOf[otherlock] = c /\ cpuOf[ptablelock] # c
  <2>1. held = {otherlock}
    BY <1>2 DEF SpinLocks
  <2>. QED
    BY <1>2, <2>1, FS_Singleton DEF One
<1>3. CASE cpuOf[otherlock] # c /\ cpuOf[ptablelock] = c
  <2>1. held = {ptablelock}
    BY <1>3 DEF SpinLocks
  <2>. QED
    BY <1>3, <2>1, FS_Singleton DEF One
<1>4. CASE cpuOf[otherlock] = c /\ cpuOf[ptablelock] = c
  <2>1. held = {otherlock} \cup {ptablelock}
    BY <1>4 DEF SpinLocks
  <2>2. Cardinality({otherlock} \cup {ptablelock}) = 2
    <3>1. IsFiniteSet({otherlock}) /\ Cardinality({otherlock}) = 1 /\ ptablelock \notin {otherlock}
      BY FS_Singleton, SpinAssumption
    <3>. QED
      BY <3>1, FS_AddElement
  <2>. QED
    BY <1>4, <2>1, <2>2 DEF One
<1>. QED
  BY <1>1, <1>2, <1>3, <1>4

\* On any machine no CPU with a lock is interrupted, and the panics of
\* acquire(), release(), popcli() and sched() are unreachable.
THEOREM LocksAlwaysSound == SpinSpec => []LocksSound
<1>1. SpinInv => LocksSound
  <2>. SUFFICES ASSUME SpinInv PROVE LocksSound
    OBVIOUS
  <2>1. HoldersUninterrupted
    <3>. SUFFICES ASSUME NEW c \in Processors
                  PROVE  LET s == stage[current[c]] IN
                         /\ ncli[c] = One(Waits(s)) + Cardinality({l \in SpinLocks : cpuOf[l] = c})
                         /\ ncli[c] > 0 => ~iflag[c]
                         /\ s = "want" => cpuOf[otherlock] # c
                         /\ s \in {"want2", "wantpt"} => cpuOf[ptablelock] # c
      BY DEF HoldersUninterrupted, Waits, One
    <3>1. Cardinality({l \in SpinLocks : cpuOf[l] = c}) = One(cpuOf[otherlock] = c) + One(cpuOf[ptablelock] = c)
      BY ZenonT(40), LocksHeld
    <3>2. /\ cpuOf[otherlock] = c <=> HoldsOther(stage[current[c]])
          /\ cpuOf[ptablelock] = c <=> HoldsPtable(stage[current[c]])
          /\ ncli[c] > 0 => ~iflag[c]
      BY DEF SpinInv, HoldInv
    <3>3. ncli[c] = One(Waits(stage[current[c]])) + (One(cpuOf[otherlock] = c) + One(cpuOf[ptablelock] = c))
      BY <3>2 DEF SpinInv, HoldInv, One
    <3>. QED
      BY <3>1, <3>2, <3>3 DEF HoldsOther, HoldsPtable, Waits, One
  <2>2. SchedAssertionsHold
    BY DEF SpinInv, HoldInv, SchedAssertionsHold, HoldsOther, HoldsPtable, Waits, One
  <2>. QED
    BY <2>1, <2>2 DEF LocksSound
<1>. QED
  BY <1>1, SpinInvariance, PTL

\* A context has its interrupt flag back after every critical section and every
\* context switch, on whichever CPU it goes on.
THEOREM InterruptsAlwaysRestored == SpinSpec => []InterruptsRestored
<1>1. SpinInv => InterruptsRestored
  BY DEF SpinInv, SpinTypeOK, FlagInv, InterruptsRestored
<1>. QED
  BY <1>1, SpinInvariance, PTL
=============================================================================
