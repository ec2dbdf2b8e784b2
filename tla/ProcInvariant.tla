--------------------------- MODULE ProcInvariant ----------------------------
(***************************************************************************)
(* The inductive invariant of module Proc, for any number of slots and     *)
(* processors, any bounds and both schedulers: it holds initially, and the *)
(* scheduler, the clock, nice() and the steps of fork() preserve it; and   *)
(* the one of module PrioLock, with the steps that preserve it.            *)
(***************************************************************************)
EXTENDS PrioLock, WellFoundedInduction, TLAPS

SwitchedOut == {"forkret", "yield", "sleep", "wait"}

\* Where a thread is switched out, and who holds ptable.lock for it.
CtxInv ==
  /\ \A c \in CPUs : proc[c] # 0 =>
       IF ptlock = c THEN ctx[proc[c]] \in SwitchedOut ELSE ctx[proc[c]] \in {"none", "tick"}
  /\ \A s \in Slots : state[s] \in {"SLEEPING", "RUNNABLE"} => ctx[s] \in SwitchedOut
  /\ \A s \in Slots : state[s] = "SLEEPING" => ctx[s] \in {"sleep", "wait"}
  /\ \A s \in Slots : ctx[s] = "wait" => pc[s] = "user"
  /\ \A s \in Slots : ctx[s] = "sleep" => pc[s] = "sleeploop"

\* A fork() in progress and its EMBRYO.
ForkInv ==
  /\ \A p \in Slots : pc[p] \in ForkPc <=> np[p] # 0
  /\ \A p \in Slots : np[p] # 0 =>
       /\ state[np[p]] = "EMBRYO"
       /\ pc[p] \in {"copyuvm", "runnable"} => ctx[np[p]] = "forkret"
       /\ parent[np[p]] = IF pc[p] = "runnable" THEN p ELSE 0
  /\ \A p, q \in Slots : np[p] = np[q] /\ np[p] # 0 => p = q
  /\ \A s \in Slots : state[s] = "EMBRYO" => \E p \in Slots : np[p] = s
  /\ \A p \in Slots : pc[p] # "user" => Alive(p)

\* The tree of parents: it is rooted in init and made of processes that are alive.
ParentInv ==
  /\ Alive(initproc) /\ parent[initproc] = 0
  /\ \A s \in Slots : parent[s] # 0 => Alive(parent[s]) /\ parent[s] # s
  /\ \A s \in Slots : state[s] = "UNUSED" => parent[s] = 0
  /\ \A s \in Slots \ {initproc} : Alive(s) \/ state[s] = "ZOMBIE" => parent[s] # 0

\* The inductive invariant.
IInv == TypeOK /\ OneCpuPerProcess /\ CtxInv /\ ForkInv /\ ParentInv /\ NoMissedExit

-----------------------------------------------------------------------------
\* A nonempty set of naturals has a least element, which Min returns.
LEMMA MinIsLeast ==
  ASSUME NEW S \in SUBSET Nat, S # {}
  PROVE  Min(S) \in S /\ \A y \in S : Min(S) <= y
<1>1. PICK x \in S : \A y \in S : ~(<<y, x>> \in OpToRel(<, Nat))
  BY WFMin, NatLessThanWellFounded
<1>2. ASSUME NEW y \in S PROVE x <= y
  <2>1. <<y, x>> \in Nat \X Nat /\ y \in Nat /\ x \in Nat
    OBVIOUS
  <2>2. y < x => <<y, x>> \in OpToRel(<, Nat)
    BY <2>1 DEF OpToRel
  <2>3. ~(<<y, x>> \in OpToRel(<, Nat))
    BY <1>1
  <2>4. ~(y < x)
    BY <2>2, <2>3
  <2>. QED
    BY <2>1, <2>4
<1>. QED
  BY Zenon, <1>2 DEF Min

\* HighestPriority is a RUNNABLE slot whenever there is one.
LEMMA HighestPriorityRunnable ==
  ASSUME TypeOK, \E s \in Slots : state[s] = "RUNNABLE"
  PROVE  HighestPriority \in Slots /\ state[HighestPriority] = "RUNNABLE"
<1>. DEFINE R == {s \in Slots : state[s] = "RUNNABLE"}
            L == {priority[s] : s \in R}
            m == Min(L)
            B == {s \in R : priority[s] = m}
<1>1. NPROC \in Nat
  BY ProcAssumption
<1>2. L \in SUBSET Nat /\ L # {}
  <2>1. \A s \in R : priority[s] \in Nat
    BY DEF TypeOK
  <2>. QED
    BY <2>1
<1>3. m \in L /\ \A y \in L : m <= y
  BY Zenon, <1>2, MinIsLeast
<1>4. B \in SUBSET Nat /\ B # {}
  <2>1. \E s \in R : priority[s] = m
    BY Zenon, <1>3
  <2>2. R \in SUBSET Nat
    BY <1>1 DEF Slots
  <2>. HIDE DEF m, R
  <2>. QED
    BY Zenon, <2>1, <2>2
<1>5. Min(B) \in B /\ \A y \in B : Min(B) <= y
  BY Zenon, <1>4, MinIsLeast
<1>6. \E s \in Slots :
        /\ state[s] = "RUNNABLE"
        /\ \A t \in Slots : state[t] = "RUNNABLE" =>
             priority[s] < priority[t] \/ (priority[s] = priority[t] /\ s <= t)
  <2>. SUFFICES ASSUME NEW t \in Slots, state[t] = "RUNNABLE"
                PROVE  priority[Min(B)] < priority[t]
                       \/ (priority[Min(B)] = priority[t] /\ Min(B) <= t)
    BY Zenon, <1>5
  <2>1. priority[t] \in L /\ priority[Min(B)] = m /\ m \in Nat /\ priority[t] \in Nat
    BY <1>2, <1>3, <1>5
  <2>2. m <= priority[t]
    BY <2>1, <1>3
  <2>. QED
    BY <2>1, <2>2, <1>5
<1>. QED
  BY <1>6 DEF HighestPriority

\* NextInTable(c) is a RUNNABLE slot whenever the loop still has one before it.
LEMMA NextInTableRunnable ==
  ASSUME TypeOK, NEW c \in CPUs, \E s \in Slots : state[s] = "RUNNABLE" /\ s >= scan[c]
  PROVE  NextInTable(c) \in Slots /\ state[NextInTable(c)] = "RUNNABLE"
<1>. DEFINE R == {s \in Slots : state[s] = "RUNNABLE" /\ s >= scan[c]}
<1>1. R \in SUBSET Nat /\ R # {}
  BY ProcAssumption DEF Slots
<1>2. Min(R) \in R /\ \A y \in R : Min(R) <= y
  BY <1>1, MinIsLeast
<1>. QED
  BY <1>2 DEF NextInTable

\* The slots are the positive numbers up to NPROC; &ticks is none of them.
LEMMA SlotsFacts == /\ initproc \in Slots /\ 0 \notin Slots /\ ticksChan \notin Slots
                    /\ 0 \in 0..ticksChan /\ ticksChan \in 0..ticksChan
                    /\ Slots \subseteq 0..ticksChan /\ Slots \subseteq Nat
                    /\ 1 \in 1..(NPROC + 1) /\ \A s \in Slots : s + 1 \in 1..(NPROC + 1)
BY ProcAssumption DEF Slots, initproc, ticksChan

\* userinit() leaves the table in a state of the invariant.
LEMMA InitIInv == Init => IInv
<1>. SUFFICES ASSUME Init PROVE IInv
  OBVIOUS
<1>1. TypeOK
  <2>1. /\ state \in [Slots -> ProcState] /\ ctx \in [Slots -> Ctx]
        /\ pc \in [Slots -> {"user"} \cup ForkPc \cup SleepPc]
    BY DEF Init, ProcState, Ctx
  <2>2. pid \in [Slots -> Nat] /\ nextpid \in Nat
    BY DEF Init
  <2>3. /\ nice \in [Slots -> 0..5] /\ priority \in [Slots -> 0..5]
        /\ original_priority \in [Slots -> -1..5]
    BY DEF Init
  <2>4. /\ parent \in [Slots -> Slots \cup {0}] /\ chan \in [Slots -> 0..ticksChan]
        /\ killed \in [Slots -> {0, 1}] /\ np \in [Slots -> Slots \cup {0}]
        /\ scan \in [CPUs -> 1..(NPROC + 1)]
    BY SlotsFacts DEF Init
  <2>5. /\ proc \in [CPUs -> Slots \cup {0}] /\ ptlock \in CPUs \cup {NoCpu}
        /\ panicked \in BOOLEAN
    BY Zenon DEF Init
  <2>. QED
    BY <2>1, <2>2, <2>3, <2>4, <2>5 DEF TypeOK
<1>2. OneCpuPerProcess
  BY SlotsFacts DEF Init, OneCpuPerProcess
<1>3. CtxInv
  BY SlotsFacts DEF Init, CtxInv, SwitchedOut
<1>4. ForkInv
  BY SlotsFacts DEF Init, ForkInv, ForkPc
<1>5. ParentInv
  BY SlotsFacts DEF Init, ParentInv, Alive
<1>6. NoMissedExit
  BY SlotsFacts DEF Init, NoMissedExit
<1>. QED
  BY <1>1, <1>2, <1>3, <1>4, <1>5, <1>6 DEF IInv

\* Switching to a RUNNABLE process.
LEMMA DispatchIInv ==
  ASSUME IInv, NEW c \in CPUs, NEW p \in Slots, state[p] = "RUNNABLE", proc[c] = 0,
         ptlock \in {c, NoCpu}, Dispatch(c, p), scan' \in [CPUs -> 1..(NPROC + 1)],
         UNCHANGED <<pid, parent, chan, killed, levels, nextpid, ctx, pc, np, panicked>>
  PROVE  IInv'
<1>. USE SlotsFacts, ProcAssumption DEF IInv, Dispatch, levels
<1>1. TypeOK'
  BY Zenon DEF TypeOK, ProcState
<1>2. OneCpuPerProcess'
  BY DEF TypeOK, OneCpuPerProcess
<1>3. CtxInv'
  BY DEF TypeOK, CtxInv
<1>4. ForkInv'
  BY DEF TypeOK, ForkInv, Alive
<1>5. ParentInv'
  BY DEF TypeOK, ParentInv, Alive
<1>6. NoMissedExit'
  BY DEF TypeOK, NoMissedExit
<1>. QED
  BY <1>1, <1>2, <1>3, <1>4, <1>5, <1>6

\* A round of either scheduler().
LEMMA SchedulerIInv ==
  ASSUME IInv, NEW c \in CPUs, scheduler(c)
  PROVE  IInv'
<1>. USE DEF scheduler
<1>1. CASE PriorityScheduler(c)
  <2>1. HighestPriority \in Slots /\ state[HighestPriority] = "RUNNABLE"
    BY <1>1, HighestPriorityRunnable DEF PriorityScheduler, IInv
  <2>. QED
    BY <1>1, <2>1, DispatchIInv DEF PriorityScheduler, PtableFree, IInv, TypeOK
<1>2. CASE RoundRobinScheduler(c)
  <2>1. CASE \E s \in Slots : state[s] = "RUNNABLE" /\ s >= scan[c]
    <3>1. NextInTable(c) \in Slots /\ state[NextInTable(c)] = "RUNNABLE"
      BY <2>1, NextInTableRunnable DEF IInv
    <3>2. scan' \in [CPUs -> 1..(NPROC + 1)]
      BY ZenonT(120), <1>2, <2>1, <3>1, SlotsFacts DEF RoundRobinScheduler, IInv, TypeOK
    <3>. QED
      BY <1>2, <2>1, <3>1, <3>2, DispatchIInv DEF RoundRobinScheduler, PtableFree
  <2>2. CASE ~\E s \in Slots : state[s] = "RUNNABLE" /\ s >= scan[c]
    <3>. USE <1>2, <2>2, SlotsFacts, ProcAssumption
        DEF RoundRobinScheduler, IInv, PtableFree, levels
    <3>1. TypeOK'
      BY DEF TypeOK
    <3>2. OneCpuPerProcess'
      BY DEF OneCpuPerProcess
    <3>3. CtxInv'
      BY DEF TypeOK, CtxInv
    <3>4. ForkInv' /\ ParentInv' /\ NoMissedExit'
      BY DEF ForkInv, ParentInv, NoMissedExit, Alive
    <3>. QED
      BY <3>1, <3>2, <3>3, <3>4
  <2>. QED
    BY <2>1, <2>2
<1>. QED
  BY <1>1, <1>2

\* The timer tick.
LEMMA TimerTickIInv ==
  ASSUME IInv, TimerTick
  PROVE  IInv'
<1>. USE SlotsFacts, ProcAssumption DEF IInv, TimerTick, PtableFree, TicksFree, wakeup1, levels
<1>1. TypeOK'
  BY DEF TypeOK, ProcState, ForkPc, SleepPc, Ctx
<1>2. OneCpuPerProcess'
  BY SMTT(60) DEF TypeOK, OneCpuPerProcess
<1>3. CtxInv'
  BY SMTT(60) DEF TypeOK, CtxInv, SwitchedOut
<1>4. ForkInv'
  BY SMTT(60) DEF TypeOK, ForkInv, ForkPc, Alive
<1>5. ParentInv'
  BY SMTT(60) DEF TypeOK, ParentInv, Alive
<1>6. NoMissedExit'
  BY DEF TypeOK, NoMissedExit
<1>. QED
  BY SMTT(60), <1>1, <1>2, <1>3, <1>4, <1>5, <1>6

\* nice().
LEMMA SysNiceIInv ==
  ASSUME IInv, NEW c \in CPUs, NEW p \in Slots, NEW k, NEW v \in NiceArgs, SysNice(c, p, k, v)
  PROVE  IInv'
<1>. USE SlotsFacts, ProcAssumption DEF IInv, SysNice, ValidNice, fields
<1>a. v \in 0..5
  OBVIOUS
<1>1. TypeOK'
  <2>1. nice' \in [Slots -> 0..5] /\ priority' \in [Slots -> 0..5]
    BY ZenonT(60), <1>a DEF TypeOK
  <2>. QED
    BY <2>1 DEF TypeOK
<1>2. OneCpuPerProcess'
  BY SMTT(60), <1>a DEF TypeOK, OneCpuPerProcess
<1>3. CtxInv'
  BY SMTT(60), <1>a DEF TypeOK, CtxInv, SwitchedOut
<1>4. ForkInv'
  BY SMTT(60), <1>a DEF TypeOK, ForkInv, ForkPc, Alive
<1>5. ParentInv'
  BY SMTT(60), <1>a DEF TypeOK, ParentInv, Alive
<1>6. NoMissedExit'
  BY <1>a DEF TypeOK, NoMissedExit
<1>. QED
  BY <1>1, <1>2, <1>3, <1>4, <1>5, <1>6

-----------------------------------------------------------------------------
\* The process inside fork() is running, its EMBRYO is another slot, which
\* no CPU runs.
LEMMA ForkerFacts ==
  ASSUME IInv, NEW c \in CPUs, NEW p \in Slots, Running(c, p), pc[p] \in ForkPc
  PROVE  /\ state[p] = "RUNNING" /\ np[p] \in Slots /\ state[np[p]] = "EMBRYO"
         /\ np[p] # p /\ np[p] # initproc
         /\ \A d \in CPUs : proc[d] # np[p]
         /\ \A q \in Slots : q # p => np[q] # np[p]
         /\ \A s \in Slots : parent[s] # np[p]
         /\ pc[np[p]] = "user"
<1>1. state[p] = "RUNNING"
  BY DEF IInv, Running, OneCpuPerProcess
<1>2. np[p] \in Slots /\ state[np[p]] = "EMBRYO"
  BY DEF IInv, TypeOK, ForkInv
<1>3. pc[np[p]] = "user" /\ ~Alive(np[p])
  BY <1>2 DEF IInv, ForkInv, Alive
<1>4. \A s \in Slots : parent[s] # np[p]
  BY <1>2, <1>3, SlotsFacts DEF IInv, ParentInv, TypeOK
<1>5. \A d \in CPUs : proc[d] # np[p]
  BY <1>2, SlotsFacts DEF IInv, OneCpuPerProcess
<1>6. np[p] # p /\ np[p] # initproc
  BY <1>1, <1>2, <1>3 DEF IInv, ParentInv
<1>7. \A q \in Slots : q # p => np[q] # np[p]
  BY <1>2, SlotsFacts DEF IInv, ForkInv
<1>. QED
  BY <1>1, <1>2, <1>3, <1>4, <1>5, <1>6, <1>7

\* allocproc() or fork() fails and gives its EMBRYO up.
LEMMA GiveUpIInv ==
  ASSUME IInv, NEW c \in CPUs, NEW p \in Slots, Running(c, p),
         pc[p] \in {"alloc_kstack", "copyuvm"}, GiveUp(p),
         original_priority' \in [Slots -> -1..5],
         UNCHANGED <<pid, parent, chan, killed, nice, priority, nextpid, proc, ptlock, ctx,
                     scan, panicked>>
  PROVE  IInv'
<1>. USE SlotsFacts DEF IInv, GiveUp
<1>0. pc[p] \in ForkPc
  BY DEF ForkPc
<1>a. /\ state[p] = "RUNNING" /\ np[p] \in Slots /\ state[np[p]] = "EMBRYO"
      /\ np[p] # p /\ np[p] # initproc
      /\ \A d \in CPUs : proc[d] # np[p]
      /\ \A q \in Slots : q # p => np[q] # np[p]
      /\ \A s \in Slots : parent[s] # np[p]
      /\ pc[np[p]] = "user"
  BY <1>0, ForkerFacts
<1>1. TypeOK'
  BY Zenon, <1>a DEF TypeOK, ProcState
<1>2. OneCpuPerProcess'
  BY <1>a DEF TypeOK, OneCpuPerProcess
<1>3. CtxInv'
  BY <1>a DEF TypeOK, CtxInv, SwitchedOut
<1>4. ForkInv'
  BY <1>a DEF TypeOK, ForkInv, ForkPc, Alive
<1>5. ParentInv'
  <2>1. parent[np[p]] = 0
    BY <1>0 DEF ForkInv
  <2>. QED
    BY <1>a, <2>1 DEF TypeOK, ParentInv, Alive
<1>6. NoMissedExit'
  BY <1>a DEF TypeOK, NoMissedExit
<1>. QED
  BY <1>1, <1>2, <1>3, <1>4, <1>5, <1>6

\* allocproc() sets nice.
LEMMA AllocNiceIInv ==
  ASSUME IInv, NEW c \in CPUs, NEW p \in Slots, AllocNice(c, p)
  PROVE  IInv'
<1>. USE SlotsFacts, ProcAssumption DEF IInv, AllocNice, Running, fields
<1>0. pc[p] \in ForkPc
  BY DEF ForkPc
<1>a. /\ state[p] = "RUNNING" /\ np[p] \in Slots /\ state[np[p]] = "EMBRYO"
      /\ np[p] # p /\ np[p] # initproc
      /\ \A d \in CPUs : proc[d] # np[p]
      /\ \A q \in Slots : q # p => np[q] # np[p]
      /\ \A s \in Slots : parent[s] # np[p]
      /\ pc[np[p]] = "user"
  BY <1>0, ForkerFacts
<1>1. TypeOK'
  BY <1>a DEF TypeOK, ProcState, ForkPc, SleepPc, Ctx
<1>2. OneCpuPerProcess'
  BY <1>a DEF TypeOK, OneCpuPerProcess
<1>3. CtxInv'
  BY <1>a DEF TypeOK, CtxInv, SwitchedOut
<1>4. ForkInv'
  BY <1>a DEF TypeOK, ForkInv, ForkPc, Alive
<1>5. ParentInv'
  BY <1>a DEF TypeOK, ParentInv, Alive
<1>6. NoMissedExit'
  BY <1>a DEF TypeOK, NoMissedExit
<1>. QED
  BY <1>1, <1>2, <1>3, <1>4, <1>5, <1>6

\* allocproc() sets priority.
LEMMA AllocPriorityIInv ==
  ASSUME IInv, NEW c \in CPUs, NEW p \in Slots, AllocPriority(c, p)
  PROVE  IInv'
<1>. USE SlotsFacts, ProcAssumption DEF IInv, AllocPriority, Running, fields
<1>0. pc[p] \in ForkPc
  BY DEF ForkPc
<1>a. /\ state[p] = "RUNNING" /\ np[p] \in Slots /\ state[np[p]] = "EMBRYO"
      /\ np[p] # p /\ np[p] # initproc
      /\ \A d \in CPUs : proc[d] # np[p]
      /\ \A q \in Slots : q # p => np[q] # np[p]
      /\ \A s \in Slots : parent[s] # np[p]
      /\ pc[np[p]] = "user"
  BY <1>0, ForkerFacts
<1>1. TypeOK'
  BY <1>a DEF TypeOK, ProcState, ForkPc, SleepPc, Ctx
<1>2. OneCpuPerProcess'
  BY <1>a DEF TypeOK, OneCpuPerProcess
<1>3. CtxInv'
  BY <1>a DEF TypeOK, CtxInv, SwitchedOut
<1>4. ForkInv'
  BY <1>a DEF TypeOK, ForkInv, ForkPc, Alive
<1>5. ParentInv'
  BY <1>a DEF TypeOK, ParentInv, Alive
<1>6. NoMissedExit'
  BY <1>a DEF TypeOK, NoMissedExit
<1>. QED
  BY <1>1, <1>2, <1>3, <1>4, <1>5, <1>6

\* allocproc() gets a kernel stack, or not.
LEMMA AllocKstackIInv ==
  ASSUME IInv, NEW c \in CPUs, NEW p \in Slots, AllocKstack(c, p)
  PROVE  IInv'
<1>. USE SlotsFacts DEF IInv, Running
<1>0. pc[p] \in ForkPc
  BY DEF AllocKstack, ForkPc
<1>a. /\ state[p] = "RUNNING" /\ np[p] \in Slots /\ state[np[p]] = "EMBRYO"
      /\ np[p] # p /\ np[p] # initproc
      /\ \A d \in CPUs : proc[d] # np[p]
      /\ \A q \in Slots : q # p => np[q] # np[p]
      /\ \A s \in Slots : parent[s] # np[p]
      /\ pc[np[p]] = "user"
  BY <1>0, ForkerFacts DEF AllocKstack
<1>1. CASE /\ ctx' = [ctx EXCEPT ![np[p]] = "forkret"]
             /\ pc' = [pc EXCEPT ![p] = "copyuvm"]
             /\ UNCHANGED <<state, np>>
  <2>. USE <1>1 DEF AllocKstack
  <2>1. TypeOK'
    BY <1>a DEF TypeOK, ProcState, ForkPc, SleepPc, Ctx
  <2>2. OneCpuPerProcess'
    BY <1>a DEF TypeOK, OneCpuPerProcess
  <2>3. CtxInv'
    BY <1>a DEF TypeOK, CtxInv, SwitchedOut
  <2>4. ForkInv'
    BY <1>a DEF TypeOK, ForkInv, ForkPc, Alive
  <2>5. ParentInv'
    BY <1>a DEF TypeOK, ParentInv, Alive
  <2>6. NoMissedExit'
    BY <1>a DEF TypeOK, NoMissedExit
  <2>. QED
    BY <2>1, <2>2, <2>3, <2>4, <2>5, <2>6
<1>2. CASE GiveUp(p) /\ UNCHANGED ctx
  <2>1. original_priority' \in [Slots -> -1..5]
    BY <1>a DEF AllocKstack, TypeOK
  <2>. QED
    BY <1>2, <2>1, GiveUpIInv DEF AllocKstack
<1>. QED
  BY <1>1, <1>2 DEF AllocKstack

\* fork() copies the address space, or not.
LEMMA ForkCopyIInv ==
  ASSUME IInv, NEW c \in CPUs, NEW p \in Slots, ForkCopy(c, p)
  PROVE  IInv'
<1>. USE SlotsFacts DEF IInv, Running, levels
<1>0. pc[p] \in ForkPc
  BY DEF ForkCopy, ForkPc
<1>a. /\ state[p] = "RUNNING" /\ np[p] \in Slots /\ state[np[p]] = "EMBRYO"
      /\ np[p] # p /\ np[p] # initproc
      /\ \A d \in CPUs : proc[d] # np[p]
      /\ \A q \in Slots : q # p => np[q] # np[p]
      /\ \A s \in Slots : parent[s] # np[p]
      /\ pc[np[p]] = "user"
  BY <1>0, ForkerFacts DEF ForkCopy
<1>1. CASE /\ parent' = [parent EXCEPT ![np[p]] = p]
             /\ pc' = [pc EXCEPT ![p] = "runnable"]
             /\ UNCHANGED <<state, np>>
  <2>. USE <1>1 DEF ForkCopy
  <2>1. TypeOK'
    BY <1>a DEF TypeOK, ProcState, ForkPc, SleepPc, Ctx
  <2>2. OneCpuPerProcess'
    BY <1>a DEF TypeOK, OneCpuPerProcess
  <2>3. CtxInv'
    BY <1>a DEF TypeOK, CtxInv, SwitchedOut
  <2>4. ForkInv'
    BY <1>a DEF TypeOK, ForkInv, ForkPc, Alive
  <2>5. ParentInv'
    BY <1>a DEF TypeOK, ParentInv, Alive
  <2>6. NoMissedExit'
    <3>1. parent[np[p]] = 0
      BY <1>0 DEF ForkInv
    <3>. QED
      BY <1>a, <3>1 DEF TypeOK, NoMissedExit
  <2>. QED
    BY <2>1, <2>2, <2>3, <2>4, <2>5, <2>6
<1>2. CASE GiveUp(p) /\ UNCHANGED parent
  BY <1>2, GiveUpIInv DEF ForkCopy, TypeOK
<1>. QED
  BY <1>1, <1>2 DEF ForkCopy

\* fork() makes the child RUNNABLE.
LEMMA ForkRunnableIInv ==
  ASSUME IInv, NEW c \in CPUs, NEW p \in Slots, ForkRunnable(c, p)
  PROVE  IInv'
<1>. USE SlotsFacts, ProcAssumption DEF IInv, ForkRunnable, Running, levels
<1>0. pc[p] \in ForkPc
  BY DEF ForkPc
<1>a. /\ state[p] = "RUNNING" /\ np[p] \in Slots /\ state[np[p]] = "EMBRYO"
      /\ np[p] # p /\ np[p] # initproc
      /\ \A d \in CPUs : proc[d] # np[p]
      /\ \A q \in Slots : q # p => np[q] # np[p]
      /\ \A s \in Slots : parent[s] # np[p]
      /\ pc[np[p]] = "user"
  BY <1>0, ForkerFacts
<1>b. ctx[np[p]] = "forkret" /\ parent[np[p]] = p
  BY <1>a DEF ForkInv
<1>1. TypeOK'
  BY <1>a DEF TypeOK, ProcState, ForkPc, SleepPc, Ctx
<1>2. OneCpuPerProcess'
  BY <1>a DEF TypeOK, OneCpuPerProcess
<1>3. CtxInv'
  BY <1>a, <1>b DEF TypeOK, CtxInv, SwitchedOut
<1>4. ForkInv'
  BY <1>a DEF TypeOK, ForkInv, ForkPc, Alive
<1>5. ParentInv'
  BY <1>a, <1>b DEF TypeOK, ParentInv, Alive
<1>6. NoMissedExit'
  BY <1>a DEF TypeOK, NoMissedExit
<1>. QED
  BY <1>1, <1>2, <1>3, <1>4, <1>5, <1>6

-----------------------------------------------------------------------------
\* Module PrioLock.  A slot is settled once allocproc() has initialised its
\* original_priority: a loan made before, to the dead holder of a lock, is forgotten.
Settled(s) == Alive(s) \/ \E p \in Slots : np[p] = s /\ pc[p] \in {"copyuvm", "runnable"}

BoostInv ==
  \A s \in Slots : Settled(s) /\ original_priority[s] # -1 => \E id \in LockIds : holder[id] = s

LockInv == IInv /\ holder \in [LockIds -> Slots \cup {0}] /\ BoostInv

\* A step that settles no slot and leaves the loans alone.
LEMMA SameBoost ==
  ASSUME BoostInv, holder' = holder, original_priority' = original_priority,
         \A s \in Slots : Settled(s)' => Settled(s)
  PROVE  BoostInv'
BY DEF BoostInv

\* A step that starts no process and moves no fork() on settles no slot.
LEMMA SameSettled ==
  ASSUME UNCHANGED <<pc, np>>, \A s \in Slots : Alive(s)' => Alive(s)
  PROVE  \A s \in Slots : Settled(s)' => Settled(s)
BY DEF Settled

\* wakeup() and kill() make sleepers runnable, which were alive before.
LEMMA WakeupAlive ==
  ASSUME NEW st, NEW ch, NEW s \in Slots
  PROVE  wakeup1(st, ch)[s] \in {"SLEEPING", "RUNNABLE", "RUNNING"}
           => st[s] \in {"SLEEPING", "RUNNABLE", "RUNNING"}
BY DEF wakeup1

\* The scheduler, the clock, sleep(), wait(), exit() and kill() settle no slot.
LEMMA SwitchBoost ==
  ASSUME IInv, BoostInv, holder' = holder, NEW c \in CPUs, NEW p \in Slots,
         \/ TimerTick \/ scheduler(c) \/ Resume(c) \/ TimerYield(c, p)
         \/ Exit(c, p) \/ Wait(c, p) \/ \E k \in PidArgs : Kill(c, p, k)
  PROVE  BoostInv'
<1>a. BoostInv /\ holder' = holder
  OBVIOUS
<1>0. TypeOK /\ OneCpuPerProcess /\ CtxInv
  BY DEF IInv
<1>1. UNCHANGED <<pc, np>> /\ original_priority' = original_priority
  BY DEF TimerTick, scheduler, Resume, TimerYield, Exit, Wait, Kill, levels
<1>2. CASE TimerTick
  <2>1. \A s \in Slots : Alive(s)' => Alive(s)
    BY ONLY <1>2, WakeupAlive DEF TimerTick, Alive
  <2> QED  BY ONLY <1>a, <1>1, <2>1, SameBoost, SameSettled
<1>3. CASE scheduler(c)
  <2>1. \A s \in Slots : Alive(s)' => Alive(s)
    <3>1. CASE PriorityScheduler(c)
      <4>1. HighestPriority \in Slots /\ state[HighestPriority] = "RUNNABLE"
        BY ONLY <1>0, <3>1, HighestPriorityRunnable DEF PriorityScheduler
      <4> QED  BY ONLY <1>0, <3>1, <4>1 DEF PriorityScheduler, Dispatch, Alive, TypeOK
    <3>2. CASE RoundRobinScheduler(c)
      <4>1. CASE \E s \in Slots : state[s] = "RUNNABLE" /\ s >= scan[c]
        <5>1. NextInTable(c) \in Slots /\ state[NextInTable(c)] = "RUNNABLE"
          BY ONLY <1>0, <4>1, NextInTableRunnable
        <5> QED  BY ONLY <1>0, <3>2, <4>1, <5>1 DEF RoundRobinScheduler, Dispatch, Alive, TypeOK
      <4>2. CASE ~\E s \in Slots : state[s] = "RUNNABLE" /\ s >= scan[c]
        BY ONLY <3>2, <4>2 DEF RoundRobinScheduler, Alive
      <4> QED  BY ONLY <4>1, <4>2
    <3> QED  BY ONLY <1>3, <3>1, <3>2 DEF scheduler
  <2> QED  BY ONLY <1>a, <1>1, <2>1, SameBoost, SameSettled
<1>4. ASSUME NEW q \in Slots, proc[c] = q, WaitLoop(c, q) PROVE BoostInv'
  <2>1. state[q] = "RUNNING"
    BY ONLY <1>0, <1>4, SlotsFacts DEF OneCpuPerProcess
  <2>2. \/ \E z : state' = [state EXCEPT ![z] = "UNUSED"]
        \/ state' = state
        \/ state' = [state EXCEPT ![q] = "SLEEPING"]
    BY ONLY <1>4 DEF WaitLoop, sched
  <2>3. \A s \in Slots : Alive(s)' => Alive(s)
    BY ONLY <1>0, <2>1, <2>2 DEF Alive, TypeOK
  <2> QED  BY ONLY <1>a, <1>1, <2>3, SameBoost, SameSettled
<1>5. CASE Resume(c)
  <2>1. proc[c] \in Slots
    BY ONLY <1>0, <1>5 DEF Resume, TypeOK
  <2>2. CASE state' = state
    BY ONLY <1>a, <1>1, <2>2, SameBoost, SameSettled DEF Alive
  <2>3. CASE WaitLoop(c, proc[c])
    BY ONLY <1>4, <2>1, <2>3
  <2> QED  BY ONLY <1>5, <2>2, <2>3 DEF Resume
<1>6. CASE Wait(c, p)
  BY ONLY <1>4, <1>6 DEF Wait, Syscall, InUser, Running
<1>7. CASE TimerYield(c, p)
  <2>1. state[p] = "RUNNING" /\ state' = [state EXCEPT ![p] = "RUNNABLE"]
    BY ONLY <1>0, <1>7, SlotsFacts DEF TimerYield, Running, OneCpuPerProcess, sched
  <2>2. \A s \in Slots : Alive(s)' => Alive(s)
    BY ONLY <1>0, <2>1 DEF Alive, TypeOK
  <2> QED  BY ONLY <1>a, <1>1, <2>2, SameBoost, SameSettled
<1>8. CASE Exit(c, p)
  <2>1. CASE p = initproc
    BY ONLY <1>a, <1>1, <1>8, <2>1, SameBoost, SameSettled DEF Exit, Alive
  <2>2. CASE p # initproc
    <3>1. state' = ExitStates(p)
      BY ONLY <1>8, <2>2 DEF Exit, sched
    <3>2. ASSUME NEW s \in Slots, Alive(s)' PROVE Alive(s)
      <4>1. ExitStates(p)[s] \in {"SLEEPING", "RUNNABLE", "RUNNING"}
        BY ONLY <3>1, <3>2 DEF Alive
      <4>2. \/ wakeup1(wakeup1(state, parent[p]), initproc)[s] \in {"SLEEPING", "RUNNABLE", "RUNNING"}
            \/ wakeup1(state, parent[p])[s] \in {"SLEEPING", "RUNNABLE", "RUNNING"}
        BY ONLY <4>1 DEF ExitStates, wakeup1
      <4> QED  BY ONLY <4>2, WakeupAlive DEF Alive
    <3> QED  BY ONLY <1>a, <1>1, <3>2, SameBoost, SameSettled
  <2> QED  BY ONLY <2>1, <2>2
<1>9. ASSUME NEW k \in PidArgs, Kill(c, p, k) PROVE BoostInv'
  <2>1. \E z : state' = [state EXCEPT ![z] = KilledState(@)]
    BY ONLY <1>9 DEF Kill
  <2>2. \A s \in Slots : Alive(s)' => Alive(s)
    BY ONLY <1>0, <2>1 DEF Alive, TypeOK, KilledState
  <2> QED  BY ONLY <1>a, <1>1, <2>2, SameBoost, SameSettled
<1> QED  BY <1>2, <1>3, <1>5, <1>6, <1>7, <1>8, <1>9

\* fork() settles the slot whose original_priority allocproc() has just set to
\* -1 and no other; sleep() settles none.
LEMMA KernelBoost ==
  ASSUME IInv, BoostInv, holder' = holder, NEW c \in CPUs, NEW p \in Slots,
         KernelStep(c, p) \/ Fork(c, p) \/ SysSleep(c, p)
  PROVE  BoostInv'
<1>a. BoostInv /\ holder' = holder
  OBVIOUS
<1>0. TypeOK /\ OneCpuPerProcess
  BY DEF IInv
<1>1. CASE AllocKstack(c, p)
  <2>1. PICK n : n = np[p]
    OBVIOUS
  <2>2. /\ original_priority' = [original_priority EXCEPT ![n] = -1]
        /\ \/ state' = state /\ np' = np /\ pc' = [pc EXCEPT ![p] = "copyuvm"]
           \/ /\ state' = [state EXCEPT ![n] = "UNUSED"]
              /\ pc' = [pc EXCEPT ![p] = "user"] /\ np' = [np EXCEPT ![p] = 0]
    BY ONLY <1>1, <2>1 DEF AllocKstack, GiveUp
  <2>3. \A s \in Slots : s # n /\ Alive(s)' => Alive(s)
    BY ONLY <1>0, <2>2 DEF Alive, TypeOK
  <2>4. \A s \in Slots, q \in Slots : s # n /\ np'[q] = s /\ pc'[q] \in {"copyuvm", "runnable"} =>
          np[q] = s /\ pc[q] \in {"copyuvm", "runnable"}
    BY ONLY <1>0, <2>1, <2>2, SlotsFacts DEF TypeOK
  <2>5. \A s \in Slots : s # n /\ Settled(s)' => Settled(s)
    BY ONLY <2>3, <2>4 DEF Settled
  <2>6. \A s \in Slots : original_priority'[s] # -1 => s # n /\ original_priority[s] # -1
    BY ONLY <1>0, <2>2 DEF TypeOK
  <2> QED  BY ONLY <1>a, <2>5, <2>6 DEF BoostInv
<1>2. ASSUME ~AllocKstack(c, p)
      PROVE  BoostInv'
  <2>1. original_priority' = original_priority
    BY <1>2 DEF KernelStep, AllocNice, AllocPriority, ForkCopy, ForkRunnable, SleepOnTicks,
                SysSleepAgain, SysSleepReturn, Fork, SysSleep, levels
  <2>2. CASE AllocNice(c, p) \/ AllocPriority(c, p) \/ SysSleepAgain(c, p) \/ SysSleepReturn(c, p)
             \/ SysSleep(c, p)
    <3>1. /\ state' = state /\ np' = np
          /\ \E w \in {"alloc_priority", "alloc_kstack", "ticksleep", "user"} :
               pc' = [pc EXCEPT ![p] = w]
      BY ONLY <2>2 DEF AllocNice, AllocPriority, SysSleepAgain, SysSleepReturn, SysSleep, fields
    <3>2. \A s \in Slots : Settled(s)' => Settled(s)
      BY ONLY <1>0, <3>1 DEF Settled, Alive, TypeOK
    <3> QED  BY ONLY <1>a, <2>1, <3>2, SameBoost
  <2>3. CASE Fork(c, p)
    <3>1. PICK n : /\ state' = [state EXCEPT ![n] = "EMBRYO"] /\ np' = [np EXCEPT ![p] = n]
                   /\ pc' = [pc EXCEPT ![p] = "alloc_nice"]
      BY ONLY <2>3 DEF Fork
    <3>2. \A s \in Slots : Settled(s)' => Settled(s)
      BY ONLY <1>0, <3>1 DEF Settled, Alive, TypeOK
    <3> QED  BY ONLY <1>a, <2>1, <3>2, SameBoost
  <2>4. CASE ForkCopy(c, p)
    <3>1. PICK n : n = np[p]
      OBVIOUS
    <3>2. /\ pc[p] = "copyuvm"
          /\ \/ state' = state /\ np' = np /\ pc' = [pc EXCEPT ![p] = "runnable"]
             \/ /\ state' = [state EXCEPT ![n] = "UNUSED"]
                /\ pc' = [pc EXCEPT ![p] = "user"] /\ np' = [np EXCEPT ![p] = 0]
      BY ONLY <2>4, <3>1 DEF ForkCopy, GiveUp
    <3>3. \A s \in Slots : Settled(s)' => Settled(s)
      BY ONLY <1>0, <3>2 DEF Settled, Alive, TypeOK
    <3> QED  BY ONLY <1>a, <2>1, <3>3, SameBoost
  <2>5. CASE ForkRunnable(c, p)
    <3>1. PICK n : n = np[p]
      OBVIOUS
    <3>2. /\ pc[p] = "runnable" /\ state' = [state EXCEPT ![n] = "RUNNABLE"]
          /\ pc' = [pc EXCEPT ![p] = "user"] /\ np' = [np EXCEPT ![p] = 0]
      BY ONLY <2>5, <3>1 DEF ForkRunnable
    <3>3. \A s \in Slots : Settled(s)' => Settled(s)
      BY ONLY <1>0, <3>1, <3>2 DEF Settled, Alive, TypeOK
    <3> QED  BY ONLY <1>a, <2>1, <3>3, SameBoost
  <2>6. CASE SleepOnTicks(c, p)
    <3>1. /\ state[p] = "RUNNING" /\ state' = [state EXCEPT ![p] = "SLEEPING"]
          /\ np' = np /\ pc' = [pc EXCEPT ![p] = "sleeploop"]
      BY ONLY <1>0, <2>6, SlotsFacts DEF SleepOnTicks, Running, OneCpuPerProcess, sched
    <3>2. \A s \in Slots : Settled(s)' => Settled(s)
      BY ONLY <1>0, <3>1 DEF Settled, Alive, TypeOK
    <3> QED  BY ONLY <1>a, <2>1, <3>2, SameBoost
  <2> QED  BY <1>2, <2>2, <2>3, <2>4, <2>5, <2>6 DEF KernelStep
<1> QED  BY ONLY <1>1, <1>2

\* The invariant of the process table does not depend on the borrowed levels.
LEMMA LevelsIInv ==
  ASSUME IInv, UNCHANGED <<fields, nice, nextpid, proc, ptlock, ctx, pc, np, scan, panicked>>,
         priority' \in [Slots -> 0..5], original_priority' \in [Slots -> -1..5]
  PROVE  IInv'
<1>1. UNCHANGED <<state, pid, parent, chan, killed>>
  BY DEF fields
<1>2. TypeOK' /\ OneCpuPerProcess'
  BY <1>1 DEF IInv, TypeOK, OneCpuPerProcess
<1>3. CtxInv'
  BY <1>1 DEF IInv, CtxInv
<1>4. ForkInv'
  BY <1>1 DEF IInv, ForkInv, Alive
<1>5. ParentInv'
  BY <1>1 DEF IInv, ParentInv, Alive
<1>6. NoMissedExit'
  BY Zenon, <1>1 DEF IInv, NoMissedExit
<1> QED  BY <1>2, <1>3, <1>4, <1>5, <1>6 DEF IInv

\* sys_lock() lends only to a holder, and sys_release() ends the loan of the
\* process that gives a lock back.
LEMMA LockStepInv == ASSUME LockInv, LockStep PROVE LockInv'
<1>1. PICK c \in CPUs, p \in Slots, id \in LockIds : SysLock(c, p, id) \/ SysRelease(c, p, id)
  BY DEF LockStep
<1>2. PICK h : h = holder[id]
  OBVIOUS
<1>3. /\ priority \in [Slots -> 0..5] /\ original_priority \in [Slots -> -1..5]
      /\ holder \in [LockIds -> Slots \cup {0}] /\ IInv /\ BoostInv /\ 0 \notin Slots
  BY SlotsFacts DEF LockInv, IInv, TypeOK
<1>4. UNCHANGED <<fields, nice, nextpid, proc, ptlock, ctx, pc, np, scan, panicked>>
  BY <1>1 DEF SysLock, SysRelease, levels
<1>5. /\ priority' \in [Slots -> 0..5] /\ original_priority' \in [Slots -> -1..5]
      /\ holder' \in [LockIds -> Slots \cup {0}]
  BY <1>1, <1>3 DEF SysLock, SysRelease, levels
<1>6. ASSUME NEW s \in Slots, original_priority'[s] # -1
      PROVE  \/ \E i \in LockIds : holder'[i] = s
             \/ /\ original_priority[s] # -1
                /\ \A i \in LockIds : holder[i] = s => holder'[i] = s
  BY <1>1, <1>3, <1>6 DEF SysLock, SysRelease, levels
<1>7. \A s \in Slots : Settled(s)' <=> Settled(s)
  BY <1>4 DEF Settled, Alive, fields
<1>8. BoostInv'
  BY <1>3, <1>6, <1>7 DEF BoostInv
<1> QED  BY <1>3, <1>4, <1>5, <1>8, LevelsIInv DEF LockInv
=============================================================================
