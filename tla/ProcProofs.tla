----------------------------- MODULE ProcProofs -----------------------------
(***************************************************************************)
(* Proofs about modules Proc and PrioLock, for any number of slots and     *)
(* processors, any bounds and both schedulers: fork(), sleep(), yield(),   *)
(* kill(), wait() and exit() preserve the invariant of ProcInvariant; the  *)
(* theorems that follow from it; and the end of every borrowed priority.   *)
(***************************************************************************)
EXTENDS ProcInvariant

\* fork() takes an UNUSED slot.
LEMMA ForkIInv ==
  ASSUME IInv, NEW c \in CPUs, NEW p \in Slots, Fork(c, p)
  PROVE  IInv'
<1>. USE SlotsFacts, ProcAssumption DEF IInv, Fork, Syscall, InUser, Running, levels
<1>. DEFINE free == {s \in Slots : state[s] = "UNUSED"}
            m == Min(free)
<1>a. m \in Slots /\ state[m] = "UNUSED"
  <2>1. free \in SUBSET Nat /\ free # {}
    BY ZenonT(60)
  <2>. QED
    BY <2>1, MinIsLeast
<1>b. /\ state' = [state EXCEPT ![m] = "EMBRYO"]
      /\ pid' = [pid EXCEPT ![m] = nextpid]
      /\ np' = [np EXCEPT ![p] = m]
  BY SMTT(60)
<1>. HIDE DEF m, free
<1>c. /\ state[p] = "RUNNING" /\ np[p] = 0 /\ m # p /\ parent[m] = 0 /\ m # initproc
      /\ pc[m] = "user" /\ \A q \in Slots : np[q] # m
  BY SMTT(60), <1>a DEF OneCpuPerProcess, ForkInv, ForkPc, ParentInv, Alive
<1>1. TypeOK'
  BY SMTT(60), <1>a, <1>b, <1>c DEF TypeOK, ProcState, ForkPc, SleepPc, Ctx
<1>2. OneCpuPerProcess'
  BY SMTT(60), <1>a, <1>b, <1>c DEF TypeOK, OneCpuPerProcess
<1>3. CtxInv'
  BY SMTT(60), <1>a, <1>b, <1>c DEF TypeOK, CtxInv, SwitchedOut
<1>4. ForkInv'
  BY SMTT(60), <1>a, <1>b, <1>c DEF TypeOK, ForkInv, ForkPc, Alive
<1>5. ParentInv'
  BY SMTT(60), <1>a, <1>b, <1>c DEF TypeOK, ParentInv, Alive
<1>6. NoMissedExit'
  BY SMTT(60), <1>a, <1>b, <1>c DEF TypeOK, NoMissedExit
<1>. QED
  BY SMTT(60), <1>1, <1>2, <1>3, <1>4, <1>5, <1>6

\* sys_sleep() decides to sleep.
LEMMA SysSleepIInv ==
  ASSUME IInv, NEW c \in CPUs, NEW p \in Slots, SysSleep(c, p)
  PROVE  IInv'
<1>. USE SlotsFacts, ProcAssumption DEF IInv, SysSleep, Syscall, InUser, Running, fields, levels
<1>a. state[p] = "RUNNING" /\ np[p] = 0 /\ \A d \in CPUs : proc[d] = p => d = c
  BY DEF OneCpuPerProcess, ForkInv, ForkPc
<1>1. TypeOK'
  BY <1>a DEF TypeOK, ProcState, ForkPc, SleepPc, Ctx
<1>2. OneCpuPerProcess'
  BY <1>a DEF TypeOK, OneCpuPerProcess
<1>3. CtxInv'
  BY <1>a DEF TypeOK, CtxInv, SwitchedOut
<1>4. ForkInv'
  BY <1>a DEF TypeOK, ForkInv, ForkPc, Alive
<1>5. ParentInv'
  BY <1>a DEF TypeOK, ParentInv, Alive
<1>6. NoMissedExit'
  BY <1>a DEF TypeOK, NoMissedExit
<1>. QED
  BY <1>1, <1>2, <1>3, <1>4, <1>5, <1>6

\* sys_sleep() decides to sleep again.
LEMMA SysSleepAgainIInv ==
  ASSUME IInv, NEW c \in CPUs, NEW p \in Slots, SysSleepAgain(c, p)
  PROVE  IInv'
<1>. USE SlotsFacts, ProcAssumption DEF IInv, SysSleepAgain, Running, fields, levels
<1>a. state[p] = "RUNNING" /\ np[p] = 0 /\ \A d \in CPUs : proc[d] = p => d = c
  BY DEF OneCpuPerProcess, ForkInv, ForkPc
<1>1. TypeOK'
  BY <1>a DEF TypeOK, ProcState, ForkPc, SleepPc, Ctx
<1>2. OneCpuPerProcess'
  BY <1>a DEF TypeOK, OneCpuPerProcess
<1>3. CtxInv'
  BY SMTT(60), <1>a DEF TypeOK, CtxInv, SwitchedOut
<1>4. ForkInv'
  BY <1>a DEF TypeOK, ForkInv, ForkPc, Alive
<1>5. ParentInv'
  BY <1>a DEF TypeOK, ParentInv, Alive
<1>6. NoMissedExit'
  BY <1>a DEF TypeOK, NoMissedExit
<1>. QED
  BY <1>1, <1>2, <1>3, <1>4, <1>5, <1>6

\* sys_sleep() returns.
LEMMA SysSleepReturnIInv ==
  ASSUME IInv, NEW c \in CPUs, NEW p \in Slots, SysSleepReturn(c, p)
  PROVE  IInv'
<1>. USE SlotsFacts, ProcAssumption DEF IInv, SysSleepReturn, Running, fields, levels
<1>a. state[p] = "RUNNING" /\ np[p] = 0 /\ \A d \in CPUs : proc[d] = p => d = c
  BY DEF OneCpuPerProcess, ForkInv, ForkPc
<1>1. TypeOK'
  BY <1>a DEF TypeOK, ProcState, ForkPc, SleepPc, Ctx
<1>2. OneCpuPerProcess'
  BY <1>a DEF TypeOK, OneCpuPerProcess
<1>3. CtxInv'
  BY <1>a DEF TypeOK, CtxInv, SwitchedOut
<1>4. ForkInv'
  BY <1>a DEF TypeOK, ForkInv, ForkPc, Alive
<1>5. ParentInv'
  BY <1>a DEF TypeOK, ParentInv, Alive
<1>6. NoMissedExit'
  BY <1>a DEF TypeOK, NoMissedExit
<1>. QED
  BY SMTT(60), <1>1, <1>2, <1>3, <1>4, <1>5, <1>6

\* sleep() on ticks.
LEMMA SleepOnTicksIInv ==
  ASSUME IInv, NEW c \in CPUs, NEW p \in Slots, SleepOnTicks(c, p)
  PROVE  IInv'
<1>. USE SlotsFacts, ProcAssumption DEF IInv, SleepOnTicks, sched, Running, PtableFree, levels
<1>a. state[p] = "RUNNING" /\ np[p] = 0 /\ \A d \in CPUs : proc[d] = p => d = c
  BY DEF OneCpuPerProcess, ForkInv, ForkPc
<1>1. TypeOK'
  BY <1>a DEF TypeOK, ProcState, ForkPc, SleepPc, Ctx
<1>2. OneCpuPerProcess'
  BY SMTT(60), <1>a DEF TypeOK, OneCpuPerProcess
<1>3. CtxInv'
  BY <1>a DEF TypeOK, CtxInv, SwitchedOut
<1>4. ForkInv'
  BY <1>a DEF TypeOK, ForkInv, ForkPc, Alive
<1>5. ParentInv'
  BY <1>a DEF TypeOK, ParentInv, Alive
<1>6. NoMissedExit'
  BY <1>a DEF TypeOK, NoMissedExit
<1>. QED
  BY SMTT(60), <1>1, <1>2, <1>3, <1>4, <1>5, <1>6

\* yield() from the timer interrupt.
LEMMA TimerYieldIInv ==
  ASSUME IInv, NEW c \in CPUs, NEW p \in Slots, TimerYield(c, p)
  PROVE  IInv'
<1>. USE SlotsFacts, ProcAssumption DEF IInv, TimerYield, sched, Running, PtableFree, levels
<1>a. state[p] = "RUNNING" /\ \A d \in CPUs : proc[d] = p => d = c
  BY DEF OneCpuPerProcess
<1>1. TypeOK'
  BY SMTT(60), <1>a DEF TypeOK, ProcState, ForkPc, SleepPc, Ctx
<1>2. OneCpuPerProcess'
  BY SMTT(60), <1>a DEF TypeOK, OneCpuPerProcess
<1>3. CtxInv'
  BY SMTT(60), <1>a DEF TypeOK, CtxInv, SwitchedOut
<1>4. ForkInv'
  BY SMTT(60), <1>a DEF TypeOK, ForkInv, ForkPc, Alive
<1>5. ParentInv'
  BY <1>a DEF TypeOK, ParentInv, Alive
<1>6. NoMissedExit'
  BY <1>a DEF TypeOK, NoMissedExit
<1>. QED
  BY <1>1, <1>2, <1>3, <1>4, <1>5, <1>6

\* kill().
LEMMA KillIInv ==
  ASSUME IInv, NEW c \in CPUs, NEW p \in Slots, NEW k, Kill(c, p, k)
  PROVE  IInv'
<1>. USE SlotsFacts, ProcAssumption DEF IInv, Kill, KilledState, Syscall, InUser, Running, levels
<1>. DEFINE match == {s \in Slots : pid[s] = k}
            m == Min(match)
<1>a. m \in Slots
  <2>1. match \in SUBSET Nat /\ match # {}
    BY Zenon
  <2>. QED
    BY <2>1, MinIsLeast
<1>b. /\ killed' = [killed EXCEPT ![m] = 1]
      /\ state' = [state EXCEPT ![m] = IF @ = "SLEEPING" THEN "RUNNABLE" ELSE @]
  BY SMTT(60)
<1>. HIDE DEF m, match
<1>1. TypeOK'
  <2>1. killed' \in [Slots -> {0, 1}]
    BY ZenonT(60), <1>a, <1>b DEF TypeOK
  <2>2. state' \in [Slots -> ProcState]
    <3>1. CASE state[m] = "SLEEPING"
      BY <1>a, <1>b, <3>1 DEF TypeOK, ProcState
    <3>2. CASE state[m] # "SLEEPING"
      <4>1. state' = [state EXCEPT ![m] = state[m]]
        BY ZenonT(60), <1>b, <3>2
      <4>2. state[m] \in ProcState
        BY SMTT(60), <1>a DEF TypeOK
      <4>. QED
        BY Zenon, <1>a, <4>1, <4>2 DEF TypeOK
    <3>. QED
      BY SMTT(60), <3>1, <3>2
  <2>. QED
    BY <2>1, <2>2 DEF TypeOK
<1>2. OneCpuPerProcess'
  BY SMTT(60), <1>a, <1>b DEF TypeOK, OneCpuPerProcess
<1>3. CtxInv'
  BY SMTT(60), <1>a, <1>b DEF TypeOK, CtxInv, SwitchedOut
<1>4. ForkInv'
  BY SMTT(60), <1>a, <1>b DEF TypeOK, ForkInv, ForkPc, Alive
<1>5. ParentInv'
  BY SMTT(60), <1>a, <1>b DEF TypeOK, ParentInv, Alive
<1>6. NoMissedExit'
  BY <1>a, <1>b DEF TypeOK, NoMissedExit
<1>. QED
  BY SMTT(60), <1>1, <1>2, <1>3, <1>4, <1>5, <1>6

\* One round of the loop of wait(), entered from the system call or after a sleep.
LEMMA WaitLoopIInv ==
  ASSUME IInv, NEW c \in CPUs, NEW p \in Slots, proc[c] = p, ptlock \in {c, NoCpu},
         pc[p] = "user", WaitLoop(c, p),
         UNCHANGED <<levels, nextpid, pc, np, scan, panicked>>
  PROVE  IInv'
<1>. DEFINE kids == {s \in Slots : parent[s] = p}
            zombies == {s \in kids : state[s] = "ZOMBIE"}
            z == Min(zombies)
<1>. USE SlotsFacts, ProcAssumption DEF IInv, levels
<1>a. state[p] = "RUNNING" /\ np[p] = 0 /\ \A d \in CPUs : proc[d] = p => d = c
  BY DEF OneCpuPerProcess, ForkInv, ForkPc
<1>1. CASE zombies # {}
  <2>1. z \in Slots /\ parent[z] = p /\ state[z] = "ZOMBIE"
    <3>1. zombies \in SUBSET Nat
      BY ZenonT(60)
    <3>. QED
      BY <1>1, <3>1, MinIsLeast
  <2>2. /\ state' = [state EXCEPT ![z] = "UNUSED"]
        /\ pid' = [pid EXCEPT ![z] = 0]
        /\ parent' = [parent EXCEPT ![z] = 0]
        /\ killed' = [killed EXCEPT ![z] = 0]
        /\ chan' = [chan EXCEPT ![p] = 0]
        /\ ctx' = [ctx EXCEPT ![p] = "none"]
        /\ ptlock' = NoCpu
        /\ UNCHANGED proc
    BY SMTT(60), <1>1 DEF WaitLoop
  <2>. HIDE DEF z, zombies, kids
  <2>3. z # p /\ \A s \in Slots : parent[s] # z /\ np[s] # z
    BY SMTT(60), <1>a, <2>1 DEF ParentInv, ForkInv, Alive, TypeOK
  <2>. USE <1>a, <2>1, <2>2, <2>3
  <2>a. TypeOK'
    BY SMTT(60) DEF TypeOK, ProcState, ForkPc, SleepPc, Ctx
  <2>b. OneCpuPerProcess'
    BY SMTT(60) DEF TypeOK, OneCpuPerProcess
  <2>c. CtxInv'
    BY SMTT(60) DEF TypeOK, CtxInv, SwitchedOut
  <2>d. ForkInv'
    BY SMTT(60) DEF TypeOK, ForkInv, ForkPc, Alive
  <2>e. ParentInv'
    BY SMTT(60) DEF TypeOK, ParentInv, Alive
  <2>f. NoMissedExit'
    BY DEF TypeOK, NoMissedExit
  <2>. QED
    BY <2>a, <2>b, <2>c, <2>d, <2>e, <2>f
<1>2. CASE zombies = {} /\ (kids = {} \/ killed[p] = 1)
  <2>1. /\ chan' = [chan EXCEPT ![p] = 0]
        /\ ctx' = [ctx EXCEPT ![p] = "none"]
        /\ ptlock' = NoCpu
        /\ UNCHANGED <<state, pid, parent, killed, proc>>
    BY SMTT(60), <1>2, <1>a DEF WaitLoop, sched
  <2>. USE <1>a, <2>1
  <2>a. TypeOK'
    BY SMTT(60) DEF TypeOK, ProcState, ForkPc, SleepPc, Ctx
  <2>b. OneCpuPerProcess'
    BY SMTT(60) DEF TypeOK, OneCpuPerProcess
  <2>c. CtxInv'
    BY SMTT(60) DEF TypeOK, CtxInv, SwitchedOut
  <2>d. ForkInv'
    BY SMTT(60) DEF TypeOK, ForkInv, ForkPc, Alive
  <2>e. ParentInv'
    BY SMTT(60) DEF TypeOK, ParentInv, Alive
  <2>f. NoMissedExit'
    BY DEF TypeOK, NoMissedExit
  <2>. QED
    BY SMTT(60), <2>a, <2>b, <2>c, <2>d, <2>e, <2>f
<1>3. CASE zombies = {} /\ kids # {} /\ killed[p] = 0
  <2>1. /\ chan' = [chan EXCEPT ![p] = p]
        /\ sched(c, p, [state EXCEPT ![p] = "SLEEPING"], "wait")
        /\ UNCHANGED <<pid, parent, killed>>
    BY SMTT(60), <1>3 DEF WaitLoop
  <2>. USE <1>a, <1>3, <2>1 DEF sched
  <2>a. TypeOK'
    BY SMTT(60) DEF TypeOK, ProcState, ForkPc, SleepPc, Ctx
  <2>b. OneCpuPerProcess'
    BY SMTT(60) DEF TypeOK, OneCpuPerProcess
  <2>c. CtxInv'
    BY SMTT(60) DEF TypeOK, CtxInv, SwitchedOut
  <2>d. ForkInv'
    BY SMTT(60) DEF TypeOK, ForkInv, ForkPc, Alive
  <2>e. ParentInv'
    BY DEF TypeOK, ParentInv, Alive
  <2>f. NoMissedExit'
    <3>. SUFFICES ASSUME NEW s \in Slots, state'[s] = "SLEEPING", ctx'[s] = "wait"
                  PROVE  /\ chan'[s] = s
                         /\ killed'[s] = 0
                         /\ \E k \in Slots : parent'[k] = s
                         /\ \A k \in Slots : parent'[k] = s => state'[k] # "ZOMBIE"
      BY DEF NoMissedExit
    <3>1. CASE s = p
      BY ZenonT(60), <3>1 DEF TypeOK
    <3>2. CASE s # p
      BY <3>2 DEF TypeOK, NoMissedExit
    <3>. QED
      BY SMTT(60), <3>1, <3>2
  <2>. QED
    BY SMTT(60), <2>a, <2>b, <2>c, <2>d, <2>e, <2>f
<1>4. killed[p] = 0 \/ killed[p] = 1
  BY DEF TypeOK
<1>. HIDE DEF kids, zombies, z, IInv
<1>5. zombies # {} \/ (zombies = {} /\ (kids = {} \/ killed[p] = 1))
      \/ (zombies = {} /\ kids # {} /\ killed[p] = 0)
  BY Zenon, <1>4
<1>. QED
  BY Zenon, <1>1, <1>2, <1>3, <1>5

\* wait() called by a process.
LEMMA WaitIInv ==
  ASSUME IInv, NEW c \in CPUs, NEW p \in Slots, Wait(c, p)
  PROVE  IInv'
BY WaitLoopIInv DEF Wait, Syscall, InUser, Running, PtableFree

\* The process the scheduler has switched to goes on.
LEMMA ResumeIInv ==
  ASSUME IInv, NEW c \in CPUs, Resume(c)
  PROVE  IInv'
<1>. DEFINE p == proc[c]
<1>. USE SlotsFacts, ProcAssumption DEF IInv
<1>a. p \in Slots /\ state[p] = "RUNNING" /\ \A d \in CPUs : proc[d] = p => d = c
  BY DEF Resume, OneCpuPerProcess, TypeOK
<1>1. CASE ctx[p] # "wait"
  <2>1. /\ ptlock' = NoCpu
        /\ ctx' = [ctx EXCEPT ![p] = "none"]
        /\ chan' = [chan EXCEPT ![p] = 0] \/ chan' = chan
        /\ UNCHANGED <<state, pid, parent, killed, proc>>
        /\ UNCHANGED <<levels, nextpid, pc, np, scan, panicked>>
    BY <1>1 DEF Resume
  <2>2. ptlock = c /\ proc[c] = p
    BY SMTT(60) DEF Resume
  <2>. HIDE DEF p
  <2>. USE <1>a, <2>1, <2>2 DEF levels
  <2>a. TypeOK'
    BY SMTT(60) DEF TypeOK, ProcState, ForkPc, SleepPc, Ctx
  <2>b. OneCpuPerProcess'
    BY SMTT(60) DEF TypeOK, OneCpuPerProcess
  <2>c. CtxInv'
    BY SMTT(60) DEF TypeOK, CtxInv, SwitchedOut
  <2>d. ForkInv'
    BY SMTT(60) DEF TypeOK, ForkInv, ForkPc, Alive
  <2>e. ParentInv'
    BY SMTT(60) DEF TypeOK, ParentInv, Alive
  <2>f. NoMissedExit'
    BY DEF TypeOK, NoMissedExit
  <2>. QED
    BY SMTT(60), <2>a, <2>b, <2>c, <2>d, <2>e, <2>f
<1>2. CASE ctx[p] = "wait"
  <2>1. pc[p] = "user"
    BY ZenonT(60), <1>a, <1>2 DEF CtxInv
  <2>2. ptlock = c /\ WaitLoop(c, p) /\ UNCHANGED <<levels, nextpid, pc, np, scan, panicked>>
    BY <1>2 DEF Resume
  <2>. QED
    BY Zenon, <1>a, <2>1, <2>2, WaitLoopIInv
<1>. QED
  BY ZenonT(60), <1>1, <1>2

\* exit(): its parent and, if it leaves zombies behind, init do not stay asleep.
LEMMA ExitIInv ==
  ASSUME IInv, NEW c \in CPUs, NEW p \in Slots, Exit(c, p)
  PROVE  IInv'
<1>. USE SlotsFacts, ProcAssumption DEF IInv
<1>a. state[p] = "RUNNING" /\ np[p] = 0 /\ pc[p] = "user" /\ proc[c] = p
      /\ (p # initproc => ptlock = NoCpu)
      /\ \A d \in CPUs : proc[d] = p => d = c
  BY DEF Exit, Running, PtableFree, OneCpuPerProcess, ForkInv, ForkPc
<1>1. CASE p = initproc
  <2>. USE <1>1 DEF Exit, levels
  <2>a. TypeOK'
    BY SMTT(60) DEF TypeOK, ProcState, ForkPc, SleepPc, Ctx
  <2>b. OneCpuPerProcess'
    BY SMTT(60) DEF TypeOK, OneCpuPerProcess
  <2>c. CtxInv'
    BY SMTT(60) DEF TypeOK, CtxInv, SwitchedOut
  <2>d. ForkInv'
    BY DEF TypeOK, ForkInv, ForkPc, Alive
  <2>e. ParentInv'
    BY ZenonT(60) DEF TypeOK, ParentInv, Alive
  <2>f. NoMissedExit'
    BY DEF TypeOK, NoMissedExit
  <2>. QED
    BY SMTT(60), <2>a, <2>b, <2>c, <2>d, <2>e, <2>f
<1>2. CASE p # initproc
  <2>. DEFINE q == parent[p]
              handed == \E s \in Slots : parent[s] = p /\ state[s] = "ZOMBIE"
  <2>1. q \in Slots /\ q # p /\ Alive(q)
    BY SMTT(60), <1>a, <1>2 DEF ParentInv, Alive, TypeOK
  <2>2. /\ state' = ExitStates(p)
        /\ proc' = [proc EXCEPT ![c] = 0]
        /\ ctx' = [ctx EXCEPT ![p] = "none"]
        /\ ptlock' \in {c, NoCpu}
        /\ parent' = [s \in Slots |-> IF parent[s] = p THEN initproc ELSE parent[s]]
        /\ UNCHANGED <<pid, chan, killed, levels, nextpid, pc, np, scan, panicked>>
    BY SMTT(60), <1>2 DEF Exit, Reparent, sched
  <2>3. \A s \in Slots :
          state'[s] = IF s = p THEN "ZOMBIE"
                      ELSE IF state[s] = "SLEEPING" /\ (chan[s] = q \/ (handed /\ chan[s] = initproc))
                           THEN "RUNNABLE" ELSE state[s]
    BY <2>2 DEF ExitStates, wakeup1
  <2>4. state' \in [Slots -> ProcState]
    BY Zenon, <2>2, <2>3 DEF ExitStates, wakeup1, TypeOK, ProcState
  <2>. HIDE DEF q, handed
  <2>5. \A s \in Slots : s # p =>
          /\ state'[s] \in {"SLEEPING", "RUNNABLE", "RUNNING"}
               <=> state[s] \in {"SLEEPING", "RUNNABLE", "RUNNING"}
          /\ \A x \in {"UNUSED", "EMBRYO", "RUNNING", "ZOMBIE"} : state'[s] = x <=> state[s] = x
    BY <2>3
  <2>6. \A s \in Slots : parent'[s] = IF parent[s] = p THEN initproc ELSE parent[s]
    BY <2>2
  <2>a. TypeOK'
    BY ZenonT(60), <1>a, <2>2, <2>4 DEF TypeOK, levels, Ctx
  <2>b. OneCpuPerProcess'
    <3>1. \A d \in CPUs : proc'[d] = IF d = c THEN 0 ELSE proc[d]
      BY <2>2 DEF TypeOK
    <3>2. \A s \in Slots : state'[s] = "RUNNING" <=> s # p /\ state[s] = "RUNNING"
      BY <2>3, <2>5
    <3>3. \A d \in CPUs : proc[d] \in Slots \cup {0}
      BY SMTT(60) DEF TypeOK
    <3>. QED
      <4>1. ASSUME NEW d \in CPUs, proc'[d] # 0 PROVE state'[proc'[d]] = "RUNNING"
        <5>1. d # c /\ proc'[d] = proc[d] /\ proc[d] # 0
          BY Zenon, <3>1, <4>1
        <5>2. proc[d] \in Slots /\ proc[d] # p
          BY <1>a, <5>1, <3>3
        <5>3. state[proc[d]] = "RUNNING"
          BY SMTT(60), <5>1 DEF OneCpuPerProcess
        <5>. QED
          BY ZenonT(60), <3>2, <5>1, <5>2, <5>3
      <4>2. \A t \in Slots : state'[t] = "RUNNING" => \E d \in CPUs : proc'[d] = t
        BY SMTT(60), <1>a, <3>1, <3>2 DEF OneCpuPerProcess
      <4>3. \A d, e \in CPUs : proc'[d] = proc'[e] /\ proc'[d] # 0 => d = e
        BY SMTT(60), <3>1 DEF OneCpuPerProcess
      <4>. QED
        BY ZenonT(60), <4>1, <4>2, <4>3 DEF OneCpuPerProcess
  <2>c. CtxInv'
    <3>1. /\ \A d \in CPUs : proc'[d] = IF d = c THEN 0 ELSE proc[d]
          /\ \A t \in Slots : ctx'[t] = IF t = p THEN "none" ELSE ctx[t]
          /\ UNCHANGED pc
      BY SMTT(60), <2>2 DEF TypeOK
    <3>2. \A d \in CPUs : proc'[d] # 0 =>
            /\ d # c /\ proc[d] # p /\ proc[d] \in Slots
            /\ ptlock' # d /\ ptlock # d
      BY <1>a, <1>2, <2>2, <3>1 DEF TypeOK
    <3>3. \A t \in Slots : state'[t] \in {"SLEEPING", "RUNNABLE"} =>
            t # p /\ (state[t] = "SLEEPING" \/ state[t] = state'[t])
      BY <2>3
    <3>4. \A d \in CPUs : proc'[d] # 0 =>
            IF ptlock' = d THEN ctx'[proc'[d]] \in SwitchedOut
                           ELSE ctx'[proc'[d]] \in {"none", "tick"}
      <4>. SUFFICES ASSUME NEW d \in CPUs, proc'[d] # 0
                    PROVE  ptlock' # d /\ ctx'[proc'[d]] \in {"none", "tick"}
        BY Zenon
      <4>1. d # c /\ proc[d] # p /\ proc[d] \in Slots /\ ptlock' # d /\ ptlock # d
        BY ZenonT(60), <3>2
      <4>2. proc'[d] = proc[d] /\ ctx'[proc[d]] = ctx[proc[d]]
        BY ZenonT(60), <3>1, <4>1
      <4>3. ctx[proc[d]] \in {"none", "tick"}
        BY <4>1 DEF CtxInv
      <4>. QED
        BY Zenon, <4>1, <4>2, <4>3
    <3>5. \A s \in Slots : state'[s] \in {"SLEEPING", "RUNNABLE"} => ctx'[s] \in SwitchedOut
      BY <3>1, <3>3, <2>3 DEF CtxInv
    <3>6. \A s \in Slots : state'[s] = "SLEEPING" => ctx'[s] \in {"sleep", "wait"}
      BY SMTT(60), <3>1, <3>3, <2>3 DEF CtxInv
    <3>7. \A s \in Slots : ctx'[s] = "wait" => pc'[s] = "user"
      BY SMTT(60), <3>1 DEF CtxInv
    <3>8. \A s \in Slots : ctx'[s] = "sleep" => pc'[s] = "sleeploop"
      BY ZenonT(60), <3>1 DEF CtxInv
    <3>. QED
      BY ZenonT(60), <3>4, <3>5, <3>6, <3>7, <3>8 DEF CtxInv
  <2>d. ForkInv'
    <3>1. \A t \in Slots : np[t] # 0 => np[t] \in Slots /\ np[t] # p /\ t # p /\ parent[np[t]] # p
      BY <1>a DEF ForkInv, TypeOK
    <3>2. \A t \in Slots : np[t] # 0 =>
            /\ state'[np[t]] = "EMBRYO" /\ parent'[np[t]] = parent[np[t]] /\ ctx'[np[t]] = ctx[np[t]]
      <4>. SUFFICES ASSUME NEW t \in Slots, np[t] # 0
                    PROVE  /\ state'[np[t]] = "EMBRYO" /\ parent'[np[t]] = parent[np[t]]
                           /\ ctx'[np[t]] = ctx[np[t]]
        BY Zenon
      <4>1. state[np[t]] = "EMBRYO"
        BY DEF ForkInv
      <4>2. state'[np[t]] = "EMBRYO"
        BY Zenon, <3>1, <4>1, <2>5
      <4>3. parent'[np[t]] = parent[np[t]]
        BY ZenonT(60), <3>1, <2>6
      <4>. QED
        BY <3>1, <4>2, <4>3, <2>2 DEF TypeOK
    <3>3. \A s \in Slots : state'[s] = "EMBRYO" => state[s] = "EMBRYO"
      BY SMTT(60), <2>3, <2>5
    <3>4. \A t \in Slots : pc[t] # "user" => Alive(t)'
      BY SMTT(60), <1>a, <2>5 DEF ForkInv, Alive
    <3>. QED
      BY <2>2, <3>2, <3>3, <3>4 DEF ForkInv
  <2>e. ParentInv'
    <3>1. Alive(initproc)' /\ parent'[initproc] = 0
      BY <1>2, <2>5, <2>6 DEF ParentInv, Alive
    <3>3. \A s \in Slots : parent'[s] # 0 => state'[parent'[s]] \in {"SLEEPING", "RUNNABLE", "RUNNING"} /\ parent'[s] # s
      <4>. SUFFICES ASSUME NEW s \in Slots, parent'[s] # 0
                    PROVE  /\ state'[parent'[s]] \in {"SLEEPING", "RUNNABLE", "RUNNING"}
                           /\ parent'[s] # s
        OBVIOUS
      <4>1. CASE parent[s] = p
        BY <3>1, <4>1, <2>6 DEF Alive
      <4>2. CASE parent[s] # p
        <5>1. parent'[s] = parent[s] /\ parent[s] \in Slots
          BY <4>2, <2>6 DEF TypeOK
        <5>2. state[parent[s]] \in {"SLEEPING", "RUNNABLE", "RUNNING"} /\ parent[s] # s
          BY <5>1 DEF ParentInv, Alive
        <5>. QED
          BY ZenonT(60), <4>2, <5>1, <5>2, <2>5
      <4>. QED
        BY <4>1, <4>2
    <3>4. \A s \in Slots : state'[s] = "UNUSED" => parent'[s] = 0
      BY SMTT(60), <1>a, <2>3, <2>5, <2>6 DEF ParentInv
    <3>5. \A s \in Slots \ {initproc} : Alive(s)' \/ state'[s] = "ZOMBIE" => parent'[s] # 0
      BY SMTT(60), <1>a, <2>5, <2>6 DEF ParentInv, Alive
    <3>. QED
      BY SMTT(60), <3>1, <3>3, <3>4, <3>5 DEF ParentInv, Alive
  <2>f. NoMissedExit'
    <3>. SUFFICES ASSUME NEW s \in Slots, state'[s] = "SLEEPING", ctx'[s] = "wait"
                  PROVE  /\ chan'[s] = s
                         /\ killed'[s] = 0
                         /\ \E k \in Slots : parent'[k] = s
                         /\ \A k \in Slots : parent'[k] = s => state'[k] # "ZOMBIE"
      BY SMTT(60) DEF NoMissedExit
    <3>1. s # p /\ state[s] = "SLEEPING" /\ ctx[s] = "wait"
      BY <2>2, <2>3 DEF TypeOK
    <3>2. chan[s] = s /\ killed[s] = 0
          /\ (\E k \in Slots : parent[k] = s) /\ (\A k \in Slots : parent[k] = s => state[k] # "ZOMBIE")
      BY <3>1 DEF NoMissedExit
    <3>3. s # q /\ (handed => s # initproc)
      BY <3>1, <3>2, <2>3
    <3>4. \A k \in Slots : parent'[k] = s => state'[k] # "ZOMBIE"
      BY Zenon, <3>1, <3>2, <3>3, <2>1, <2>3, <2>6 DEF q, handed
    <3>. QED
      BY <3>1, <3>2, <3>4, <2>2, <2>6
  <2>. QED
    BY <2>a, <2>b, <2>c, <2>d, <2>e, <2>f
<1>. QED
  BY SMTT(60), <1>1, <1>2

-----------------------------------------------------------------------------
\* Every step of the kernel preserves the invariant: one case per action.
LEMMA NextIInv == IInv /\ [Next]_vars => IInv'
<1>. SUFFICES ASSUME IInv, [Next]_vars PROVE IInv'
  OBVIOUS
<1>1. CASE UNCHANGED vars
  <2>. USE <1>1 DEF IInv, vars, fields, levels
  <2>1. TypeOK' /\ OneCpuPerProcess'
    BY SMTT(60) DEF TypeOK, OneCpuPerProcess
  <2>2. CtxInv'
    BY SMTT(60) DEF CtxInv
  <2>3. ForkInv'
    BY DEF ForkInv, Alive
  <2>4. ParentInv'
    BY SMTT(60) DEF ParentInv, Alive
  <2>5. NoMissedExit'
    BY Zenon DEF NoMissedExit
  <2>. QED
    BY ZenonT(60), <2>1, <2>2, <2>3, <2>4, <2>5
<1>2. CASE ProcStep
  <2>1. CASE TimerTick
    BY <2>1, TimerTickIInv
  <2>2. ASSUME NEW c \in CPUs, scheduler(c) PROVE IInv'
    BY <2>2, SchedulerIInv
  <2>3. ASSUME NEW c \in CPUs, Resume(c) PROVE IInv'
    BY <2>3, ResumeIInv
  <2>4. ASSUME NEW c \in CPUs, NEW p \in Slots, KernelStep(c, p) PROVE IInv'
    BY <2>4, AllocNiceIInv, AllocPriorityIInv, AllocKstackIInv, ForkCopyIInv, ForkRunnableIInv,
       SleepOnTicksIInv, SysSleepAgainIInv, SysSleepReturnIInv DEF KernelStep
  <2>5. ASSUME NEW c \in CPUs, NEW p \in Slots, UserStep(c, p) PROVE IInv'
    BY <2>5, ForkIInv, ExitIInv, WaitIInv, SysSleepIInv, KillIInv DEF UserStep
  <2>6. ASSUME NEW c \in CPUs, NEW p \in Slots, TimerYield(c, p) PROVE IInv'
    BY <2>6, TimerYieldIInv
  <2>. QED
    BY <1>2, <2>1, <2>2, <2>3, <2>4, <2>5, <2>6 DEF ProcStep
<1>3. CASE NiceStep
  BY <1>3, SysNiceIInv DEF NiceStep
<1>4. CASE Halted
  BY <1>1, <1>4 DEF Halted
<1>. QED
  BY <1>1, <1>2, <1>3, <1>4 DEF Next

\* The inductive invariant holds in every reachable state of the process table.
THEOREM Invariance == Spec => []IInv
BY InitIInv, NextIInv, PTL DEF Spec

\* Every field of the table keeps its range, for any table and any machine.
THEOREM TypeCorrect == Spec => []TypeOK
<1>1. IInv => TypeOK
  BY DEF IInv
<1>. QED
  BY <1>1, Invariance, PTL

\* No process is ever run by two CPUs, and no CPU runs a process that is not RUNNING.
THEOREM OneCpuAlways == Spec => []OneCpuPerProcess
<1>1. IInv => OneCpuPerProcess
  BY DEF IInv
<1>. QED
  BY <1>1, Invariance, PTL

\* exit() never leaves a process without a parent that can wait() for it.
THEOREM ParentsAlwaysAlive == Spec => []ParentsAlive
<1>1. IInv => ParentsAlive
  BY SlotsFacts DEF IInv, ParentInv, ParentsAlive
<1>. QED
  BY <1>1, Invariance, PTL

\* wait() and exit() never miss each other.
THEOREM NeverMissedExit == Spec => []NoMissedExit
<1>1. IInv => NoMissedExit
  BY DEF IInv
<1>. QED
  BY <1>1, Invariance, PTL

\* The slot a fork() works on is its own until it is RUNNABLE or given up.
THEOREM EmbryoAlwaysOwned == Spec => []EmbryoOwned
<1>1. IInv => EmbryoOwned
  BY DEF IInv, ForkInv, EmbryoOwned
<1>. QED
  BY <1>1, Invariance, PTL

-----------------------------------------------------------------------------
\* Every step of the kernel with the user-level locks preserves the invariant.
LEMMA LockNextInv == LockInv /\ [LockNext]_lockVars => LockInv'
<1> SUFFICES ASSUME LockInv, [LockNext]_lockVars PROVE LockInv'
  OBVIOUS
<1>1. ASSUME [Next]_vars, holder' = holder PROVE LockInv'
  <2>1. IInv /\ IInv' /\ BoostInv /\ holder' \in [LockIds -> Slots \cup {0}]
    BY <1>1, NextIInv DEF LockInv
  <2>2. BoostInv'
    <3>1. CASE UNCHANGED vars
      BY <1>1, <2>1, <3>1, SameBoost DEF vars, fields, levels, Settled, Alive
    <3>2. CASE NiceStep
      BY <1>1, <2>1, <3>2, SameBoost DEF NiceStep, SysNice, fields, Settled, Alive
    <3>3. CASE ProcStep
      <4>1. CASE TimerTick
        BY <1>1, <2>1, <4>1, SlotsFacts, SwitchBoost, ProcAssumption
      <4>2. ASSUME NEW c \in CPUs, scheduler(c) \/ Resume(c) PROVE BoostInv'
        BY <1>1, <2>1, <4>2, SlotsFacts, SwitchBoost
      <4>3. ASSUME NEW c \in CPUs, NEW p \in Slots, KernelStep(c, p) \/ UserStep(c, p) PROVE BoostInv'
        BY <1>1, <2>1, <4>3, SwitchBoost, KernelBoost DEF UserStep
      <4>4. ASSUME NEW c \in CPUs, NEW p \in Slots, TimerYield(c, p) PROVE BoostInv'
        BY <1>1, <2>1, <4>4, SwitchBoost
      <4> QED  BY <3>3, <4>1, <4>2, <4>3, <4>4 DEF ProcStep
    <3> QED  BY <1>1, <3>1, <3>2, <3>3 DEF Next, Halted
  <2> QED  BY <2>1, <2>2 DEF LockInv
<1> QED  BY <1>1, LockStepInv DEF LockNext, lockVars

\* In every reachable state a process that runs with a priority it borrowed in
\* sys_lock() holds a lock, so that a sys_release() that ends the loan is still
\* to come.
THEOREM BoostedAlwaysHolding == LockSpec => []BoostedWhileHolding
<1>1. LockInit => LockInv
  <2> SUFFICES ASSUME LockInit PROVE LockInv
    OBVIOUS
  <2>1. IInv
    BY InitIInv DEF LockInit
  <2>2. \A s \in Slots : Settled(s) => original_priority[s] = -1
    BY SlotsFacts DEF LockInit, Init, Settled, Alive
  <2> QED  BY <2>1, <2>2 DEF LockInit, LockInv, BoostInv
<1>2. LockInv => BoostedWhileHolding
  BY DEF LockInv, IInv, BoostInv, Settled, BoostedWhileHolding, LockTypeOK
<1> QED  BY <1>1, <1>2, LockNextInv, PTL DEF LockSpec
=============================================================================
