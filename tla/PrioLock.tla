------------------------------ MODULE PrioLock ------------------------------
(***************************************************************************)
(* The user-level locks of proc.c (sys_lock, sys_release) with their       *)
(* priority inheritance, on top of the process table of module Proc.       *)
(***************************************************************************)
EXTENDS Proc

CONSTANT LockIds     \* the indices of locks[] that programs use

VARIABLE holder      \* locks[id].holder; locks[id].held = 1 iff it is not 0

lockVars == <<vars, holder>>

LockTypeOK == TypeOK /\ holder \in [LockIds -> Slots \cup {0}]

LockInit == Init /\ holder = [id \in LockIds |-> 0]

\* sys_lock(id): take a free lock; else lend the holder the caller's priority
\* if that is better.  Either way it returns 0.
SysLock(c, p, id) ==
  LET h == holder[id] IN
  /\ Syscall(c, p) /\ PtableFree
  /\ \/ /\ h = 0
        /\ holder' = [holder EXCEPT ![id] = p]
        /\ UNCHANGED levels
     \/ /\ h # 0 /\ priority[p] < priority[h]
        /\ original_priority' =
             [original_priority EXCEPT ![h] = IF @ = -1 THEN priority[h] ELSE @]
        /\ priority' = [priority EXCEPT ![h] = priority[p]]
        /\ UNCHANGED <<nice, holder>>
     \/ /\ h # 0 /\ priority[p] >= priority[h]
        /\ UNCHANGED <<levels, holder>>
  /\ UNCHANGED <<fields, nextpid, proc, ptlock, ctx, pc, np, scan, panicked>>

\* Mutant: the loan is not ended.
SysReleaseKeeps(c, p, id) ==
  /\ Syscall(c, p) /\ PtableFree
  /\ holder[id] = p
  /\ holder' = [holder EXCEPT ![id] = 0]
  /\ UNCHANGED vars

\* sys_release(id): the holder frees the lock and gets its own priority back;
\* for anybody else nothing happens.
SysRelease(c, p, id) ==
  /\ Syscall(c, p) /\ PtableFree
  /\ \/ /\ holder[id] = p
        /\ holder' = [holder EXCEPT ![id] = 0]
        /\ IF original_priority[p] # -1
           THEN /\ priority' = [priority EXCEPT ![p] = original_priority[p]]
                /\ original_priority' = [original_priority EXCEPT ![p] = -1]
           ELSE UNCHANGED <<priority, original_priority>>
     \/ /\ holder[id] # p
        /\ UNCHANGED <<holder, priority, original_priority>>
  /\ UNCHANGED <<fields, nice, nextpid, proc, ptlock, ctx, pc, np, scan, panicked>>

LockStep ==
  /\ ~panicked
  /\ \E c \in CPUs, p \in Slots, id \in LockIds : SysLock(c, p, id) \/ SysRelease(c, p, id)

LockNext == (Next /\ UNCHANGED holder) \/ LockStep

LockSpec == LockInit /\ [][LockNext]_lockVars

-----------------------------------------------------------------------------
\* A borrowed priority goes back: a process that runs with one still holds a
\* lock, so that a sys_release() that ends the loan is still to come.
BoostedWhileHolding ==
  /\ LockTypeOK
  /\ \A s \in Slots : Alive(s) /\ original_priority[s] # -1 => \E id \in LockIds : holder[id] = s
=============================================================================
