--------------------------- MODULE PrioLockCalls ---------------------------
(***************************************************************************)
(* PrioLock together with the priorities that waiting callers have lent.   *)
(***************************************************************************)
EXTENDS PrioLock

VARIABLE
  lent       \* lent[id][s]: the priority with which s asked for the held lock, or 6

callVars == <<lockVars, lent>>

CallInit ==
  /\ LockInit
  /\ lent = [id \in LockIds |-> [s \in Slots |-> 6]]

\* A lock() of a held lock lends the holder the caller's priority.
LockCall(c, p, id) ==
  /\ SysLock(c, p, id)
  /\ lent' = [lent EXCEPT ![id][p] = IF holder[id] \in {0, p} THEN @ ELSE priority[p]]

ReleaseCall(c, p, id) ==
  /\ SysRelease(c, p, id)
  /\ lent' = [lent EXCEPT ![id] = IF holder[id] = p THEN [s \in Slots |-> 6] ELSE @]

\* A loan ends with the lender.
OtherStep ==
  /\ Next
  /\ lent' = [id \in LockIds |-> [s \in Slots |-> IF state'[s] = "ZOMBIE" THEN 6 ELSE lent[id][s]]]
  /\ UNCHANGED holder

CallStep ==
  /\ ~panicked
  /\ \E c \in CPUs, p \in Slots :
       \E id \in LockIds : LockCall(c, p, id) \/ ReleaseCall(c, p, id)

CallNext == OtherStep \/ CallStep

CallSpec == CallInit /\ [][CallNext]_callVars

-----------------------------------------------------------------------------
\* The holder of a contested lock keeps the priority it inherited from a
\* process that is still there until it releases that lock.
InheritsUntilRelease ==
  \A id \in LockIds, s \in Slots : holder[id] # 0 => priority[holder[id]] <= lent[id][s]
=============================================================================
