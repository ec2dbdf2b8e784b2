----------------------------- MODULE AtomicDisk -----------------------------
(***************************************************************************)
(* What the log promises the file system: the updates of the operations    *)
(* that ran together reach the disk all at once, only when none of them is *)
(* still in progress, and a crash loses exactly what has not been          *)
(* committed.                                                              *)
(***************************************************************************)
CONSTANTS Procs, Blocks, Values, None

VARIABLES
  stable,    \* stable[b]: what block b holds after a crash
  pending,   \* pending[b]: an update of b not committed yet, or None
  active     \* the operations in progress

avars == <<stable, pending, active>>

AInit ==
  /\ stable \in [Blocks -> Values]
  /\ pending = [b \in Blocks |-> None]
  /\ active = {}

ABegin(p) == active' = active \cup {p} /\ UNCHANGED <<stable, pending>>

AWrite(b, v) ==
  /\ active # {}
  /\ pending' = [pending EXCEPT ![b] = v]
  /\ UNCHANGED <<stable, active>>

AEnd(p) == active' = active \ {p} /\ UNCHANGED <<stable, pending>>

ACommit ==
  /\ active = {}
  /\ stable' = [b \in Blocks |-> IF pending[b] = None THEN stable[b] ELSE pending[b]]
  /\ pending' = [b \in Blocks |-> None]
  /\ UNCHANGED active

ACrash ==
  /\ pending' = [b \in Blocks |-> None]
  /\ active' = {}
  /\ UNCHANGED stable

ANext ==
  \/ \E p \in Procs : ABegin(p) \/ AEnd(p)
  \/ \E b \in Blocks, v \in Values : AWrite(b, v)
  \/ ACommit \/ ACrash

ASpec == AInit /\ [][ANext]_avars
=============================================================================
