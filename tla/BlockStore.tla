----------------------------- MODULE BlockStore -----------------------------
(***************************************************************************)
(* What the buffer cache promises its callers: every block has one current *)
(* content, which only the block's exclusive owner changes.                *)
(***************************************************************************)
CONSTANTS Threads, Blocks, Values

VARIABLES
  content,    \* the current content of every block
  owners      \* the threads that are between bread() and brelse() of it

storeVars == <<content, owners>>

SInit ==
  /\ content \in [Blocks -> Values]
  /\ owners = [k \in Blocks |-> {}]

SAcquire(t, k) ==
  /\ owners[k] = {} /\ owners' = [owners EXCEPT ![k] = {t}]
  /\ UNCHANGED content

SWrite(t, k, v) ==
  /\ owners[k] = {t} /\ content' = [content EXCEPT ![k] = v]
  /\ UNCHANGED owners

SRelease(t, k) ==
  /\ owners[k] = {t} /\ owners' = [owners EXCEPT ![k] = {}]
  /\ UNCHANGED content

SNext == \E t \in Threads, k \in Blocks :
  SAcquire(t, k) \/ SRelease(t, k) \/ \E v \in Values : SWrite(t, k, v)

SSpec == SInit /\ [][SNext]_storeVars
=============================================================================
