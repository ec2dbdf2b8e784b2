-------------------------------- MODULE Log --------------------------------
(***************************************************************************)
(* The redo log of log.c: begin_op/end_op, log_write, commit and the       *)
(* recovery after a crash, over a buffer cache that may drop any clean     *)
(* buffer (bio.c) and a disk that writes one block at a time.              *)
(*                                                                         *)
(* A critical section of log.lock is one step.  commit() runs without the  *)
(* lock, one disk write per step, and the machine may crash before any of  *)
(* them.  A block holds one of Values.                                     *)
(***************************************************************************)
EXTENDS Integers, FiniteSets, Sequences, Functions

CONSTANTS
  Procs,         \* the threads that execute file system calls
  Blocks,        \* the numbers of the blocks of the file system
  AfterLog,      \* the block that follows the log on disk (an inode block)
  Values, None,
  MAXOPBLOCKS,
  OpBlocks,      \* how many blocks one operation may really write
  MaxCrashes     \* bound

LOGSIZE == 3 * MAXOPBLOCKS
nlog == LOGSIZE              \* mkfs.c; one of these blocks is the header

ASSUME LogAssumption ==
  /\ MAXOPBLOCKS \in Nat \ {0} /\ OpBlocks \in Nat /\ MaxCrashes \in Nat
  /\ None \notin Values /\ None \notin Blocks /\ AfterLog \in Blocks

VARIABLES
  lh,           \* log.lh.block[0 .. n-1]
  outstanding, committing,
  cache,        \* data of the cached buffer of a block, or None
  dirty,        \* blocks whose buffer has B_DIRTY
  disk,         \* home blocks
  dhead, dlog,  \* the header and the data blocks of the log on disk
  th, target, wrote,   \* a thread: where it is, its locked buffer, what it wrote
  stage, tail,  \* the step of commit() or recover_from_log(), its loop index
  panicked, crashes

mem == <<lh, outstanding, committing>>
bufs == <<cache, dirty>>
threads == <<th, target, wrote>>
disks == <<disk, dhead, dlog>>
logVars == <<mem, bufs, threads, disks, stage, tail, panicked, crashes>>

LogBlocks == Range(lh)

\* The data blocks of the log hold nothing that may be read.
Stale == [i \in 1..nlog - 1 |-> None]

LogTypeOK ==
  /\ lh \in Seq(Blocks) /\ outstanding \in Nat /\ committing \in BOOLEAN
  /\ cache \in [Blocks -> Values \cup {None}] /\ dirty \subseteq Blocks
  /\ disk \in [Blocks -> Values] /\ dhead \in Seq(Blocks)
  /\ dlog \in [1..nlog - 1 -> Values \cup {None}]
  /\ th \in [Procs -> {"idle", "asleep", "woken", "op", "logging", "commit"}]
  /\ target \in [Procs -> Blocks \cup {None}]
  /\ wrote \in [Procs -> SUBSET Blocks]
  /\ stage \in {"up", "write_log", "write_head", "install", "clear", "done",
                "read_head", "rinstall", "rclear"}
  /\ tail \in Nat /\ panicked \in BOOLEAN /\ crashes \in 0..MaxCrashes

LogInit ==
  /\ lh = <<>> /\ outstanding = 0 /\ committing = FALSE
  /\ cache = [b \in Blocks |-> None] /\ dirty = {}
  /\ \E v \in Values : disk = [b \in Blocks |-> v]
  /\ dhead = <<>> /\ dlog = Stale
  /\ th = [p \in Procs |-> "idle"]
  /\ target = [p \in Procs |-> None] /\ wrote = [p \in Procs |-> {}]
  /\ stage = "read_head" /\ tail = 0
  /\ panicked = FALSE /\ crashes = 0

-----------------------------------------------------------------------------
(* The buffer cache as the log sees it. *)

\* bread(b): the contents of the buffer, fetched from disk if it is not cached.
bread(b) == IF cache[b] = None THEN disk[b] ELSE cache[b]

Locked(b) == \E p \in Procs : target[p] = b

\* bget() may recycle the buffer of any block that is neither in use nor dirty.
Evict(b) ==
  /\ cache[b] # None /\ b \notin dirty /\ ~Locked(b)
  /\ cache' = [cache EXCEPT ![b] = None]
  /\ UNCHANGED <<mem, dirty, threads, disks, stage, tail, panicked, crashes>>

\* wakeup(&log)
Woken(t) == [p \in Procs |-> IF t[p] = "asleep" THEN "woken" ELSE t[p]]

-----------------------------------------------------------------------------
\* begin_op() must wait for a commit or for log space.
MustWait == committing \/ Len(lh) + (outstanding + 1) * MAXOPBLOCKS > LOGSIZE

begin_op(p) ==
  /\ stage \notin {"read_head", "rinstall", "rclear"}
  /\ th[p] \in {"idle", "woken"}
  /\ IF MustWait
     THEN th' = [th EXCEPT ![p] = "asleep"] /\ UNCHANGED outstanding
     ELSE th' = [th EXCEPT ![p] = "op"] /\ outstanding' = outstanding + 1
  /\ UNCHANGED <<lh, committing, bufs, target, wrote, disks, stage, tail, panicked, crashes>>

\* The caller of log_write() has locked and modified its buffer; log_write()
\* tests the size of the transaction before it takes log.lock.
log_write_test(p, b, v) ==
  /\ th[p] = "op" /\ ~Locked(b)
  /\ b \in wrote[p] \/ Cardinality(wrote[p]) < OpBlocks
  /\ cache' = [cache EXCEPT ![b] = v]
  /\ IF Len(lh) >= LOGSIZE \/ Len(lh) >= nlog - 1 \/ outstanding < 1
     THEN panicked' = TRUE /\ UNCHANGED <<th, target, wrote>>
     ELSE /\ th' = [th EXCEPT ![p] = "logging"]
          /\ target' = [target EXCEPT ![p] = b]
          /\ wrote' = [wrote EXCEPT ![p] = @ \cup {b}]
          /\ UNCHANGED panicked
  /\ UNCHANGED <<mem, dirty, disks, stage, tail, crashes>>

\* Mutant: the block does not get into the header.
log_write_unlogged(p) ==
  /\ th[p] = "logging"
  /\ dirty' = dirty \cup {target[p]}
  /\ th' = [th EXCEPT ![p] = "op"]
  /\ target' = [target EXCEPT ![p] = None]
  /\ UNCHANGED <<mem, cache, wrote, disks, stage, tail, panicked, crashes>>

\* The rest of log_write(), under log.lock, and the brelse() of its caller.
log_write(p) ==
  /\ th[p] = "logging"
  /\ lh' = IF target[p] \in LogBlocks THEN lh ELSE Append(lh, target[p])
  /\ dirty' = dirty \cup {target[p]}
  /\ th' = [th EXCEPT ![p] = "op"]
  /\ target' = [target EXCEPT ![p] = None]
  /\ UNCHANGED <<outstanding, committing, cache, wrote, disks, stage, tail, panicked, crashes>>

\* Mutants: every end_op() commits; end_op() does not wake begin_op().
end_op_commits(p) ==
  /\ th[p] = "op" /\ ~committing
  /\ outstanding' = outstanding - 1 /\ committing' = TRUE
  /\ wrote' = [wrote EXCEPT ![p] = {}]
  /\ th' = [th EXCEPT ![p] = "commit"]
  /\ stage' = IF lh = <<>> THEN "done" ELSE "write_log"
  /\ tail' = 0
  /\ UNCHANGED <<lh, bufs, target, disks, panicked, crashes>>
end_op_silent(p) ==
  /\ th[p] = "op"
  /\ outstanding' = outstanding - 1
  /\ wrote' = [wrote EXCEPT ![p] = {}]
  /\ th' = [th EXCEPT ![p] = "idle"]
  /\ UNCHANGED <<lh, committing, bufs, target, disks, stage, tail, panicked, crashes>>

\* end_op() up to the release of log.lock: the last operation commits.
end_op(p) ==
  /\ th[p] = "op"
  /\ outstanding' = outstanding - 1
  /\ wrote' = [wrote EXCEPT ![p] = {}]
  /\ IF committing THEN panicked' = TRUE /\ UNCHANGED <<th, committing, stage, tail>>
     ELSE /\ UNCHANGED panicked
          /\ IF outstanding = 1
             THEN /\ th' = [th EXCEPT ![p] = "commit"]
                  /\ committing' = TRUE
                  /\ stage' = IF lh = <<>> THEN "done" ELSE "write_log"
                  /\ tail' = 0
             ELSE th' = Woken([th EXCEPT ![p] = "idle"]) /\ UNCHANGED <<committing, stage, tail>>
  /\ UNCHANGED <<lh, bufs, target, disks, crashes>>

-----------------------------------------------------------------------------
\* commit(), one disk write at a time: the modified blocks go to the log ...
write_log ==
  /\ stage = "write_log"
  /\ IF tail < Len(lh)
     THEN /\ IF tail + 1 <= nlog - 1
             THEN dlog' = [dlog EXCEPT ![tail + 1] = bread(lh[tail + 1])] /\ UNCHANGED disk
             ELSE disk' = [disk EXCEPT ![AfterLog] = bread(lh[tail + 1])] /\ UNCHANGED dlog
          /\ tail' = tail + 1 /\ UNCHANGED stage
     ELSE stage' = "write_head" /\ tail' = 0 /\ UNCHANGED <<disk, dlog>>
  /\ UNCHANGED <<mem, bufs, threads, dhead, panicked, crashes>>

\* ... then the header: the point of the commit ...
write_head ==
  /\ stage = "write_head"
  /\ dhead' = lh
  /\ stage' = "install"
  /\ UNCHANGED <<mem, bufs, threads, disk, dlog, tail, panicked, crashes>>

\* ... then the blocks are copied home, in commit() and in recovery ...
install_trans ==
  /\ stage \in {"install", "rinstall"}
  /\ IF tail < Len(lh)
     THEN LET b == lh[tail + 1] IN
          /\ disk' = [disk EXCEPT ![b] = dlog[tail + 1]]
          /\ cache' = [cache EXCEPT ![b] = dlog[tail + 1]]
          /\ dirty' = dirty \ {b}
          /\ tail' = tail + 1 /\ UNCHANGED stage
     ELSE /\ stage' = IF stage = "install" THEN "clear" ELSE "rclear"
          /\ tail' = 0
          /\ UNCHANGED <<disk, bufs>>
  /\ UNCHANGED <<mem, threads, dhead, dlog, panicked, crashes>>

\* ... and the transaction is erased from the log.
clear_head ==
  /\ stage \in {"clear", "rclear"}
  /\ lh' = <<>> /\ dhead' = <<>> /\ dlog' = Stale
  /\ stage' = IF stage = "clear" THEN "done" ELSE "up"
  /\ UNCHANGED <<outstanding, committing, bufs, threads, disk, tail, panicked, crashes>>

\* The end of end_op() after commit().
commit_done(p) ==
  /\ th[p] = "commit" /\ stage = "done"
  /\ committing' = FALSE
  /\ th' = Woken([th EXCEPT ![p] = "idle"])
  /\ stage' = "up"
  /\ UNCHANGED <<lh, outstanding, bufs, target, wrote, disks, tail, panicked, crashes>>

-----------------------------------------------------------------------------
\* The machine stops at any time, or after a panic, and starts again.
Crash ==
  /\ crashes < MaxCrashes
  /\ crashes' = crashes + 1
  /\ lh' = <<>> /\ outstanding' = 0 /\ committing' = FALSE
  /\ cache' = [b \in Blocks |-> None] /\ dirty' = {}
  /\ th' = [p \in Procs |-> "idle"]
  /\ target' = [p \in Procs |-> None] /\ wrote' = [p \in Procs |-> {}]
  /\ stage' = "read_head" /\ tail' = 0
  /\ panicked' = FALSE
  /\ UNCHANGED disks

\* recover_from_log(), called from initlog() before any file system call.
read_head ==
  /\ stage = "read_head"
  /\ lh' = dhead
  /\ stage' = "rinstall"
  /\ UNCHANGED <<outstanding, committing, bufs, threads, disks, tail, panicked, crashes>>

CommitStep ==
  \/ write_log \/ write_head \/ install_trans \/ clear_head \/ read_head
  \/ \E p \in Procs : commit_done(p)

OpStep ==
  \E p \in Procs :
    \/ begin_op(p) \/ log_write(p) \/ end_op(p)
    \/ \E b \in Blocks, v \in Values : log_write_test(p, b, v)

LogNext ==
  \/ ~panicked /\ (CommitStep \/ OpStep \/ \E b \in Blocks : Evict(b))
  \/ Crash

LogSpec == LogInit /\ [][LogNext]_logVars

-----------------------------------------------------------------------------
(* The log implements AtomicDisk: what counts is what recovery would leave
   on disk, and the point of the commit is the write of the header. *)
Recovered ==
  [b \in Blocks |-> LET at == {i \in DOMAIN dhead : dhead[i] = b} IN
                    IF at = {} THEN disk[b] ELSE dlog[CHOOSE i \in at : TRUE]]

Uncommitted ==
  [b \in Blocks |-> IF b \in LogBlocks /\ stage \in {"up", "write_log", "write_head"}
                    THEN cache[b] ELSE None]

InProgress == {p \in Procs : th[p] \in {"op", "logging"}}

Atomic == INSTANCE AtomicDisk
            WITH stable <- Recovered, pending <- Uncommitted, active <- InProgress

\* File system calls are atomic with respect to crashes: the updates of a
\* group of calls reach the disk at one point, the write of the log header,
\* and not before the last of them has called end_op(); a crash at any time,
\* also in commit() or in recovery itself, loses what is not committed and
\* nothing else; a clean buffer can be dropped from the cache meanwhile.
AtomicUpdates == Atomic!ASpec

\* No wakeup of begin_op() is lost: a thread is asleep on the log only while
\* it would have to wait, so a commit or an end_op() that wakes it is to come.
NoMissedWakeup == LogTypeOK /\ \A p \in Procs : th[p] = "asleep" => MustWait

\* What a thread reads through the cache is the last update, committed or
\* not, whatever has been dropped from the cache and whatever the commit is
\* doing.  (After a panic nobody reads.)
ReadsLatest ==
  ~panicked /\ stage \in {"up", "write_log", "write_head", "install", "clear"} =>
    \A b \in Blocks : ~Locked(b) =>
      bread(b) = IF Uncommitted[b] # None THEN Uncommitted[b] ELSE Recovered[b]

\* No transaction is too big: what begin_op() reserves is enough, so that
\* log_write() does not panic.
NoPanic == ~panicked
=============================================================================
