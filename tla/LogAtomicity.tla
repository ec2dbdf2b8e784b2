---------------------------- MODULE LogAtomicity ----------------------------
(***************************************************************************)
(* The theorems about module Log: it implements AtomicDisk as long as its  *)
(* transactions fit in the log; and what begin_op() reserves is enough for *)
(* that when an operation writes fewer than MAXOPBLOCKS blocks.            *)
(***************************************************************************)
EXTENDS LogProofs

\* What is on disk is unchanged, and so is what recovery would make of it.
LEMMA RecoveredSame == ASSUME UNCHANGED disks PROVE Recovered' = Recovered
BY DEF Recovered, disks

\* write_log() and install_trans() do not change what recovery would leave on
\* disk: the first writes what no header refers to, the second what a header does.
LEMMA CopyingKeepsRecovered ==
  ASSUME LogInv, ~panicked, Fits, write_log \/ install_trans
  PROVE  Recovered' = Recovered
<1>1. LogTypeOK /\ PhaseInv /\ Len(lh) \in Nat /\ tail \in Nat /\ nlog \in Int /\ dhead' = dhead
  <2>1. LogTypeOK /\ PhaseInv /\ nlog \in Int
    BY LogAssumption DEF LogInv, nlog, LOGSIZE
  <2>2. Len(lh) \in Nat /\ tail \in Nat
    BY <2>1 DEF LogTypeOK
  <2>3. dhead' = dhead
    BY DEF write_log, install_trans
  <2> QED  BY <2>1, <2>2, <2>3
<1>2. CASE write_log
  <2>1. dhead = <<>> /\ disk' = disk
    BY <1>1, <1>2 DEF write_log, PhaseInv, Fits
  <2> QED  BY <1>1, <2>1 DEF Recovered
<1>3. CASE install_trans
  <2>1. dhead = lh /\ dlog' = dlog
    BY <1>1, <1>3 DEF install_trans, PhaseInv
  <2>2. CASE ~(tail < Len(lh))
    BY <1>1, <1>3, <2>1, <2>2 DEF install_trans, Recovered
  <2>3. CASE tail < Len(lh)
    <3> DEFINE c == lh[tail + 1]
    <3>1. tail + 1 \in 1..Len(lh) /\ c \in Blocks /\ disk' = [disk EXCEPT ![c] = dlog[tail + 1]]
      BY <1>1, <1>3, <2>3 DEF install_trans, LogTypeOK
    <3>2. \A b \in Blocks : b # c => disk'[b] = disk[b]
      BY <1>1, <3>1 DEF LogTypeOK
    <3>3. \A b \in Blocks : {i \in DOMAIN dhead : dhead[i] = b} = {} => b # c
      BY <1>1, <2>1, <3>1 DEF LogTypeOK
    <3> QED  BY <1>1, <2>1, <3>2, <3>3 DEF Recovered
  <2> QED  BY <2>2, <2>3
<1> QED  BY <1>2, <1>3

\* The write of the header is the point of the commit: recovery now finds what
\* was pinned in the cache.
LEMMA HeadCommits == ASSUME LogInv, ~panicked, Fits, write_head PROVE Atomic!ACommit
<1> USE DEF write_head, mem, bufs, threads
<1>1. /\ LogTypeOK /\ HeadInv /\ PhaseInv /\ CopyInv /\ LogTypeOK' /\ HeadInv'
      /\ dhead = <<>> /\ dhead' = lh /\ disk' = disk /\ dlog' = dlog
  BY WriteHeadLogInv DEF LogInv, PhaseInv
<1>2. InProgress = {} /\ InProgress' = {}
  BY <1>1 DEF PhaseInv, InProgress
<1>3. Uncommitted' = [b \in Blocks |-> None]
  BY DEF Uncommitted
<1>4. \A b \in Blocks : Recovered[b] = disk[b]
  BY <1>1, EmptyHeader, RecoveredNow
<1>5. /\ \A i \in 1..Len(lh) : Recovered'[lh[i]] = dlog[i]
      /\ \A b \in Blocks : (\A i \in 1..Len(lh) : lh[i] # b) => Recovered'[b] = disk[b]
  <2>1. Recovered' = RecoveredFrom(disk, lh, dlog)
    BY <1>1 DEF Recovered, RecoveredFrom
  <2>2. lh \in Seq(Blocks) /\ \A i, j \in 1..Len(lh) : lh[i] = lh[j] => i = j
    BY <1>1 DEF LogTypeOK, HeadInv
  <2> QED  BY ONLY <2>1, <2>2, RecoveredBlock
<1>6. \A b \in Blocks : Uncommitted[b] = IF b \in LogBlocks THEN cache[b] ELSE None
  BY DEF Uncommitted
<1>7. \A b \in Blocks : Recovered'[b] = IF Uncommitted[b] = None THEN Recovered[b] ELSE Uncommitted[b]
  <2>1. TAKE b \in Blocks
  <2>2. DOMAIN lh = 1..Len(lh)
    BY <1>1 DEF LogTypeOK
  <2>3. CASE b \in LogBlocks
    <3>1. PICK i \in 1..Len(lh) : lh[i] = b
      BY <2>2, <2>3 DEF LogBlocks, Range
    <3>2. dlog[i] = cache[b] /\ cache[b] # None
      BY <1>1, <2>3, <3>1 DEF CopyInv
    <3> QED  BY <1>5, <1>6, <2>3, <3>1, <3>2
  <2>4. CASE b \notin LogBlocks
    BY <1>4, <1>5, <1>6, <2>2, <2>4 DEF LogBlocks, Range
  <2> QED  BY <2>3, <2>4
<1>8. Recovered' = [b \in Blocks |-> IF Uncommitted[b] = None THEN Recovered[b] ELSE Uncommitted[b]]
  BY <1>7 DEF Recovered
<1> QED  BY <1>2, <1>3, <1>8 DEF Atomic!ACommit

\* The log starts as an AtomicDisk: what is on disk counts.
LEMMA InitAtomic == LogInit => Atomic!AInit
<1> SUFFICES ASSUME LogInit PROVE Atomic!AInit
  OBVIOUS
<1>1. dhead = <<>> /\ lh = <<>> /\ disk \in [Blocks -> Values]
  BY DEF LogInit
<1>2. Recovered = disk
  BY <1>1 DEF Recovered
<1>3. Uncommitted = [b \in Blocks |-> None]
  BY <1>1, EmptyHeader DEF Uncommitted, LogBlocks
<1>4. InProgress = {}
  BY DEF LogInit, InProgress
<1> QED  BY <1>1, <1>2, <1>3, <1>4 DEF Atomic!AInit

\* A file system call is seen by the disk as begin_op(), updates and end_op().
LEMMA OpAtomic == ASSUME LogInv, ~panicked, OpStep PROVE [Atomic!ANext]_(Atomic!avars)
<1>1. LogTypeOK /\ PhaseInv /\ CopyInv /\ (\A p \in InProgress : stage = "up")
  BY DEF LogInv, PhaseInv
<1>2. PICK p \in Procs : \/ begin_op(p) \/ log_write(p) \/ end_op(p)
                         \/ \E b \in Blocks, v \in Values : log_write_test(p, b, v)
  BY DEF OpStep
<1>3. CASE begin_op(p)
  <2>1. UNCHANGED Recovered
    BY <1>3, RecoveredSame DEF begin_op
  <2>2. UNCHANGED Uncommitted
    BY <1>3 DEF begin_op, Uncommitted, LogBlocks, bufs
  <2>3. UNCHANGED InProgress \/ InProgress' = InProgress \cup {p}
    BY <1>1, <1>3 DEF begin_op, InProgress, LogTypeOK
  <2> QED  BY <2>1, <2>2, <2>3 DEF Atomic!ANext, Atomic!ABegin, Atomic!avars
<1>4. CASE log_write(p)
  <2>1. UNCHANGED Recovered /\ UNCHANGED <<stage, cache>>
    BY <1>4, RecoveredSame DEF log_write
  <2>2. UNCHANGED InProgress /\ p \in InProgress
    BY <1>1, <1>4 DEF log_write, InProgress, LogTypeOK
  <2>3. target[p] \in Blocks /\ cache[target[p]] \in Values
    BY <1>1, <1>4 DEF log_write, PhaseInv, CopyInv, LogTypeOK
  <2>4. CASE target[p] \in LogBlocks
    BY <1>4, <2>1, <2>2, <2>4 DEF log_write, Uncommitted, LogBlocks, Atomic!avars
  <2>5. CASE target[p] \notin LogBlocks
    <3>1. LogBlocks' = LogBlocks \cup {target[p]}
      BY <1>1, <1>4, <2>3, <2>5, AppendBlocks DEF log_write, LogBlocks, LogTypeOK
    <3>2. Uncommitted' = [Uncommitted EXCEPT ![target[p]] = cache[target[p]]]
      BY <1>1, <2>1, <2>2, <2>3, <3>1 DEF Uncommitted
    <3> QED  BY <2>1, <2>2, <2>3, <3>2 DEF Atomic!ANext, Atomic!AWrite
  <2> QED  BY <2>4, <2>5
<1>5. CASE end_op(p)
  <2>1. UNCHANGED Recovered
    BY <1>5, RecoveredSame DEF end_op
  <2>2. p \in InProgress /\ stage = "up" /\ ~committing
    BY <1>1, <1>5 DEF end_op, InProgress, PhaseInv
  <2>3. InProgress' = InProgress \ {p}
    BY <1>1, <1>5, <2>2 DEF end_op, InProgress, LogTypeOK, Woken
  <2>4. stage' \in {"up", "write_log"} \/ lh = <<>>
    BY <1>5, <2>2 DEF end_op
  <2>5. lh' = lh /\ cache' = cache /\ (lh = <<>> => LogBlocks = {})
    BY <1>5, EmptyHeader DEF end_op, LogBlocks, bufs
  <2>6. UNCHANGED Uncommitted
    BY <2>2, <2>4, <2>5 DEF Uncommitted, LogBlocks
  <2> QED  BY <2>1, <2>3, <2>6 DEF Atomic!ANext, Atomic!AEnd
<1>6. ASSUME NEW b \in Blocks, NEW v \in Values, log_write_test(p, b, v)
      PROVE  [Atomic!ANext]_(Atomic!avars)
  <2>1. UNCHANGED Recovered /\ UNCHANGED <<stage, lh>>
    BY <1>6, RecoveredSame DEF log_write_test, mem
  <2>2. UNCHANGED InProgress /\ p \in InProgress
    BY <1>1, <1>6 DEF log_write_test, InProgress, LogTypeOK
  <2>3. stage = "up"
    BY <1>1, <2>2
  <2>4. \A c \in Blocks : cache'[c] = IF c = b THEN v ELSE cache[c]
    BY <1>1, <1>6 DEF log_write_test, LogTypeOK
  <2>5. CASE b \in LogBlocks
    <3>1. Uncommitted' = [Uncommitted EXCEPT ![b] = v]
      BY <2>1, <2>3, <2>4, <2>5 DEF Uncommitted, LogBlocks
    <3> QED  BY <2>1, <2>2, <3>1 DEF Atomic!ANext, Atomic!AWrite
  <2>6. CASE b \notin LogBlocks
    <3>1. Uncommitted' = Uncommitted
      BY <2>1, <2>3, <2>4, <2>6 DEF Uncommitted, LogBlocks
    <3> QED  BY <2>1, <2>2, <3>1 DEF Atomic!avars
  <2> QED  BY <2>5, <2>6
<1> QED  BY <1>2, <1>3, <1>4, <1>5, <1>6

\* Of the steps of commit() and recovery, the write of the header commits and
\* the others change nothing that counts.
LEMMA CommitAtomic == ASSUME LogInv, ~panicked, Fits, CommitStep PROVE [Atomic!ANext]_(Atomic!avars)
<1>1. LogTypeOK /\ HeadInv /\ PhaseInv /\ CopyInv
  BY DEF LogInv
<1>2. CASE write_log
  BY <1>2, CopyingKeepsRecovered
  DEF write_log, mem, bufs, threads, Uncommitted, LogBlocks, InProgress, Atomic!avars
<1>3. CASE write_head
  BY <1>3, HeadCommits DEF Atomic!ANext
<1>4. CASE install_trans
  BY <1>4, CopyingKeepsRecovered
  DEF install_trans, mem, threads, Uncommitted, LogBlocks, InProgress, Atomic!avars
<1>5. CASE clear_head
  <2>1. /\ dhead = lh /\ dhead' = <<>> /\ disk' = disk /\ lh' = <<>> /\ InProgress' = InProgress
        /\ stage \in {"clear", "rclear"}
    BY <1>1, <1>5 DEF clear_head, PhaseInv, InProgress, threads
  <2>2. \A b \in Blocks : Recovered[b] = disk[b]
    <3>1. TAKE b \in Blocks
    <3>2. CASE \A i \in 1..Len(lh) : lh[i] # b
      BY <1>1, <2>1, <3>2, RecoveredNow
    <3>3. ASSUME NEW i \in 1..Len(lh), lh[i] = b PROVE Recovered[b] = disk[b]
      BY <1>1, <2>1, <3>3, RecoveredNow DEF CopyInv
    <3> QED  BY <3>2, <3>3
  <2>3. Recovered' = Recovered
    BY <2>1, <2>2 DEF Recovered
  <2>4. Uncommitted' = Uncommitted
    BY <1>5, <2>1, EmptyHeader DEF clear_head, Uncommitted, LogBlocks
  <2> QED  BY <2>1, <2>3, <2>4 DEF Atomic!avars
<1>6. CASE read_head
  <2>1. UNCHANGED Recovered /\ UNCHANGED InProgress
    BY <1>6, RecoveredSame DEF read_head, InProgress, threads
  <2>2. UNCHANGED Uncommitted
    BY <1>6 DEF read_head, Uncommitted
  <2> QED  BY <2>1, <2>2 DEF Atomic!avars
<1>7. ASSUME NEW p \in Procs, commit_done(p) PROVE [Atomic!ANext]_(Atomic!avars)
  <2>1. UNCHANGED Recovered /\ UNCHANGED InProgress
    BY <1>1, <1>7, RecoveredSame DEF commit_done, InProgress, Woken, LogTypeOK
  <2>2. UNCHANGED Uncommitted
    BY <1>1, <1>7, EmptyHeader DEF commit_done, Uncommitted, LogBlocks, PhaseInv, bufs
  <2> QED  BY <2>1, <2>2 DEF Atomic!avars
<1> QED  BY <1>2, <1>3, <1>4, <1>5, <1>6, <1>7 DEF CommitStep

\* Every step of the log is a step of AtomicDisk or changes nothing that counts.
LEMMA NextAtomic ==
  ASSUME LogInv, Fits, [LogNext]_logVars PROVE [Atomic!ANext]_(Atomic!avars)
<1>1. CASE ~panicked /\ CommitStep
  BY <1>1, CommitAtomic
<1>2. CASE ~panicked /\ OpStep
  BY <1>2, OpAtomic
<1>3. ASSUME ~panicked, NEW b \in Blocks, Evict(b) PROVE [Atomic!ANext]_(Atomic!avars)
  <2>1. LogTypeOK /\ CopyInv /\ UNCHANGED <<lh, stage>>
    BY <1>3 DEF LogInv, Evict, mem
  <2>2. UNCHANGED Recovered /\ UNCHANGED InProgress
    BY <1>3, RecoveredSame DEF Evict, InProgress, threads
  <2>3. UNCHANGED Uncommitted
    BY <1>3, <2>1 DEF Evict, Uncommitted, LogBlocks, CopyInv, LogTypeOK
  <2> QED  BY <2>2, <2>3 DEF Atomic!avars
<1>4. CASE Crash
  <2>1. UNCHANGED Recovered /\ InProgress' = {}
    BY <1>4, RecoveredSame DEF Crash, InProgress
  <2>2. Uncommitted' = [b \in Blocks |-> None]
    BY <1>4 DEF Crash, Uncommitted
  <2> QED  BY <2>1, <2>2 DEF Atomic!ANext, Atomic!ACrash
<1>5. CASE UNCHANGED logVars
  BY <1>5, RecoveredSame
  DEF logVars, mem, bufs, threads, Uncommitted, LogBlocks, InProgress, Atomic!avars
<1> QED  BY <1>1, <1>2, <1>3, <1>4, <1>5 DEF LogNext

-----------------------------------------------------------------------------
\* The steps of commit() and of the recovery take nothing from a reservation.
LEMMA CommitReserve ==
  ASSUME LogInv, LogInv', Fits, ~panicked, ReserveInv, CommitStep PROVE Fits' /\ ReserveInv'
<1>1. /\ LogTypeOK /\ PhaseInv /\ HeadInv /\ CountInv
      /\ ~panicked' /\ LogTypeOK' /\ PhaseInv' /\ HeadInv' /\ CountInv'
  <2>1. panicked' = panicked
    BY DEF CommitStep, write_log, write_head, install_trans, clear_head, read_head, commit_done
  <2> QED  BY <2>1 DEF LogInv
<1>2. CASE write_log \/ write_head \/ install_trans
  BY <1>2, SameReserve DEF write_log, write_head, install_trans, mem, threads, InProgress, Fits
<1>3. ASSUME NEW p \in Procs, commit_done(p) PROVE Fits' /\ ReserveInv'
  <2>1. UNCHANGED <<lh, outstanding, wrote, target>>
    BY <1>3 DEF commit_done
  <2>2. InProgress' = InProgress /\ \A q \in Procs : th'[q] = "logging" => th[q] = "logging"
    BY <1>1, <1>3 DEF commit_done, InProgress, LogTypeOK, Woken
  <2>3. lh = <<>>
    BY <1>1, <1>3 DEF commit_done, PhaseInv
  <2> QED  BY <2>1, <2>2, <2>3, SameReserve DEF Fits
<1>4. CASE clear_head \/ read_head
  <2>1. /\ wrote' = wrote /\ th' = th /\ target' = target /\ outstanding' = outstanding
        /\ lh' = <<>> \/ (lh' = dhead /\ stage' # "up")
        /\ stage # "up"
    <3>1. CASE clear_head
      BY <3>1 DEF clear_head, threads
    <3>2. CASE read_head
      BY <3>2 DEF read_head, threads
    <3> QED  BY <1>4, <3>1, <3>2
  <2>2. outstanding = 0
    BY <1>1, <2>1, FS_EmptySet DEF PhaseInv, CountInv
  <2>3. /\ LOGSIZE \in Nat /\ MAXOPBLOCKS \in Nat /\ Len(lh') \in Nat /\ Len(lh') <= nlog - 1
        /\ Len(lh') <= LOGSIZE
    BY <1>1, <2>1, EmptyHeader, LogAssumption DEF HeadInv, nlog, LOGSIZE, LogTypeOK
  <2>4. Cardinality(Logged') \in Nat
    BY <1>1, <2>1, LoggedBoundNext DEF ReserveInv
  <2>5. outstanding' * MAXOPBLOCKS = 0
    BY <2>1, <2>2, <2>3
  <2>6. Reserved'
    BY <2>1, <2>2, <2>3, <2>4, <2>5 DEF Reserved
  <2> QED  BY <2>1, <2>3, <2>6 DEF ReserveInv, Fits
<1> QED  BY <1>2, <1>3, <1>4 DEF CommitStep

\* begin_op() reserves MAXOPBLOCKS blocks of what is left of the log.
LEMMA BeginReserve ==
  ASSUME LogInv, LogInv', ~panicked, ReserveInv, NEW p \in Procs, begin_op(p) PROVE ReserveInv'
<1>1. /\ LogTypeOK /\ LogTypeOK' /\ CountInv' /\ UNCHANGED <<lh, wrote, target, stage>>
      /\ \A q \in Procs : th'[q] = "logging" => th[q] = "logging"
  BY DEF LogInv, begin_op, LogTypeOK
<1>2. CASE MustWait
  BY <1>1, <1>2, SameReserve DEF begin_op, InProgress, LogTypeOK
<1>3. CASE ~MustWait
  <2>1. Cardinality(Logged') \in Nat
    BY <1>1, LoggedBoundNext DEF ReserveInv
  <2>2. /\ Len(lh) \in Nat /\ LOGSIZE \in Nat /\ (outstanding + 1) * MAXOPBLOCKS \in Int
        /\ outstanding' = outstanding + 1
    BY <1>1, <1>3, LogAssumption DEF LogTypeOK, LOGSIZE, begin_op
  <2>3. Len(lh) + (outstanding + 1) * MAXOPBLOCKS <= LOGSIZE
    BY <1>3, <2>2 DEF MustWait
  <2>4. (Len(lh) + outstanding * MAXOPBLOCKS <= LOGSIZE + Cardinality(Logged))'
    BY <1>1, <2>1, <2>2, <2>3
  <2>5. outstanding' # 0 /\ (outstanding' = 1 => Len(lh') = 0)
    <3>1. outstanding \in Nat /\ PhaseInv
      BY <1>1 DEF LogTypeOK, LogInv
    <3>2. stage = "up"
      BY <1>1, <1>3, <3>1 DEF begin_op, MustWait, PhaseInv, LogTypeOK
    <3>3. outstanding = 0 => lh = <<>>
      BY <3>2 DEF ReserveInv
    <3> QED  BY <1>1, <2>2, <3>1, <3>3, EmptyHeader
  <2>6. Reserved'
    BY <2>1, <2>4, <2>5 DEF Reserved
  <2> QED  BY <1>1, <2>5, <2>6 DEF ReserveInv
<1> QED  BY <1>2, <1>3

\* The caller of log_write() writes no more blocks than an operation may.
LEMMA WriteTestReserve ==
  ASSUME LogInv, LogInv', ~panicked, ~panicked', ReserveInv,
         NEW p \in Procs, NEW b \in Blocks, NEW v \in Values, log_write_test(p, b, v)
  PROVE  ReserveInv'
<1>1. /\ LogTypeOK /\ CountInv /\ LogTypeOK' /\ CountInv' /\ UNCHANGED <<lh, outstanding, stage>>
      /\ th' = [th EXCEPT ![p] = "logging"]
      /\ target' = [target EXCEPT ![p] = b]
      /\ wrote' = [wrote EXCEPT ![p] = @ \cup {b}]
  BY DEF LogInv, log_write_test, mem
<1>2. InProgress' = InProgress
  BY <1>1 DEF InProgress, LogTypeOK, log_write_test
<1>3. \A q \in Procs : wrote'[q] = IF q = p THEN wrote[p] \cup {b} ELSE wrote[q]
  BY <1>1 DEF LogTypeOK
<1>4. IsFiniteSet(wrote[p] \cup {b}) /\ Cardinality(wrote[p] \cup {b}) <= OpBlocks
  <2>1. IsFiniteSet(wrote[p]) /\ Cardinality(wrote[p]) <= OpBlocks
    BY DEF ReserveInv
  <2>2. /\ IsFiniteSet(wrote[p] \cup {b})
        /\ Cardinality(wrote[p] \cup {b}) = IF b \in wrote[p] THEN Cardinality(wrote[p])
                                            ELSE Cardinality(wrote[p]) + 1
    BY <2>1, FS_AddElement
  <2>3. Cardinality(wrote[p]) \in Nat
    BY <2>1, FS_CardinalityType
  <2> QED  BY <2>1, <2>2, <2>3, LogAssumption DEF log_write_test
<1>5. (\A q \in Procs : IsFiniteSet(wrote[q]) /\ Cardinality(wrote[q]) <= OpBlocks)'
  BY <1>3, <1>4 DEF ReserveInv
<1>6. (\A q \in Procs : th[q] = "logging" => target[q] \in wrote[q])'
  BY <1>1, <1>3 DEF ReserveInv, LogTypeOK
<1>7. Logged \subseteq Logged'
  BY <1>1, <1>2, <1>3 DEF Logged, LogBlocks, InProgress
<1>8. IsFiniteSet(Logged') /\ Cardinality(Logged') \in Nat
  BY <1>1, <1>5, LoggedBoundNext
<1>9. Cardinality(Logged) <= Cardinality(Logged') /\ Cardinality(Logged) \in Nat
  BY <1>7, <1>8, FS_Subset, FS_CardinalityType
<1>10. Len(lh) \in Nat /\ LOGSIZE \in Nat /\ outstanding * MAXOPBLOCKS \in Int
  BY <1>1, LogAssumption DEF LogTypeOK, LOGSIZE
<1>11. Reserved'
  BY <1>1, <1>8, <1>9, <1>10, LogAssumption DEF ReserveInv, Reserved
<1> QED  BY <1>1, <1>5, <1>6, <1>11 DEF ReserveInv

\* log_write() adds a block to the header that was reserved for its operation.
LEMMA WriteReserve ==
  ASSUME LogInv, LogInv', Fits, ~panicked, ReserveInv, OpBlocks < MAXOPBLOCKS,
         NEW p \in Procs, log_write(p)
  PROVE  Fits' /\ ReserveInv'
<1>1. /\ LogTypeOK /\ PhaseInv /\ CountInv /\ LogTypeOK' /\ CountInv'
      /\ UNCHANGED <<outstanding, wrote, stage>>
  BY DEF LogInv, log_write
<1>2. InProgress' = InProgress /\ p \in InProgress
  BY <1>1 DEF InProgress, LogTypeOK, log_write
<1>3. target[p] \in Blocks /\ target[p] \in wrote[p]
  BY <1>1 DEF PhaseInv, LogTypeOK, log_write, ReserveInv
<1>4. (\A q \in Procs : IsFiniteSet(wrote[q]) /\ Cardinality(wrote[q]) <= OpBlocks)'
  BY <1>1 DEF ReserveInv
<1>5. (\A q \in Procs : th[q] = "logging" => target[q] \in wrote[q])'
  BY <1>1 DEF ReserveInv, LogTypeOK, log_write
<1>6. /\ IsFiniteSet(Logged') /\ Cardinality(Logged') \in Nat
      /\ Cardinality(Logged') <= outstanding * OpBlocks
  BY <1>1, <1>4, LoggedBoundNext
<1>7. /\ Len(lh) \in Nat /\ Len(lh') \in Nat /\ LOGSIZE \in Nat /\ outstanding \in Nat
      /\ outstanding * MAXOPBLOCKS \in Int
  BY <1>1, LogAssumption DEF LogTypeOK, LOGSIZE
<1>8. CASE target[p] \in LogBlocks
  <2>1. lh' = lh /\ Logged' = Logged
    BY <1>1, <1>2, <1>8 DEF log_write, Logged, LogBlocks
  <2> QED  BY <1>1, <1>4, <1>5, <2>1 DEF ReserveInv, Reserved, Fits
<1>9. CASE target[p] \notin LogBlocks
  <2>1. Len(lh') = Len(lh) + 1 /\ LogBlocks' = LogBlocks \cup {target[p]}
    <3>1. lh \in Seq(Blocks) /\ lh' = Append(lh, target[p])
      BY <1>1, <1>9 DEF log_write, LogTypeOK
    <3> QED  BY ONLY <1>3, <3>1, AppendBlocks DEF LogBlocks
  <2>2. Logged \cup {<<p, target[p]>>} \subseteq Logged' /\ <<p, target[p]>> \notin Logged
    BY <1>1, <1>2, <1>3, <1>9, <2>1 DEF Logged
  <2>3. IsFiniteSet(Logged) /\ Cardinality(Logged) \in Nat
    BY <1>1, LoggedBound DEF ReserveInv
  <2>4. Cardinality(Logged \cup {<<p, target[p]>>}) = Cardinality(Logged) + 1
    BY <2>2, <2>3, FS_AddElement
  <2>5. Cardinality(Logged \cup {<<p, target[p]>>}) <= Cardinality(Logged')
    BY <1>6, <2>2, FS_Subset
  <2>6. Reserved'
    BY <1>1, <1>6, <1>7, <2>1, <2>3, <2>4, <2>5, LogAssumption DEF ReserveInv, Reserved
  <2>7. outstanding # 0
    BY <1>1, <1>2, FS_EmptySet DEF CountInv
  <2>8. Len(lh') + outstanding * MAXOPBLOCKS <= LOGSIZE + Cardinality(Logged')
    BY <1>1, <2>6 DEF Reserved
  <2>9. Len(lh') + outstanding <= LOGSIZE
    BY <1>6, <1>7, <2>8, Room
  <2>10. Len(lh') + 1 <= LOGSIZE
    BY <1>7, <2>7, <2>9
  <2>11. Fits'
    BY ONLY <1>7, <2>10, LogAssumption DEF Fits, nlog, LOGSIZE
  <2>12. (stage = "up" /\ outstanding = 0 => lh = <<>>)'
    BY ONLY <1>1, <2>7
  <2> QED  BY ONLY Zenon, <1>4, <1>5, <2>6, <2>11, <2>12 DEF ReserveInv
<1> QED  BY ONLY <1>8, <1>9

\* end_op() gives back what its operation has not used of its reservation.
LEMMA EndReserve ==
  ASSUME LogInv, LogInv', ~panicked, ReserveInv, OpBlocks < MAXOPBLOCKS, NEW p \in Procs, end_op(p)
  PROVE  ReserveInv'
<1>1. /\ LogTypeOK /\ PhaseInv /\ CountInv /\ lh' = lh /\ target' = target
      /\ outstanding' = outstanding - 1 /\ wrote' = [wrote EXCEPT ![p] = {}]
  BY DEF LogInv, end_op
<1>2. p \in InProgress /\ stage = "up" /\ ~committing
  BY <1>1 DEF InProgress, PhaseInv, end_op
<1>3. ~panicked' /\ CountInv'
  BY <1>2 DEF end_op, LogInv
<1>4. InProgress' = InProgress \ {p}
  BY <1>1, <1>2 DEF InProgress, LogTypeOK, Woken, end_op
<1>5. \A q \in Procs : wrote'[q] = IF q = p THEN {} ELSE wrote[q]
  BY <1>1 DEF LogTypeOK
<1>6. (\A q \in Procs : IsFiniteSet(wrote[q]) /\ Cardinality(wrote[q]) <= OpBlocks)'
  BY <1>5, FS_EmptySet, LogAssumption DEF ReserveInv
<1>7. \A q \in Procs : th'[q] = "logging" => th[q] = "logging" /\ q # p
  BY <1>1, <1>2 DEF end_op, LogTypeOK, Woken
<1>8. (\A q \in Procs : th[q] = "logging" => target[q] \in wrote[q])'
  BY <1>1, <1>5, <1>7 DEF ReserveInv
<1>9. IsFiniteSet(Logged') /\ Cardinality(Logged') \in Nat
  BY <1>3, <1>6, LoggedBoundNext
<1>10. IsFiniteSet(Logged) /\ Cardinality(Logged) \in Nat
  BY <1>1, LoggedBound DEF ReserveInv
<1> DEFINE Q == {q \in {p} \X LogBlocks : q[2] \in wrote[q[1]]}
<1>11. IsFiniteSet(Q) /\ Cardinality(Q) <= OpBlocks /\ Cardinality(Q) \in Nat
  <2>1. IsFiniteSet({p}) /\ Cardinality({p}) = 1
    BY FS_Singleton
  <2>2. \A q \in {p} : IsFiniteSet(wrote[q]) /\ Cardinality(wrote[q]) <= OpBlocks
    BY DEF ReserveInv
  <2>3. OpBlocks \in Nat
    BY LogAssumption
  <2>4. IsFiniteSet(Q) /\ Cardinality(Q) <= Cardinality({p}) * OpBlocks
    BY <2>1, <2>2, <2>3, PairsBound
  <2> QED  BY <2>1, <2>3, <2>4, FS_CardinalityType
<1>12. Logged \subseteq Logged' \cup Q
  <2>1. LogBlocks' = LogBlocks
    BY <1>1 DEF LogBlocks
  <2>2. ASSUME NEW q \in Logged, q[1] # p PROVE q \in Logged'
    BY <1>4, <1>5, <2>1, <2>2 DEF Logged, InProgress
  <2> QED  BY <2>2 DEF Logged
<1> HIDE DEF Q
<1>13. /\ IsFiniteSet(Logged' \cup Q)
       /\ Cardinality(Logged' \cup Q) = Cardinality(Logged') + Cardinality(Q) - Cardinality(Logged' \cap Q)
  BY <1>9, <1>11, FS_Union
<1>14. IsFiniteSet(Logged' \cap Q)
  BY <1>9, FS_Subset
<1>15. Cardinality(Logged' \cap Q) \in Nat
  BY <1>14, FS_CardinalityType
<1>16. Cardinality(Logged) <= Cardinality(Logged' \cup Q)
  BY <1>12, <1>13, FS_Subset
<1>17. Cardinality(Logged) <= Cardinality(Logged') + OpBlocks
  BY <1>9, <1>10, <1>11, <1>13, <1>15, <1>16, LogAssumption
<1>18. /\ Len(lh) \in Nat /\ LOGSIZE \in Nat /\ outstanding * MAXOPBLOCKS \in Int
       /\ (outstanding - 1) * MAXOPBLOCKS = outstanding * MAXOPBLOCKS - MAXOPBLOCKS
  BY <1>1, LogAssumption DEF LogTypeOK, LOGSIZE
<1>19. Len(lh) + (outstanding - 1) * MAXOPBLOCKS + 1 <= LOGSIZE + Cardinality(Logged')
  <2>1. Len(lh) + outstanding * MAXOPBLOCKS <= LOGSIZE + Cardinality(Logged)
    BY DEF ReserveInv, Reserved
  <2> QED  BY ONLY <2>1, <1>9, <1>10, <1>17, <1>18, LogAssumption, OpBlocks < MAXOPBLOCKS
<1>20. outstanding - 1 = 1 => (outstanding - 1) * MAXOPBLOCKS = MAXOPBLOCKS
  BY LogAssumption
<1>21. Reserved'
  <2>1. Len(lh) + (outstanding - 1) * MAXOPBLOCKS <= LOGSIZE + Cardinality(Logged')
    BY ONLY <1>9, <1>18, <1>19, LogAssumption
  <2>2. outstanding - 1 = 1 => Len(lh) + MAXOPBLOCKS + 1 <= LOGSIZE + Cardinality(Logged')
    BY ONLY <1>19, <1>20
  <2> QED  BY <1>1, <2>1, <2>2 DEF Reserved
<1>22. outstanding' = 0 => stage' # "up"
  BY <1>1, <1>2 DEF end_op, LogTypeOK
<1> QED  BY <1>6, <1>8, <1>21, <1>22 DEF ReserveInv

\* The log holds every transaction, and a panic leaves it as it was.
FitInv == Fits /\ (~panicked => ReserveInv)

\* Every step keeps that.
LEMMA NextFitInv ==
  ASSUME LogInv, LogInv', FitInv, OpBlocks < MAXOPBLOCKS, [LogNext]_logVars
  PROVE  FitInv'
<1>1. CASE ~panicked /\ CommitStep
  BY <1>1, CommitReserve DEF FitInv
<1>2. CASE ~panicked /\ OpStep
  <2>1. Fits /\ ReserveInv
    BY <1>2 DEF FitInv
  <2>2. PICK p \in Procs : \/ begin_op(p) \/ log_write(p) \/ end_op(p)
                           \/ \E b \in Blocks, v \in Values : log_write_test(p, b, v)
    BY <1>2 DEF OpStep
  <2>3. CASE begin_op(p)
    BY <1>2, <2>1, <2>3, BeginReserve DEF FitInv, Fits, begin_op
  <2>4. CASE log_write(p)
    BY <1>2, <2>1, <2>4, WriteReserve DEF FitInv
  <2>5. CASE end_op(p)
    BY <1>2, <2>1, <2>5, EndReserve DEF FitInv, Fits, end_op
  <2>6. ASSUME NEW b \in Blocks, NEW v \in Values, log_write_test(p, b, v) PROVE FitInv'
    BY <1>2, <2>1, <2>6, WriteTestReserve DEF FitInv, Fits, log_write_test, mem
  <2> QED  BY <2>2, <2>3, <2>4, <2>5, <2>6
<1>3. ASSUME ~panicked, NEW b \in Blocks, Evict(b) PROVE FitInv'
  BY <1>3, SameReserve DEF FitInv, Fits, Evict, mem, threads, InProgress
<1>4. CASE Crash
  <2>1. /\ lh' = <<>> /\ outstanding' = 0 /\ ~panicked' /\ CountInv'
        /\ wrote' = [p \in Procs |-> {}] /\ \A p \in Procs : th'[p] # "logging"
        /\ stage' # "up"
    BY <1>4 DEF Crash, LogInv
  <2>2. (\A p \in Procs : IsFiniteSet(wrote[p]) /\ Cardinality(wrote[p]) <= OpBlocks)'
    BY <2>1, FS_EmptySet, LogAssumption
  <2>3. Cardinality(Logged') \in Nat
    BY <2>1, <2>2, LoggedBoundNext
  <2>4. LOGSIZE \in Nat /\ MAXOPBLOCKS \in Nat /\ Len(lh') = 0 /\ outstanding' * MAXOPBLOCKS = 0 /\ nlog - 1 >= 0
    BY <2>1, EmptyHeader, LogAssumption DEF LOGSIZE, nlog
  <2> QED  BY <2>1, <2>2, <2>3, <2>4 DEF FitInv, Fits, ReserveInv, Reserved
<1>5. CASE UNCHANGED logVars
  BY <1>5, SameReserve DEF FitInv, Fits, logVars, mem, threads, InProgress
<1> QED  BY <1>1, <1>2, <1>3, <1>4, <1>5 DEF LogNext

\* The machine starts with an empty log.
LEMMA InitFitInv == LogInit => FitInv
<1> SUFFICES ASSUME LogInit PROVE FitInv
  OBVIOUS
<1>1. CountInv /\ lh = <<>> /\ outstanding = 0
  BY InitLogInv DEF LogInv, LogInit
<1>2. \A p \in Procs : IsFiniteSet(wrote[p]) /\ Cardinality(wrote[p]) <= OpBlocks
  BY FS_EmptySet, LogAssumption DEF LogInit
<1>3. Cardinality(Logged) \in Nat
  BY <1>1, <1>2, LoggedBound
<1>4. LOGSIZE \in Nat /\ MAXOPBLOCKS \in Nat /\ Len(lh) = 0 /\ outstanding * MAXOPBLOCKS = 0 /\ nlog - 1 >= 0
  BY <1>1, EmptyHeader, LogAssumption DEF LOGSIZE, nlog
<1> QED  BY <1>1, <1>2, <1>3, <1>4 DEF FitInv, Fits, ReserveInv, Reserved, LogInit

\* log_write() finds room in the header, also for a block that is already there.
LEMMA StepNoPanic ==
  ASSUME LogInv, FitInv, ~panicked, OpBlocks < MAXOPBLOCKS, [LogNext]_logVars
  PROVE  ~panicked'
<1>1. LogTypeOK /\ PhaseInv /\ CountInv /\ ReserveInv
  BY DEF LogInv, FitInv
<1>2. ASSUME NEW p \in Procs, NEW b \in Blocks, NEW v \in Values, log_write_test(p, b, v)
      PROVE  ~panicked'
  <2>1. p \in InProgress
    BY <1>2 DEF InProgress, log_write_test
  <2>2. /\ outstanding \in Nat /\ outstanding # 0 /\ Len(lh) \in Nat /\ MAXOPBLOCKS \in Nat
        /\ LOGSIZE = 3 * MAXOPBLOCKS /\ OpBlocks \in Nat
    BY <1>1, <2>1, FS_EmptySet, LogAssumption DEF LogTypeOK, CountInv, LOGSIZE
  <2>3. Cardinality(Logged) \in Nat /\ Cardinality(Logged) <= outstanding * OpBlocks
    BY <1>1, LoggedBound DEF ReserveInv
  <2>4. Reserved
    BY <1>1 DEF ReserveInv
  <2>5. Len(lh) + outstanding <= LOGSIZE
    BY <2>2, <2>3, <2>4, Room DEF Reserved
  <2>6. outstanding = 1 => Len(lh) + 2 <= LOGSIZE
    <3>1. outstanding = 1 => outstanding * OpBlocks = OpBlocks
      BY <2>2
    <3> QED  BY <2>2, <2>3, <2>4, <3>1 DEF Reserved
  <2>7. ~(Len(lh) >= LOGSIZE \/ Len(lh) >= nlog - 1 \/ outstanding < 1)
    BY <2>2, <2>5, <2>6 DEF nlog
  <2> QED  BY <1>2, <2>7 DEF log_write_test
<1>3. ASSUME NEW p \in Procs, end_op(p) PROVE ~panicked'
  BY <1>1, <1>3 DEF end_op, PhaseInv, InProgress
<1>4. ASSUME NEW p \in Procs, begin_op(p) \/ log_write(p) PROVE ~panicked'
  BY <1>4 DEF begin_op, log_write
<1>5. CASE CommitStep
  BY <1>5 DEF CommitStep, write_log, write_head, install_trans, clear_head, read_head, commit_done
<1>6. CASE \E b \in Blocks : Evict(b)
  BY <1>6 DEF Evict
<1>7. CASE Crash \/ UNCHANGED logVars
  BY <1>7 DEF Crash, logVars
<1> QED  BY <1>2, <1>3, <1>4, <1>5, <1>6, <1>7 DEF LogNext, OpStep

-----------------------------------------------------------------------------
\* In every behaviour of log.c in which no transaction outgrows the log on
\* disk, with any crashes: no wakeup of begin_op() is lost, and readers see the
\* latest update.
THEOREM LogSafe == LogSpec /\ []Fits => []NoMissedWakeup /\ []ReadsLatest
<1>1. LogInit => LogInv
  BY InitLogInv
<1>2. LogInv /\ Fits /\ [LogNext]_logVars => LogInv'
  BY NextLogInv
<1>3. LogInv => NoMissedWakeup /\ ReadsLatest
  BY InvReadsLatest DEF LogInv
<1> QED  BY <1>1, <1>2, <1>3, PTL DEF LogSpec

\* In such a behaviour the calls between begin_op() and end_op() reach the disk
\* all together or not at all: log.c implements AtomicDisk.
THEOREM LogAtomic == LogSpec /\ []Fits => AtomicUpdates
<1>1. LogInit => LogInv /\ Atomic!AInit
  BY InitLogInv, InitAtomic
<1>2. LogInv /\ Fits /\ [LogNext]_logVars => LogInv'
  BY NextLogInv
<1>3. LogInv /\ Fits /\ [LogNext]_logVars => [Atomic!ANext]_(Atomic!avars)
  BY NextAtomic
<1> QED  BY <1>1, <1>2, <1>3, PTL DEF LogSpec, AtomicUpdates, Atomic!ASpec

\* What begin_op() reserves is enough, for the log on disk and for the tests of
\* log_write(), when an operation writes fewer than MAXOPBLOCKS blocks: log.c
\* does not panic.  (One block of the log is the header.)
THEOREM ReservationSuffices ==
  ASSUME OpBlocks < MAXOPBLOCKS PROVE LogSpec => []Fits /\ []NoPanic
<1>1. LogInit => LogInv /\ FitInv /\ ~panicked
  BY InitLogInv, InitFitInv DEF LogInit
<1>2. LogInv /\ FitInv /\ ~panicked /\ [LogNext]_logVars => LogInv' /\ FitInv' /\ ~panicked'
  <2> SUFFICES ASSUME LogInv, FitInv, ~panicked, [LogNext]_logVars
               PROVE  LogInv' /\ FitInv' /\ ~panicked'
    OBVIOUS
  <2>1. LogInv'
    BY NextLogInv DEF FitInv
  <2> QED  BY <2>1, NextFitInv, StepNoPanic
<1>3. FitInv => Fits
  BY DEF FitInv
<1> QED  BY <1>1, <1>2, <1>3, PTL DEF LogSpec, NoPanic

\* So the properties of log.c need no other hypothesis then.
THEOREM SmallCallsAtomic ==
  ASSUME OpBlocks < MAXOPBLOCKS
  PROVE  LogSpec => AtomicUpdates /\ []NoMissedWakeup /\ []ReadsLatest
BY ReservationSuffices, LogSafe, LogAtomic, PTL
=============================================================================
