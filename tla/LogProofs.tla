----------------------------- MODULE LogProofs ------------------------------
(***************************************************************************)
(* end_op(), the steps of commit() and the recovery preserve the invariant *)
(* of module LogInvariant; and that invariant implies that readers see the *)
(* latest update.                                                          *)
(***************************************************************************)
EXTENDS LogInvariant

\* end_op(): the last operation of a group commits, the others wake begin_op().
LEMMA EndLogInv == ASSUME LogInv, ~panicked, NEW p \in Procs, end_op(p) PROVE LogInv'
<1> USE DEF LogInv, end_op, bufs, disks
<1>1. p \in InProgress
  BY DEF InProgress
<1>2. stage = "up" /\ ~committing
  BY <1>1 DEF PhaseInv
<1>3. /\ outstanding = Cardinality(InProgress) /\ IsFiniteSet(InProgress)
      /\ IsFiniteSet(InProgress \ {p}) /\ Cardinality(InProgress \ {p}) = Cardinality(InProgress) - 1
      /\ outstanding \in Nat /\ outstanding - 1 \in Nat
  <2>1. IsFiniteSet(InProgress) /\ outstanding = Cardinality(InProgress)
    BY DEF CountInv
  <2>2. IsFiniteSet(InProgress \ {p}) /\ Cardinality(InProgress \ {p}) = Cardinality(InProgress) - 1
    BY <1>1, <2>1, FS_RemoveElement
  <2>3. Cardinality(InProgress \ {p}) \in Nat /\ Cardinality(InProgress) \in Nat
    BY <2>1, <2>2, FS_CardinalityType
  <2> QED  BY <2>1, <2>2, <2>3
<1>4. InProgress' = InProgress \ {p}
  BY <1>1, <1>2 DEF InProgress, LogTypeOK, Woken
<1>5. CountInv'
  BY <1>3, <1>4 DEF CountInv
<1>6. LogTypeOK'
  <2>1. th' \in [Procs -> {"idle", "asleep", "woken", "op", "logging", "commit"}]
    BY <1>2 DEF LogTypeOK, Woken
  <2>2. wrote' \in [Procs -> SUBSET Blocks] /\ outstanding' \in Nat
    BY <1>3 DEF LogTypeOK
  <2>3. /\ committing' \in BOOLEAN /\ panicked' \in BOOLEAN /\ tail' \in Nat
        /\ stage' \in {"up", "write_log", "done"}
    <3>1. CASE outstanding = 1
      BY <1>2, <3>1 DEF LogTypeOK
    <3>2. CASE outstanding # 1
      BY <1>2, <3>2 DEF LogTypeOK
    <3> QED  BY <3>1, <3>2
  <2> QED  BY <2>1, <2>2, <2>3 DEF LogTypeOK
<1>7. HeadInv'
  BY DEF HeadInv
<1>8. target[p] = None
  BY DEF PhaseInv, LogTypeOK
<1>9. CASE outstanding = 1
  <2>1. InProgress' = {}
    BY <1>3, <1>4, <1>9, FS_EmptySet
  <2>2. stage' \in {"done", "write_log"} /\ (stage' = "done" <=> lh = <<>>) /\ tail' = 0 /\ committing'
    BY <1>2, <1>9
  <2>3. \A q \in Procs : th'[q] = IF q = p THEN "commit" ELSE th[q]
    BY <1>2, <1>9 DEF LogTypeOK
  <2>4. PhaseInv'
    BY <1>2, <1>8, <2>1, <2>2, <2>3 DEF PhaseInv, LogTypeOK
  <2>5. CopyInv'
    <3>1. dirty = LogBlocks /\ (lh = <<>> => dirty = {})
      BY <1>2, EmptyHeader DEF CopyInv, LogBlocks
    <3> QED  BY <1>2, <2>2, <3>1 DEF CopyInv, LogBlocks, Locked
  <2>6. NoMissedWakeup'
    BY <1>6, <2>2 DEF NoMissedWakeup, MustWait
  <2> QED  BY <1>5, <1>6, <1>7, <2>4, <2>5, <2>6
<1>10. CASE outstanding # 1
  <2>1. th' = Woken([th EXCEPT ![p] = "idle"]) /\ UNCHANGED <<committing, stage, tail>>
    BY <1>2, <1>10
  <2>2. \A q \in Procs : th'[q] # "asleep" /\ (th'[q] = "logging" <=> th[q] = "logging")
    BY <2>1 DEF LogTypeOK, Woken
  <2>3. PhaseInv'
    BY <1>2, <2>1, <2>2 DEF PhaseInv
  <2>4. CopyInv'
    BY <2>1 DEF CopyInv, LogBlocks, Locked
  <2>5. NoMissedWakeup'
    BY <1>6, <2>2 DEF NoMissedWakeup
  <2> QED  BY <1>5, <1>6, <1>7, <2>3, <2>4, <2>5
<1> QED  BY <1>9, <1>10

\* write_log() copies a pinned buffer to its place in the log.
LEMMA WriteLogStepLogInv == ASSUME LogInv, ~panicked, Fits, write_log PROVE LogInv'
<1> USE DEF LogInv, write_log, mem, bufs, threads
<1>1. InProgress' = InProgress /\ LogBlocks' = LogBlocks
  BY DEF InProgress, LogBlocks
<1>2. CountInv'
  BY <1>1 DEF CountInv
<1>3. Len(lh) \in Nat /\ dhead = <<>> /\ tail \in Nat /\ tail <= Len(lh) /\ nlog \in Int
  BY LogAssumption DEF PhaseInv, LogTypeOK, nlog, LOGSIZE
<1>4. CASE tail < Len(lh)
  <2>1. /\ tail + 1 \in 1..Len(lh) /\ tail + 1 \in 1..nlog - 1
        /\ dlog' = [dlog EXCEPT ![tail + 1] = bread(lh[tail + 1])]
        /\ UNCHANGED <<disk, stage>> /\ tail' = tail + 1
    BY <1>3, <1>4 DEF Fits
  <2>2. lh[tail + 1] \in dirty /\ lh[tail + 1] \in Blocks
    BY <2>1 DEF CopyInv, LogBlocks, Range, LogTypeOK
  <2>3. bread(lh[tail + 1]) = cache[lh[tail + 1]] /\ cache[lh[tail + 1]] \in Values
    BY <2>2 DEF CopyInv, bread, LogTypeOK
  <2>4. LogTypeOK'
    BY <1>3, <2>1, <2>3 DEF LogTypeOK
  <2>5. HeadInv'
    BY <1>3, <2>1, EmptyHeader DEF HeadInv
  <2>6. PhaseInv'
    BY <1>1, <1>3, <2>1 DEF PhaseInv
  <2>7. \A i \in 1..tail + 1 : dlog'[i] = cache[lh[i]]
    <3>1. TAKE i \in 1..tail + 1
    <3>2. i \in 1..nlog - 1
      BY <1>3, <2>1
    <3>3. dlog'[i] = IF i = tail + 1 THEN cache[lh[tail + 1]] ELSE dlog[i]
      BY <2>1, <2>3, <3>2 DEF LogTypeOK
    <3>4. i # tail + 1 => i \in 1..tail
      BY <1>3
    <3> QED  BY <3>3, <3>4 DEF CopyInv
  <2>8. CopyInv'
    BY <1>1, <2>1, <2>7 DEF CopyInv, Locked
  <2>9. NoMissedWakeup'
    BY <2>4 DEF NoMissedWakeup, MustWait
  <2> QED  BY <1>2, <2>4, <2>5, <2>6, <2>8, <2>9
<1>5. CASE ~(tail < Len(lh))
  <2>1. tail = Len(lh) /\ stage' = "write_head" /\ tail' = 0 /\ UNCHANGED <<disk, dlog>>
    BY <1>3, <1>5
  <2>2. LogTypeOK'
    BY <2>1 DEF LogTypeOK
  <2>3. HeadInv'
    BY <2>1 DEF HeadInv
  <2>4. PhaseInv'
    BY <1>1, <2>1 DEF PhaseInv
  <2>5. CopyInv'
    BY <1>1, <2>1 DEF CopyInv, Locked
  <2>6. NoMissedWakeup'
    BY <2>2 DEF NoMissedWakeup, MustWait
  <2> QED  BY <1>2, <2>2, <2>3, <2>4, <2>5, <2>6
<1> QED  BY <1>4, <1>5

\* write_head(): the header on disk refers to copies of the pinned buffers.
LEMMA WriteHeadLogInv == ASSUME LogInv, ~panicked, Fits, write_head PROVE LogInv'
<1> USE DEF LogInv, write_head, mem, bufs, threads
<1>1. InProgress' = InProgress /\ LogBlocks' = LogBlocks
  BY DEF InProgress, LogBlocks
<1>2. CountInv'
  BY <1>1 DEF CountInv
<1>3. \A i \in 1..Len(lh) : lh[i] \in dirty /\ dlog[i] \in Values
  BY DEF CopyInv, LogBlocks, Range, LogTypeOK
<1>4. LogTypeOK'
  BY DEF LogTypeOK
<1>5. HeadInv'
  BY <1>3 DEF HeadInv, Fits
<1>6. tail = 0 /\ Len(lh) \in Nat /\ tail + 1..Len(lh) = DOMAIN lh /\ 1..Len(lh) = DOMAIN lh
  BY DEF PhaseInv, LogTypeOK
<1>7. PhaseInv'
  BY <1>1, <1>6 DEF PhaseInv
<1>8. CopyInv'
  BY <1>1, <1>6 DEF CopyInv, Locked, LogBlocks, Range
<1>9. NoMissedWakeup'
  BY <1>4 DEF NoMissedWakeup, MustWait
<1> QED  BY <1>2, <1>4, <1>5, <1>7, <1>8, <1>9

\* install_trans() copies a logged block home, in commit() and in recovery.
LEMMA InstallLogInv == ASSUME LogInv, ~panicked, Fits, install_trans PROVE LogInv'
<1> USE DEF LogInv, install_trans, mem, threads
<1>1. InProgress' = InProgress /\ LogBlocks' = LogBlocks
  BY DEF InProgress, LogBlocks
<1>2. CountInv'
  BY <1>1 DEF CountInv
<1>3. /\ Len(lh) \in Nat /\ dhead = lh /\ tail \in Nat /\ tail <= Len(lh) /\ nlog \in Int
      /\ \A q \in Procs : target[q] = None
      /\ \A i \in 1..Len(lh) : lh[i] \in Blocks
  BY LogAssumption DEF PhaseInv, LogTypeOK, nlog, LOGSIZE, InProgress
<1>4. CASE tail < Len(lh)
  <2> DEFINE b == lh[tail + 1]
  <2>1. /\ tail + 1 \in 1..Len(lh) /\ tail + 1 \in 1..nlog - 1
        /\ disk' = [disk EXCEPT ![b] = dlog[tail + 1]]
        /\ cache' = [cache EXCEPT ![b] = dlog[tail + 1]]
        /\ dirty' = dirty \ {b}
        /\ tail' = tail + 1 /\ UNCHANGED stage
    BY <1>3, <1>4 DEF Fits
  <2>2. b \in Blocks /\ dlog[tail + 1] \in Values
    BY <1>3, <2>1 DEF HeadInv
  <2>3. /\ \A c \in Blocks : c # b => cache'[c] = cache[c] /\ disk'[c] = disk[c]
        /\ cache'[b] = dlog[tail + 1] /\ disk'[b] = dlog[tail + 1]
    BY <2>1, <2>2 DEF LogTypeOK
  <2>4. \A i \in 1..Len(lh) : lh[i] = b <=> i = tail + 1
    BY <2>1 DEF HeadInv
  <2> HIDE DEF b
  <2>5. LogTypeOK'
    BY <2>1, <2>2 DEF LogTypeOK
  <2>6. HeadInv'
    BY DEF HeadInv
  <2>7. PhaseInv'
    BY <1>1, <1>3, <2>1 DEF PhaseInv
  <2>8. CopyInv'
    <3>1. (stage = "install" => dirty = {lh[i] : i \in tail + 1..Len(lh)})'
      <4>1. ASSUME stage = "install"
            PROVE  dirty \ {b} = {lh[i] : i \in tail + 2..Len(lh)}
        <5>1. dirty = {lh[i] : i \in tail + 1..Len(lh)}
          BY <4>1 DEF CopyInv
        <5>2. \A i \in tail + 1..Len(lh) : i \in 1..Len(lh) /\ (i \in tail + 2..Len(lh) <=> i # tail + 1)
          BY <1>3
        <5>3. \A i \in tail + 2..Len(lh) : i \in tail + 1..Len(lh)
          BY <1>3
        <5> QED  BY ONLY <5>1, <5>2, <5>3, <2>4
      <4>2. (tail + 1) + 1 = tail + 2
        BY <1>3
      <4> QED  BY <2>1, <4>1, <4>2
    <3>2. (stage \notin {"up", "write_log", "write_head", "install"} => dirty = {})'
      BY <2>1 DEF CopyInv
    <3>3. (\A c \in dirty : cache[c] # None)'
      BY <2>1, <2>3 DEF CopyInv, LogTypeOK
    <3>4. (\A q \in Procs : target[q] # None => cache[target[q]] # None)'
      BY <1>3
    <3>5. (\A c \in Blocks : c \notin dirty /\ ~Locked(c) /\ cache[c] # None => cache[c] = disk[c])'
      BY <2>1, <2>3 DEF CopyInv, Locked
    <3>6. (stage = "install" => \A i \in tail + 1..Len(lh) : dlog[i] = cache[lh[i]])'
      <4>1. \A i \in tail' + 1..Len(lh) : i \in tail + 1..Len(lh) /\ i \in 1..Len(lh) /\ i # tail + 1
        BY <1>3, <2>1
      <4> QED  BY <4>1, <1>3, <2>1, <2>3, <2>4 DEF CopyInv
    <3>7. (stage \in {"install", "rinstall"} => \A i \in 1..tail : disk[lh[i]] = dlog[i])'
      <4>1. \A i \in 1..tail' : i \in 1..Len(lh) /\ (i # tail + 1 => i \in 1..tail)
        BY <1>3, <2>1
      <4> QED  BY <4>1, <1>3, <2>1, <2>3, <2>4 DEF CopyInv
    <3>8. stage' \in {"install", "rinstall"}
      BY <2>1
    <3> QED  BY ONLY <3>1, <3>2, <3>3, <3>4, <3>5, <3>6, <3>7, <3>8 DEF CopyInv
  <2>9. NoMissedWakeup'
    BY <2>5 DEF NoMissedWakeup, MustWait
  <2> QED  BY <1>2, <2>5, <2>6, <2>7, <2>8, <2>9
<1>5. CASE ~(tail < Len(lh))
  <2>1. tail = Len(lh) /\ stage' = (IF stage = "install" THEN "clear" ELSE "rclear") /\ tail' = 0
    BY <1>3, <1>5
  <2>2. UNCHANGED <<disk, cache, dirty>>
    BY <1>5 DEF bufs
  <2>3. LogTypeOK'
    BY <2>1, <2>2 DEF LogTypeOK
  <2>4. HeadInv'
    BY DEF HeadInv
  <2>5. PhaseInv'
    BY <1>1, <2>1 DEF PhaseInv
  <2>6. dirty = {}
    <3>1. tail + 1..Len(lh) = {}
      BY <1>3, <2>1
    <3>2. stage = "install" => dirty = {lh[i] : i \in {}}
      BY <3>1 DEF CopyInv
    <3> QED  BY <3>2 DEF CopyInv
  <2>7. CopyInv'
    BY <1>1, <2>1, <2>2, <2>6 DEF CopyInv, Locked
  <2>8. NoMissedWakeup'
    BY <2>3 DEF NoMissedWakeup, MustWait
  <2> QED  BY <1>2, <2>3, <2>4, <2>5, <2>7, <2>8
<1> QED  BY <1>4, <1>5

\* Once everything is home, the header is erased, in commit() and in recovery.
LEMMA ClearLogInv == ASSUME LogInv, ~panicked, clear_head PROVE LogInv'
<1> USE DEF LogInv, clear_head, bufs, threads
<1>1. InProgress' = InProgress /\ LogBlocks' = {} /\ dirty = {}
  BY EmptyHeader DEF InProgress, LogBlocks, CopyInv
<1>2. CountInv'
  BY <1>1 DEF CountInv
<1>3. LogTypeOK'
  <2>1. <<>> \in Seq(Blocks) /\ dlog' \in [1..nlog - 1 -> Values \cup {None}]
    BY DEF Stale
  <2> QED  BY <2>1 DEF LogTypeOK
<1>4. HeadInv'
  BY EmptyHeader, LogAssumption DEF HeadInv, nlog, LOGSIZE
<1>5. PhaseInv'
  BY <1>1 DEF PhaseInv
<1>6. CopyInv'
  BY <1>1 DEF CopyInv, Locked
<1>7. NoMissedWakeup'
  BY <1>3 DEF NoMissedWakeup, MustWait, PhaseInv
<1> QED  BY ONLY Zenon, <1>2, <1>3, <1>4, <1>5, <1>6, <1>7 DEF LogInv

\* The end of the commit wakes every thread that waits in begin_op().
LEMMA DoneLogInv == ASSUME LogInv, ~panicked, NEW p \in Procs, commit_done(p) PROVE LogInv'
<1> USE DEF LogInv, commit_done, bufs, disks
<1>1. \A q \in Procs : /\ th'[q] # "asleep"
                       /\ \A s \in {"op", "logging"} : th'[q] = s <=> th[q] = s
  BY DEF LogTypeOK, Woken
<1>2. InProgress' = InProgress /\ LogBlocks' = LogBlocks /\ LogBlocks = {}
  BY <1>1, EmptyHeader DEF InProgress, LogBlocks, PhaseInv
<1>3. CountInv'
  BY <1>2 DEF CountInv
<1>4. LogTypeOK'
  <2>1. th' \in [Procs -> {"idle", "asleep", "woken", "op", "logging", "commit"}]
    BY DEF LogTypeOK, Woken
  <2> QED  BY <2>1 DEF LogTypeOK
<1>5. HeadInv'
  BY DEF HeadInv
<1>6. PhaseInv'
  BY <1>1, <1>2 DEF PhaseInv
<1>7. CopyInv'
  BY <1>2 DEF CopyInv, Locked
<1>8. NoMissedWakeup'
  BY <1>1, <1>4 DEF NoMissedWakeup
<1> QED  BY <1>3, <1>4, <1>5, <1>6, <1>7, <1>8

\* Recovery starts from the header that is on disk.
LEMMA ReadHeadLogInv == ASSUME LogInv, ~panicked, read_head PROVE LogInv'
<1> USE DEF LogInv, read_head, bufs, threads, disks
<1>1. InProgress' = InProgress /\ dirty = {} /\ tail = 0
  BY DEF InProgress, CopyInv, PhaseInv
<1>2. CountInv'
  BY <1>1 DEF CountInv
<1>3. LogTypeOK'
  BY DEF LogTypeOK
<1>4. HeadInv'
  BY DEF HeadInv
<1>5. PhaseInv'
  BY <1>1 DEF PhaseInv, LogTypeOK
<1>6. CopyInv'
  BY <1>1 DEF CopyInv, Locked
<1>7. NoMissedWakeup'
  BY <1>3 DEF NoMissedWakeup, PhaseInv
<1> QED  BY <1>2, <1>3, <1>4, <1>5, <1>6, <1>7

\* Every step keeps the invariant, as long as the transaction fits in the log.
LEMMA NextLogInv == ASSUME LogInv, Fits, [LogNext]_logVars PROVE LogInv'
<1>1. CASE ~panicked /\ CommitStep
  BY <1>1, WriteLogStepLogInv, WriteHeadLogInv, InstallLogInv, ClearLogInv, ReadHeadLogInv, DoneLogInv
  DEF CommitStep
<1>2. CASE ~panicked /\ OpStep
  BY <1>2, BeginLogInv, WriteLogInv, EndLogInv, WriteTestLogInv DEF OpStep
<1>3. CASE ~panicked /\ \E b \in Blocks : Evict(b)
  BY <1>3, EvictLogInv
<1>4. CASE Crash
  BY <1>4, CrashLogInv
<1>5. CASE UNCHANGED logVars
  <2> USE <1>5 DEF logVars, mem, bufs, threads, disks
  <2>1. LogTypeOK' /\ HeadInv' /\ panicked' = panicked
    BY DEF LogInv, LogTypeOK, HeadInv
  <2>2. InProgress' = InProgress
    BY DEF InProgress
  <2>3. PhaseInv => PhaseInv'
    BY <2>2 DEF PhaseInv
  <2>4. CountInv => CountInv'
    BY <2>2 DEF CountInv
  <2>5. CopyInv => CopyInv'
    BY DEF CopyInv, LogBlocks, Locked
  <2>6. NoMissedWakeup => NoMissedWakeup'
    BY <2>1 DEF NoMissedWakeup, MustWait
  <2> QED  BY <2>1, <2>3, <2>4, <2>5, <2>6 DEF LogInv
<1> QED  BY <1>1, <1>2, <1>3, <1>4, <1>5 DEF LogNext

\* What a recovery from disk d, header h and log l would leave on disk.
RecoveredFrom(d, h, l) ==
  [b \in Blocks |-> LET at == {i \in DOMAIN h : h[i] = b} IN
                    IF at = {} THEN d[b] ELSE l[CHOOSE i \in at : TRUE]]

\* recover_from_log() takes a block from the log if it is in the header.
LEMMA RecoveredBlock ==
  ASSUME NEW d, NEW h \in Seq(Blocks), NEW l,
         \A i, j \in 1..Len(h) : h[i] = h[j] => i = j
  PROVE  /\ \A i \in 1..Len(h) : RecoveredFrom(d, h, l)[h[i]] = l[i]
         /\ \A b \in Blocks : (\A i \in 1..Len(h) : h[i] # b) => RecoveredFrom(d, h, l)[b] = d[b]
<1>1. DOMAIN h = 1..Len(h) /\ \A i \in 1..Len(h) : h[i] \in Blocks
  OBVIOUS
<1>2. ASSUME NEW i \in 1..Len(h) PROVE RecoveredFrom(d, h, l)[h[i]] = l[i]
  <2>1. {j \in DOMAIN h : h[j] = h[i]} = {i}
    BY <1>1, <1>2
  <2>2. (CHOOSE j \in {i} : TRUE) = i
    OBVIOUS
  <2> QED  BY <1>1, <2>1, <2>2 DEF RecoveredFrom
<1>3. ASSUME NEW b \in Blocks, \A i \in 1..Len(h) : h[i] # b
      PROVE  RecoveredFrom(d, h, l)[b] = d[b]
  <2>1. {j \in DOMAIN h : h[j] = b} = {}
    BY <1>1, <1>3
  <2> QED  BY <2>1 DEF RecoveredFrom
<1> QED  BY <1>2, <1>3

\* The same for the disk as it is.
LEMMA RecoveredNow ==
  ASSUME LogTypeOK, HeadInv
  PROVE  /\ \A i \in 1..Len(dhead) : Recovered[dhead[i]] = dlog[i]
         /\ \A b \in Blocks : (\A i \in 1..Len(dhead) : dhead[i] # b) => Recovered[b] = disk[b]
<1>1. Recovered = RecoveredFrom(disk, dhead, dlog)
  BY DEF Recovered, RecoveredFrom
<1>2. dhead \in Seq(Blocks) /\ \A i, j \in 1..Len(dhead) : dhead[i] = dhead[j] => i = j
  BY DEF LogTypeOK, HeadInv
<1> QED  BY ONLY <1>1, <1>2, RecoveredBlock

\* bread() returns the last update, whatever the commit is doing.
LEMMA InvReadsLatest == ASSUME LogInv PROVE ReadsLatest
<1> SUFFICES ASSUME ~panicked, stage \in {"up", "write_log", "write_head", "install", "clear"},
                    NEW b \in Blocks, ~Locked(b)
             PROVE  bread(b) = IF Uncommitted[b] # None THEN Uncommitted[b] ELSE Recovered[b]
  BY DEF ReadsLatest
<1>1. /\ LogTypeOK /\ HeadInv /\ PhaseInv /\ CopyInv
      /\ Len(lh) \in Nat /\ DOMAIN lh = 1..Len(lh) /\ tail \in Nat
      /\ \A i \in 1..Len(lh) : lh[i] \in Blocks
  BY DEF LogInv, LogTypeOK
<1>2. cache[b] # None /\ b \notin dirty => cache[b] = disk[b]
  BY <1>1 DEF CopyInv
<1>3. CASE stage \in {"up", "write_log", "write_head"}
  <2>1. Recovered[b] = disk[b]
    BY <1>1, <1>3, EmptyHeader, RecoveredNow DEF PhaseInv
  <2>2. Uncommitted[b] = (IF b \in dirty THEN cache[b] ELSE None)
    BY <1>1, <1>3 DEF Uncommitted, CopyInv
  <2>3. b \in dirty => cache[b] # None
    BY <1>1 DEF CopyInv
  <2> QED  BY <1>2, <2>1, <2>2, <2>3 DEF bread
<1>4. CASE stage \in {"install", "clear"}
  <2>1. Uncommitted[b] = None /\ dhead = lh
    BY <1>1, <1>4 DEF Uncommitted, PhaseInv
  <2>2. CASE \A i \in 1..Len(lh) : lh[i] # b
    <3>1. b \notin dirty
      BY <1>1, <1>4, <2>2 DEF CopyInv
    <3>2. Recovered[b] = disk[b]
      BY <1>1, <2>1, <2>2, RecoveredNow
    <3> QED  BY <1>2, <2>1, <3>1, <3>2 DEF bread
  <2>3. ASSUME NEW i \in 1..Len(lh), lh[i] = b
        PROVE  bread(b) = Recovered[b]
    <3>1. Recovered[b] = dlog[i]
      BY <1>1, <2>1, <2>3, RecoveredNow
    <3>2. CASE stage = "install" /\ i > tail
      <4>1. i \in tail + 1..Len(lh)
        BY <1>1, <3>2
      <4>2. cache[b] = dlog[i] /\ b \in dirty
        BY <1>1, <2>3, <3>2, <4>1 DEF CopyInv
      <4> QED  BY <1>1, <3>1, <4>2 DEF bread, CopyInv
    <3>3. CASE stage = "clear" \/ i <= tail
      <4>1. i \in 1..tail \/ stage = "clear"
        BY <1>1, <3>3
      <4>2. disk[b] = dlog[i]
        BY <1>1, <1>4, <2>3, <3>3, <4>1 DEF CopyInv
      <4>3. b \notin dirty
        <5>1. CASE stage = "clear"
          BY <1>1, <5>1 DEF CopyInv
        <5>2. CASE stage = "install" /\ i <= tail
          <6>1. dirty = {lh[j] : j \in tail + 1..Len(lh)}
            BY <1>1, <5>2 DEF CopyInv
          <6>2. \A j \in tail + 1..Len(lh) : j \in 1..Len(lh) /\ j # i
            BY <1>1, <5>2
          <6>3. \A j \in tail + 1..Len(lh) : lh[j] # b
            BY <1>1, <2>3, <6>2 DEF HeadInv
          <6> QED  BY <6>1, <6>3
        <5> QED  BY <1>4, <3>3, <5>1, <5>2
      <4> QED  BY <1>2, <3>1, <4>2, <4>3 DEF bread
    <3> QED  BY <1>1, <1>4, <3>2, <3>3
  <2> QED  BY <2>1, <2>2, <2>3
<1> QED  BY <1>3, <1>4
=============================================================================
