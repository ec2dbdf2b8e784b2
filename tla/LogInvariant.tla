---------------------------- MODULE LogInvariant ----------------------------
(***************************************************************************)
(* The inductive invariant of module Log, for any number of threads and    *)
(* blocks, any size of the log and any number of crashes: it holds         *)
(* initially, and begin_op(), log_write(), evictions and crashes preserve  *)
(* it; and the counting that shows what begin_op() has reserved.           *)
(***************************************************************************)
EXTENDS Log, FiniteSetTheorems, FunctionTheorems, TLAPS

\* The blocks of a transaction and its header fit in the log.
Fits == Len(lh) <= nlog - 1

\* No block twice in a header; a header on disk refers to log blocks that were written.
HeadInv ==
  /\ \A i, j \in 1..Len(lh) : lh[i] = lh[j] => i = j
  /\ \A i, j \in 1..Len(dhead) : dhead[i] = dhead[j] => i = j
  /\ Len(dhead) <= nlog - 1
  /\ \A i \in 1..Len(dhead) : dlog[i] \in Values

\* The step of commit() or of the recovery, the two headers and the threads.
PhaseInv ==
  /\ stage = "read_head" => lh = <<>> /\ tail = 0
  /\ stage \in {"up", "write_log", "write_head", "done"} => dhead = <<>>
  /\ stage \in {"install", "clear", "rinstall", "rclear"} => dhead = lh
  /\ stage = "done" => lh = <<>>
  /\ stage \in {"write_log", "install", "rinstall"} => tail <= Len(lh)
  /\ stage = "write_head" => tail = 0
  /\ committing <=> stage \in {"write_log", "write_head", "install", "clear", "done"}
  /\ stage # "up" => InProgress = {}
  /\ stage \in {"read_head", "rinstall", "rclear"} => \A p \in Procs : th[p] = "idle"
  /\ \A p \in Procs : th[p] = "logging" <=> target[p] # None

\* The operations in progress are counted.
CountInv == IsFiniteSet(InProgress) /\ outstanding = Cardinality(InProgress)

\* The cache, the log and the home blocks: what is in the header only is
\* pinned; what was copied to the log, and from there home, is what was pinned;
\* everything else in the cache is as on disk.
CopyInv ==
  /\ stage \in {"up", "write_log", "write_head"} => dirty = LogBlocks
  /\ stage = "install" => dirty = {lh[i] : i \in tail + 1..Len(lh)}
  /\ stage \notin {"up", "write_log", "write_head", "install"} => dirty = {}
  /\ \A b \in dirty : cache[b] # None
  /\ \A p \in Procs : target[p] # None => cache[target[p]] # None
  /\ \A b \in Blocks : b \notin dirty /\ ~Locked(b) /\ cache[b] # None => cache[b] = disk[b]
  /\ stage = "write_log" => \A i \in 1..tail : dlog[i] = cache[lh[i]]
  /\ stage = "write_head" => \A i \in 1..Len(lh) : dlog[i] = cache[lh[i]]
  /\ stage = "install" => \A i \in tail + 1..Len(lh) : dlog[i] = cache[lh[i]]
  /\ stage \in {"install", "rinstall"} => \A i \in 1..tail : disk[lh[i]] = dlog[i]
  /\ stage \in {"clear", "rclear"} => \A i \in 1..Len(lh) : disk[lh[i]] = dlog[i]

\* A machine that has panicked does nothing but start again from its disk.
LogInv ==
  /\ LogTypeOK /\ HeadInv /\ NoMissedWakeup
  /\ ~panicked => PhaseInv /\ CountInv /\ CopyInv

\* What log_write() does to the set of blocks in the header.
LEMMA AppendBlocks ==
  ASSUME NEW S, NEW s \in Seq(S), NEW x \in S
  PROVE  /\ Range(Append(s, x)) = Range(s) \cup {x}
         /\ x \notin Range(s) /\ (\A i, j \in 1..Len(s) : s[i] = s[j] => i = j) =>
              \A i, j \in 1..Len(Append(s, x)) : Append(s, x)[i] = Append(s, x)[j] => i = j
<1> DEFINE t == Append(s, x)
<1>1. /\ Len(t) = Len(s) + 1 /\ t[Len(s) + 1] = x
      /\ \A i \in 1..Len(s) : t[i] = s[i]
      /\ DOMAIN s = 1..Len(s) /\ DOMAIN t = 1..Len(s) + 1 /\ Len(s) \in Nat
  OBVIOUS
<1>2. Range(t) = Range(s) \cup {x}
  <2> HIDE DEF t
  <2> QED  BY <1>1 DEF Range
<1>3. ASSUME x \notin Range(s), \A i, j \in 1..Len(s) : s[i] = s[j] => i = j,
             NEW i \in 1..Len(t), NEW j \in 1..Len(t), t[i] = t[j]
      PROVE  i = j
  <2> HIDE DEF t
  <2> QED  BY <1>1, <1>3 DEF Range
<1> QED  BY <1>2, <1>3

\* An empty header: log.lh.n is 0.
LEMMA EmptyHeader == Range(<<>>) = {} /\ Len(<<>>) = 0
BY DEF Range

\* The machine starts with recover_from_log() in the state the invariant describes.
LEMMA InitLogInv == LogInit => LogInv
<1> SUFFICES ASSUME LogInit PROVE LogInv
  OBVIOUS
<1> USE DEF LogInit
<1>1. LogTypeOK
  <2>1. <<>> \in Seq(Blocks) /\ 0 \in 0..MaxCrashes /\ 0 \in Nat
    BY LogAssumption
  <2>2. dlog \in [1..nlog - 1 -> Values \cup {None}]
    BY DEF Stale
  <2> QED  BY <2>1, <2>2 DEF LogTypeOK
<1>2. HeadInv
  BY LogAssumption DEF HeadInv, nlog, LOGSIZE
<1>3. InProgress = {}
  BY DEF InProgress
<1>4. PhaseInv
  BY <1>3 DEF PhaseInv
<1>5. CountInv
  BY <1>3, FS_EmptySet DEF CountInv
<1>6. CopyInv
  BY LogAssumption DEF CopyInv, Locked
<1>7. NoMissedWakeup
  BY <1>1 DEF NoMissedWakeup
<1> QED  BY <1>1, <1>2, <1>4, <1>5, <1>6, <1>7 DEF LogInv

\* A crash at any time, also in recovery or after a panic: the disk is as it was.
LEMMA CrashLogInv == ASSUME LogInv, Crash PROVE LogInv'
<1> USE DEF LogInv, Crash, disks
<1>1. LogTypeOK'
  <2>1. <<>> \in Seq(Blocks) /\ crashes' \in 0..MaxCrashes /\ 0 \in Nat
    BY LogAssumption DEF LogTypeOK
  <2> QED  BY <2>1 DEF LogTypeOK
<1>2. HeadInv'
  BY LogAssumption DEF HeadInv
<1>3. InProgress' = {}
  BY DEF InProgress
<1>4. PhaseInv'
  BY <1>3 DEF PhaseInv
<1>5. CountInv'
  BY <1>3, FS_EmptySet DEF CountInv
<1>6. CopyInv'
  BY LogAssumption DEF CopyInv, Locked
<1>7. NoMissedWakeup'
  BY <1>1 DEF NoMissedWakeup
<1> QED  BY <1>1, <1>2, <1>4, <1>5, <1>6, <1>7

\* bget() drops a clean buffer: the block is read from disk again.
LEMMA EvictLogInv == ASSUME LogInv, ~panicked, NEW b \in Blocks, Evict(b) PROVE LogInv'
<1> USE DEF LogInv, Evict, mem, threads, disks
<1>1. LogTypeOK'
  BY DEF LogTypeOK
<1>2. HeadInv'
  BY DEF HeadInv
<1>3. InProgress' = InProgress
  BY DEF InProgress
<1>4. PhaseInv'
  BY <1>3 DEF PhaseInv
<1>5. CountInv'
  BY <1>3 DEF CountInv
<1>6. CopyInv'
  <2>1. LogBlocks' = LogBlocks
    BY DEF LogBlocks
  <2>2. \A c \in Blocks : Locked(c)' <=> Locked(c)
    BY DEF Locked
  <2>3. \A c \in Blocks : c # b => cache'[c] = cache[c]
    BY DEF LogTypeOK
  <2>4. \A p \in Procs : target[p] # b
    BY DEF Locked
  <2>5. stage = "write_log" => \A i \in 1..tail : lh[i] # b
    BY DEF CopyInv, PhaseInv, LogTypeOK, LogBlocks, Range
  <2>6. stage = "write_head" => \A i \in 1..Len(lh) : lh[i] # b
    BY DEF CopyInv, PhaseInv, LogTypeOK, LogBlocks, Range
  <2>7. stage = "install" => \A i \in tail + 1..Len(lh) : lh[i] # b
    BY DEF CopyInv, PhaseInv, LogTypeOK
  <2>8. /\ \A i \in 1..Len(lh) : lh[i] \in Blocks
        /\ Len(lh) \in Nat
        /\ \A p \in Procs : target[p] # None => target[p] \in Blocks
    BY DEF LogTypeOK
  <2>9. (\A c \in dirty : cache[c] # None)' /\ (\A p \in Procs : target[p] # None => cache[target[p]] # None)'
    BY <2>3, <2>4, <2>8 DEF CopyInv, LogTypeOK
  <2>10. (\A c \in Blocks : c \notin dirty /\ ~Locked(c) /\ cache[c] # None => cache[c] = disk[c])'
    BY <2>2, <2>3 DEF CopyInv, LogTypeOK
  <2>11. (stage = "write_log" => \A i \in 1..tail : dlog[i] = cache[lh[i]])'
    BY <2>3, <2>5, <2>8 DEF CopyInv, PhaseInv, LogTypeOK
  <2>12. (stage = "write_head" => \A i \in 1..Len(lh) : dlog[i] = cache[lh[i]])'
    BY <2>3, <2>6, <2>8 DEF CopyInv, PhaseInv, LogTypeOK
  <2>13. (stage = "install" => \A i \in tail + 1..Len(lh) : dlog[i] = cache[lh[i]])'
    BY <2>3, <2>7, <2>8 DEF CopyInv, PhaseInv, LogTypeOK
  <2> QED  BY <2>1, <2>9, <2>10, <2>11, <2>12, <2>13 DEF CopyInv
<1>7. NoMissedWakeup'
  BY <1>1 DEF NoMissedWakeup, MustWait
<1> QED  BY <1>1, <1>2, <1>4, <1>5, <1>6, <1>7

\* Waiting for log space gets no shorter when an operation begins or a block
\* is logged: the test of begin_op(), (log.outstanding + 1) * MAXOPBLOCKS.
LEMMA WaitMonotone ==
  ASSUME NEW n \in Nat, NEW m \in Nat, NEW k \in Nat, NEW l \in Nat, n <= m, k <= l,
         k + (n + 1) * MAXOPBLOCKS > LOGSIZE
  PROVE  l + (m + 1) * MAXOPBLOCKS > LOGSIZE
<1>1. MAXOPBLOCKS \in Nat
  BY LogAssumption
<1>2. (m - n) * MAXOPBLOCKS >= 0 /\ (n + 1) * MAXOPBLOCKS \in Nat /\ (m - n) * MAXOPBLOCKS \in Nat
  BY <1>1
<1>3. (m + 1) * MAXOPBLOCKS = (n + 1) * MAXOPBLOCKS + (m - n) * MAXOPBLOCKS
  BY <1>1
<1>4. LOGSIZE \in Nat
  BY <1>1 DEF LOGSIZE
<1> QED  BY <1>2, <1>3, <1>4

\* begin_op(): it starts an operation only while nobody commits, or goes to sleep.
LEMMA BeginLogInv == ASSUME LogInv, ~panicked, NEW p \in Procs, begin_op(p) PROVE LogInv'
<1> USE DEF LogInv, begin_op, bufs, disks
<1>1. LogTypeOK'
  BY DEF LogTypeOK
<1>2. HeadInv'
  BY DEF HeadInv
<1>3. CASE MustWait
  <2>1. InProgress' = InProgress
    BY <1>3 DEF InProgress, LogTypeOK
  <2>2. PhaseInv'
    BY <1>3, <2>1 DEF PhaseInv, LogTypeOK
  <2>3. CountInv'
    BY <1>3, <2>1 DEF CountInv
  <2>4. CopyInv'
    BY DEF CopyInv, LogBlocks, Locked
  <2>5. NoMissedWakeup'
    BY <1>1, <1>3 DEF NoMissedWakeup, MustWait
  <2> QED  BY <1>1, <1>2, <2>2, <2>3, <2>4, <2>5
<1>4. CASE ~MustWait
  <2>1. stage = "up" /\ ~committing
    BY <1>4 DEF MustWait, PhaseInv, LogTypeOK
  <2>2. InProgress' = InProgress \cup {p} /\ p \notin InProgress
    BY <1>4 DEF InProgress, LogTypeOK
  <2>3. PhaseInv'
    BY <1>4, <2>1 DEF PhaseInv, LogTypeOK
  <2>4. CountInv'
    BY <1>4, <2>2, FS_AddElement DEF CountInv
  <2>5. CopyInv'
    BY DEF CopyInv, LogBlocks, Locked
  <2>6. NoMissedWakeup'
    <3>1. ASSUME NEW q \in Procs, th'[q] = "asleep" PROVE MustWait'
      <4>1. th[q] = "asleep"
        BY <1>4, <3>1 DEF LogTypeOK
      <4>2. MustWait
        BY <4>1 DEF NoMissedWakeup
      <4> QED  BY <4>2, <1>4
    <3> QED  BY <3>1, <1>1 DEF NoMissedWakeup
  <2> QED  BY <1>1, <1>2, <2>3, <2>4, <2>5, <2>6
<1> QED  BY <1>3, <1>4

\* The caller of log_write() has locked its buffer, so that what it wrote in it
\* is neither dropped nor read by others before it is in the header.
LEMMA WriteTestLogInv ==
  ASSUME LogInv, ~panicked, NEW p \in Procs, NEW b \in Blocks, NEW v \in Values,
         log_write_test(p, b, v)
  PROVE  LogInv'
<1> USE DEF LogInv, log_write_test, mem, disks
<1>1. LogTypeOK'
  <2>1. cache' \in [Blocks -> Values \cup {None}] /\ panicked' \in BOOLEAN
    BY DEF LogTypeOK
  <2>2. /\ th' \in [Procs -> {"idle", "asleep", "woken", "op", "logging", "commit"}]
        /\ target' \in [Procs -> Blocks \cup {None}]
        /\ wrote' \in [Procs -> SUBSET Blocks]
    BY DEF LogTypeOK
  <2> QED  BY <2>1, <2>2 DEF LogTypeOK
<1>2. HeadInv'
  BY DEF HeadInv
<1>3. CASE panicked'
  <2>1. NoMissedWakeup'
    BY <1>1, <1>3 DEF NoMissedWakeup, MustWait
  <2> QED  BY <1>1, <1>2, <1>3, <2>1
<1>4. CASE ~panicked'
  <2>1. /\ th' = [th EXCEPT ![p] = "logging"]
        /\ target' = [target EXCEPT ![p] = b]
    BY <1>4
  <2>2. InProgress' = InProgress /\ p \in InProgress
    BY <2>1 DEF InProgress, LogTypeOK
  <2>3. stage = "up"
    BY <2>2 DEF PhaseInv
  <2>4. PhaseInv'
    BY <2>1, <2>2, <2>3, LogAssumption DEF PhaseInv, LogTypeOK
  <2>5. CountInv'
    BY <2>2 DEF CountInv
  <2>6. CopyInv'
    <3>1. LogBlocks' = LogBlocks
      BY DEF LogBlocks
    <3>2. \A c \in Blocks : c # b => cache'[c] = cache[c]
      BY DEF LogTypeOK
    <3>3. cache'[b] = v /\ v # None
      BY LogAssumption DEF LogTypeOK
    <3>4. \A q \in Procs : target'[q] = IF q = p THEN b ELSE target[q]
      BY <2>1 DEF LogTypeOK
    <3>5. \A c \in Blocks : ~Locked(c)' => c # b /\ ~Locked(c)
      BY <3>4, <2>1, LogAssumption DEF Locked, PhaseInv, LogTypeOK
    <3>6. (\A c \in dirty : cache[c] # None)'
      BY <3>2, <3>3 DEF CopyInv, LogTypeOK
    <3>7. (\A q \in Procs : target[q] # None => cache[target[q]] # None)'
      BY <3>2, <3>3, <3>4 DEF CopyInv, LogTypeOK
    <3>8. (\A c \in Blocks : c \notin dirty /\ ~Locked(c) /\ cache[c] # None => cache[c] = disk[c])'
      BY <3>2, <3>5 DEF CopyInv
    <3>9. stage' = "up" /\ dirty' = LogBlocks'
      BY <2>3, <3>1 DEF CopyInv
    <3> QED  BY ONLY <3>9, <3>6, <3>7, <3>8 DEF CopyInv
  <2>7. NoMissedWakeup'
    BY <1>1, <2>1 DEF NoMissedWakeup, MustWait, LogTypeOK
  <2> QED  BY <1>1, <1>2, <2>4, <2>5, <2>6, <2>7
<1> QED  BY <1>3, <1>4

\* log_write(): the block gets into the header and its buffer is pinned.
LEMMA WriteLogInv == ASSUME LogInv, ~panicked, NEW p \in Procs, log_write(p) PROVE LogInv'
<1> USE DEF LogInv, log_write, disks
<1>0. target[p] \in Blocks /\ target[p] # None
  BY DEF PhaseInv, LogTypeOK
<1>1. LogTypeOK'
  <2>1. lh' \in Seq(Blocks)
    BY <1>0 DEF LogTypeOK
  <2>2. dirty' \subseteq Blocks
    BY <1>0 DEF LogTypeOK
  <2> QED  BY <2>1, <2>2 DEF LogTypeOK
<1>2. LogBlocks' = LogBlocks \cup {target[p]} /\ Len(lh) \in Nat /\ Len(lh') \in Nat /\ Len(lh) <= Len(lh')
  <2>1. CASE target[p] \in LogBlocks
    BY <2>1 DEF LogBlocks, LogTypeOK
  <2>2. CASE target[p] \notin LogBlocks
    BY <2>2, <1>0, AppendBlocks DEF LogBlocks, LogTypeOK
  <2> QED  BY <2>1, <2>2
<1>3. HeadInv'
  <2>1. CASE target[p] \in LogBlocks
    BY <2>1 DEF HeadInv
  <2>2. CASE target[p] \notin LogBlocks
    <3>1. \A i, j \in 1..Len(lh') : lh'[i] = lh'[j] => i = j
      BY <2>2, <1>0, AppendBlocks DEF LogBlocks, LogTypeOK, HeadInv
    <3> QED  BY <3>1 DEF HeadInv
  <2> QED  BY <2>1, <2>2
<1>4. InProgress' = InProgress /\ p \in InProgress
  BY DEF InProgress, LogTypeOK
<1>5. stage = "up"
  BY <1>4 DEF PhaseInv
<1>6. PhaseInv'
  BY <1>4, <1>5, LogAssumption DEF PhaseInv, LogTypeOK
<1>7. CountInv'
  BY <1>4 DEF CountInv
<1>8. CopyInv'
  <2>1. dirty' = LogBlocks'
    BY <1>2, <1>5 DEF CopyInv
  <2>2. \A q \in Procs : target'[q] = IF q = p THEN None ELSE target[q]
    BY DEF LogTypeOK
  <2>3. \A c \in Blocks : ~Locked(c)' /\ c # target[p] => ~Locked(c)
    BY <2>2 DEF Locked
  <2>4. (\A c \in dirty : cache[c] # None)'
    BY <1>0 DEF CopyInv
  <2>5. (\A q \in Procs : target[q] # None => cache[target[q]] # None)'
    BY <2>2 DEF CopyInv
  <2>6. (\A c \in Blocks : c \notin dirty /\ ~Locked(c) /\ cache[c] # None => cache[c] = disk[c])'
    BY <2>3 DEF CopyInv
  <2>7. stage' = "up"
    BY <1>5
  <2> QED  BY ONLY <2>7, <2>1, <2>4, <2>5, <2>6 DEF CopyInv
<1>9. NoMissedWakeup'
  <2>1. ASSUME NEW q \in Procs, th'[q] = "asleep" PROVE MustWait'
    <3>1. th[q] = "asleep"
      BY <2>1 DEF LogTypeOK
    <3>2. MustWait
      BY <3>1 DEF NoMissedWakeup
    <3>3. outstanding' = outstanding /\ outstanding \in Nat /\ committing' = committing
      BY DEF LogTypeOK
    <3>4. CASE committing
      BY <3>3, <3>4 DEF MustWait
    <3>5. CASE Len(lh) + (outstanding + 1) * MAXOPBLOCKS > LOGSIZE
      <4>1. Len(lh') + (outstanding + 1) * MAXOPBLOCKS > LOGSIZE
        BY ONLY <3>3, <3>5, <1>2, WaitMonotone
      <4> QED  BY <3>3, <4>1 DEF MustWait
    <3> QED  BY ONLY <3>2, <3>4, <3>5 DEF MustWait
  <2> QED  BY <2>1, <1>1 DEF NoMissedWakeup
<1> QED  BY <1>1, <1>3, <1>6, <1>7, <1>8, <1>9

-----------------------------------------------------------------------------
\* The blocks of the header, once for every operation in progress that wrote them.
Logged == {q \in InProgress \X LogBlocks : q[2] \in wrote[q[1]]}

\* What begin_op() reserved for the operations in progress and they have not
\* used yet still fits in the log, with room to spare for the last operation
\* of a group of several: the others have given back what they did not use.
Reserved ==
  /\ Len(lh) + outstanding * MAXOPBLOCKS <= LOGSIZE + Cardinality(Logged)
  /\ outstanding = 1 => \/ Len(lh) + MAXOPBLOCKS + 1 <= LOGSIZE + Cardinality(Logged)
                        \/ Len(lh) <= Cardinality(Logged)

ReserveInv ==
  /\ \A p \in Procs : IsFiniteSet(wrote[p]) /\ Cardinality(wrote[p]) <= OpBlocks
  /\ \A p \in Procs : th[p] = "logging" => target[p] \in wrote[p]
  /\ stage = "up" /\ outstanding = 0 => lh = <<>>
  /\ Reserved

\* n operations that write at most m blocks each write at most n * m blocks.
LEMMA PairsBound ==
  ASSUME NEW I, NEW L, NEW W, NEW m \in Nat, IsFiniteSet(I),
         \A p \in I : IsFiniteSet(W[p]) /\ Cardinality(W[p]) <= m
  PROVE  LET Q == {q \in I \X L : q[2] \in W[q[1]]}
         IN  IsFiniteSet(Q) /\ Cardinality(Q) <= Cardinality(I) * m
<1> DEFINE Q == {q \in I \X L : q[2] \in W[q[1]]}
           Num(p) == CHOOSE f : f \in Injection(W[p], 1..m)
           g == [q \in Q |-> <<q[1], Num(q[1])[q[2]]>>]
<1>1. ASSUME NEW p \in I PROVE Num(p) \in Injection(W[p], 1..m)
  <2>1. IsFiniteSet(W[p]) /\ Cardinality(W[p]) <= m
    BY <1>1
  <2>2. Cardinality(W[p]) \in Nat /\ ExistsBijection(1..Cardinality(W[p]), W[p])
    BY <2>1, FS_CardinalityType
  <2>3. PICK f : f \in Bijection(1..Cardinality(W[p]), W[p])
    BY <2>2 DEF ExistsBijection
  <2>4. Inverse(f, 1..Cardinality(W[p]), W[p]) \in Bijection(W[p], 1..Cardinality(W[p]))
    BY <2>3, Fun_BijInverse
  <2>5. Inverse(f, 1..Cardinality(W[p]), W[p]) \in Injection(W[p], 1..Cardinality(W[p]))
    BY <2>4 DEF Bijection
  <2>6. 1..Cardinality(W[p]) \subseteq 1..m
    BY <2>1, <2>2
  <2>7. Injection(W[p], 1..Cardinality(W[p])) \subseteq Injection(W[p], 1..m)
    BY <2>6 DEF Injection
  <2>8. \E h : h \in Injection(W[p], 1..m)
    BY <2>5, <2>7
  <2> QED  BY <2>8
<1>2. g \in Injection(Q, I \X (1..m))
  <2> HIDE DEF Num
  <2>1. \A q \in Q : q[1] \in I /\ q[2] \in W[q[1]] /\ q = <<q[1], q[2]>>
    OBVIOUS
  <2>2. \A p \in I : \A x, y \in W[p] : Num(p)[x] \in 1..m /\ (Num(p)[x] = Num(p)[y] => x = y)
    BY <1>1 DEF Injection, IsInjective
  <2> HIDE DEF Q
  <2>3. g \in [Q -> I \X (1..m)]
    BY <2>1, <2>2
  <2>4. \A q, r \in Q : g[q] = g[r] => q = r
    BY <2>1, <2>2
  <2> HIDE DEF g
  <2> QED  BY <2>3, <2>4 DEF Injection, IsInjective
<1>3. IsFiniteSet(1..m) /\ Cardinality(1..m) = m
  BY FS_Interval
<1>4. IsFiniteSet(I \X (1..m)) /\ Cardinality(I \X (1..m)) = Cardinality(I) * m
  BY <1>3, FS_Product
<1> HIDE DEF g, Q
<1>5. IsFiniteSet(Q) /\ Cardinality(Q) <= Cardinality(I \X (1..m))
  BY <1>2, <1>4, FS_Injection
<1> QED  BY <1>4, <1>5 DEF Q

\* n operations that write fewer than MAXOPBLOCKS blocks each leave n blocks
\* of their reservation.
LEMMA Room ==
  ASSUME NEW n \in Nat, NEW c \in Nat, NEW len \in Nat,
         c <= n * OpBlocks, OpBlocks < MAXOPBLOCKS,
         len + n * MAXOPBLOCKS <= LOGSIZE + c
  PROVE  len + n <= LOGSIZE
<1>1. MAXOPBLOCKS \in Nat /\ OpBlocks \in Nat /\ LOGSIZE \in Nat
  BY LogAssumption DEF LOGSIZE
<1>2. n * MAXOPBLOCKS = n * OpBlocks + n * (MAXOPBLOCKS - OpBlocks)
  BY <1>1
<1>3. n * (MAXOPBLOCKS - OpBlocks) >= n
  BY <1>1
<1>4. n * OpBlocks \in Nat /\ n * (MAXOPBLOCKS - OpBlocks) \in Int /\ n * MAXOPBLOCKS \in Int
  BY <1>1
<1> QED  BY <1>1, <1>2, <1>3, <1>4

\* The two cases of the bound that the proofs below need: now and after a step.
LEMMA LoggedBound ==
  ASSUME CountInv, \A p \in Procs : IsFiniteSet(wrote[p]) /\ Cardinality(wrote[p]) <= OpBlocks
  PROVE  /\ IsFiniteSet(Logged) /\ Cardinality(Logged) \in Nat
         /\ Cardinality(Logged) <= outstanding * OpBlocks
<1>1. IsFiniteSet(InProgress) /\ outstanding = Cardinality(InProgress) /\ InProgress \subseteq Procs
  BY DEF CountInv, InProgress
<1>2. IsFiniteSet(Logged) /\ Cardinality(Logged) <= Cardinality(InProgress) * OpBlocks
  BY <1>1, PairsBound, LogAssumption DEF Logged
<1> QED  BY <1>1, <1>2, FS_CardinalityType

\* The same bound after a step of a system call.
LEMMA LoggedBoundNext ==
  ASSUME CountInv', (\A p \in Procs : IsFiniteSet(wrote[p]) /\ Cardinality(wrote[p]) <= OpBlocks)'
  PROVE  /\ IsFiniteSet(Logged') /\ Cardinality(Logged') \in Nat
         /\ Cardinality(Logged') <= outstanding' * OpBlocks
<1>1. IsFiniteSet(InProgress') /\ outstanding' = Cardinality(InProgress') /\ InProgress' \subseteq Procs
  BY DEF CountInv, InProgress
<1>2. IsFiniteSet(Logged') /\ Cardinality(Logged') <= Cardinality(InProgress') * OpBlocks
  BY <1>1, PairsBound, LogAssumption DEF Logged
<1> QED  BY <1>1, <1>2, FS_CardinalityType

\* Steps that neither log a block nor begin or end an operation.
LEMMA SameReserve ==
  ASSUME ReserveInv, UNCHANGED <<lh, outstanding, wrote, target>>, InProgress' = InProgress,
         \A p \in Procs : th'[p] = "logging" => th[p] = "logging",
         stage' = "up" => stage = "up" \/ lh = <<>>
  PROVE  ReserveInv'
<1>1. Logged' = Logged
  BY DEF Logged, LogBlocks
<1>2. Reserved'
  BY <1>1 DEF ReserveInv, Reserved
<1> QED  BY <1>2 DEF ReserveInv
=============================================================================
