---------------------------- MODULE BioInvariant ----------------------------
(***************************************************************************)
(* The inductive invariant of module Bio, for any number of threads,       *)
(* blocks and buffers: it holds initially, and both ways through bget(),   *)
(* acquiresleep(), bread() and the disk interrupt preserve it.             *)
(***************************************************************************)
EXTENDS Bio, FiniteSetTheorems, SequenceTheorems, TLAPS

BufType == [blockno : Blocks \cup {None}, valid : BOOLEAN, dirty : BOOLEAN,
            refcnt : Nat, data : Values \cup {None}]

Holds(t) == th[t] \in {"bread", "sleepide", "have"}

\* The threads that have a reference to buffer i, from bget() to brelse().
Users(i) == {t \in Threads : b[t] = i}

\* A thread's buffer is the buffer of the block it asked for.
PlaceInv ==
  \A t \in Threads :
    /\ th[t] \in {"idle", "panic"} => b[t] = None
    /\ th[t] \notin {"idle", "panic"} =>
         b[t] \in Bufs /\ want[t] \in Blocks /\ buf[b[t]].blockno = want[t]

\* refcnt counts the references, so a buffer in use is not recycled.
RefInv == \A i \in Bufs : IsFiniteSet(Users(i)) /\ buf[i].refcnt = Cardinality(Users(i))

\* The sleep lock of a buffer belongs to the thread that uses its data.
LockInv ==
  /\ \A t \in Threads, i \in Bufs : lockedBy[i] = t <=> Holds(t) /\ b[t] = i
  /\ \A t \in Threads : th[t] = "have" => buf[b[t]].valid

\* One buffer per block; a clean one is as on disk.
CacheInv ==
  /\ \A i, j \in Bufs : buf[i].blockno = buf[j].blockno /\ buf[i].blockno # None => i = j
  /\ \A i \in Bufs : buf[i].dirty => buf[i].valid
  /\ \A i \in Bufs : buf[i].valid => buf[i].blockno \in Blocks /\ buf[i].data \in Values
  /\ \A i \in Bufs : buf[i].valid /\ ~buf[i].dirty => buf[i].data = disk[buf[i].blockno]

\* The request queue holds, once each, the buffers whose owners wait in iderw().
QueueInv ==
  /\ \A m, n \in 1..Len(idequeue) : idequeue[m] = idequeue[n] => m = n
  /\ \A i \in Bufs : i \in Range(idequeue) <=> \E t \in Threads : th[t] = "sleepide" /\ b[t] = i
  /\ command <=> idequeue # <<>>

BioInv == BioTypeOK /\ PlaceInv /\ RefInv /\ LockInv /\ CacheInv /\ QueueInv /\ SleepersAwaited

\* A set of naturals that is not empty has a least element.
LEMMA LeastExists ==
  ASSUME NEW S \in SUBSET Nat, S # {}
  PROVE  \E x \in S : \A y \in S : x <= y
<1>1. PICK x \in S : \A y \in S : ~(<<y, x>> \in OpToRel(<, Nat))
  BY WFMin, NatLessThanWellFounded
<1>2. ASSUME NEW y \in S PROVE x <= y
  <2>1. <<y, x>> \in Nat \X Nat /\ y \in Nat /\ x \in Nat
    OBVIOUS
  <2>2. y < x => <<y, x>> \in OpToRel(<, Nat)
    BY <2>1 DEF OpToRel
  <2>3. ~(<<y, x>> \in OpToRel(<, Nat))
    BY <1>1
  <2>4. ~(y < x)
    BY <2>2, <2>3
  <2> QED  BY <2>1, <2>4
<1> QED  BY <1>2

\* The second loop of bget() finds a buffer to recycle if there is one.
LEMMA LeastRecentFound ==
  ASSUME BioTypeOK, NEW S \in SUBSET Bufs, S # {}
  PROVE  LeastRecent(S) \in S
<1>1. /\ NBUF \in Nat /\ DOMAIN mru = 1..NBUF /\ \A i \in Bufs : \E n \in 1..NBUF : mru[n] = i
  BY BioAssumption DEF BioTypeOK, Range
<1> DEFINE D == {NBUF - n : n \in {n \in 1..NBUF : mru[n] \in S}}
<1>2. D \in SUBSET Nat /\ D # {}
  <2>1. PICK n \in 1..NBUF : mru[n] \in S
    BY <1>1
  <2> QED  BY <1>1, <2>1
<1>3. PICK d \in D : \A e \in D : d <= e
  <2> HIDE DEF D
  <2> QED  BY <1>2, LeastExists
<1>4. PICK n \in 1..NBUF : mru[n] \in S /\ d = NBUF - n
  BY <1>3
<1>5. \A m \in n + 1..NBUF : mru[m] \notin S
  <2> SUFFICES ASSUME NEW m \in n + 1..NBUF, mru[m] \in S PROVE FALSE
    OBVIOUS
  <2>1. m \in 1..NBUF /\ NBUF - m \in D
    BY <1>1
  <2> HIDE DEF D
  <2>2. NBUF - n <= NBUF - m
    BY <1>3, <1>4, <2>1
  <2> QED  BY ONLY <1>1, <1>4, <2>1, <2>2, n \in 1..NBUF, m \in n + 1..NBUF
<1> HIDE DEF D
<1> QED  BY <1>4, <1>5 DEF LeastRecent

\* brelse() moves the buffer to the front of the list: none gets lost.
LEMMA MoveToFront ==
  ASSUME BioTypeOK, NEW i \in Bufs
  PROVE  /\ MoveToHead(i) \in Seq(Bufs) /\ Range(MoveToHead(i)) = Bufs
         /\ Len(MoveToHead(i)) = NBUF
<1> DEFINE n == CHOOSE n \in 1..NBUF : mru[n] = i
           s1 == SubSeq(mru, 1, n - 1)
           s2 == SubSeq(mru, n + 1, NBUF)
           r == s1 \o s2
           s == <<i>> \o r
<1>1. /\ NBUF \in Nat /\ DOMAIN mru = 1..NBUF /\ \A j \in Bufs : \E m \in 1..NBUF : mru[m] = j
      /\ Len(mru) = NBUF /\ \A m \in 1..NBUF : mru[m] \in Bufs
  BY BioAssumption DEF BioTypeOK, Range
<1>2. n \in 1..NBUF /\ mru[n] = i
  BY <1>1
<1> HIDE DEF n
<1>3. /\ s1 \in Seq(Bufs) /\ Len(s1) = n - 1
      /\ \A m \in 1..n - 1 : s1[m] = mru[m]
  BY <1>1, <1>2, SubSeqProperties
<1>4. /\ s2 \in Seq(Bufs) /\ Len(s2) = NBUF - n
      /\ \A m \in 1..NBUF - n : s2[m] = mru[n + m]
  <2>1. \A m \in n + 1..NBUF : mru[m] \in Bufs
    BY <1>1, <1>2
  <2>2. /\ s2 \in Seq(Bufs)
        /\ Len(s2) = IF n + 1 <= NBUF THEN NBUF - (n + 1) + 1 ELSE 0
        /\ \A m \in 1..NBUF - (n + 1) + 1 : s2[m] = mru[n + 1 + m - 1]
    BY <1>1, <1>2, <2>1, SubSeqProperties
  <2> HIDE DEF s2
  <2> QED  BY <1>1, <1>2, <2>2
<1> HIDE DEF s1, s2
<1>5. /\ r \in Seq(Bufs) /\ Len(r) = NBUF - 1
      /\ \A m \in 1..NBUF - 1 : r[m] = IF m <= n - 1 THEN s1[m] ELSE s2[m - (n - 1)]
  <2>1. /\ r \in Seq(Bufs) /\ Len(r) = Len(s1) + Len(s2)
        /\ \A m \in 1..Len(s1) + Len(s2) : r[m] = IF m <= Len(s1) THEN s1[m] ELSE s2[m - Len(s1)]
    BY <1>3, <1>4, ConcatProperties
  <2> HIDE DEF r
  <2> QED  BY <1>1, <1>2, <1>3, <1>4, <2>1
<1> HIDE DEF r
<1>6. /\ s \in Seq(Bufs) /\ Len(s) = NBUF
      /\ s[1] = i /\ \A m \in 1..NBUF - 1 : s[m + 1] = r[m]
  <2>1. /\ <<i>> \in Seq(Bufs) /\ Len(<<i>>) = 1 /\ <<i>>[1] = i
    OBVIOUS
  <2>2. /\ s \in Seq(Bufs) /\ Len(s) = Len(<<i>>) + Len(r)
        /\ \A m \in 1..Len(<<i>>) + Len(r) :
             s[m] = IF m <= Len(<<i>>) THEN <<i>>[m] ELSE r[m - Len(<<i>>)]
    BY <1>5, <2>1, ConcatProperties
  <2> HIDE DEF s
  <2>3. \A m \in 1..NBUF : s[m] = IF m <= 1 THEN <<i>>[m] ELSE r[m - 1]
    <3>1. Len(<<i>>) = 1 /\ Len(r) = NBUF - 1 /\ 1 + (NBUF - 1) = NBUF
      BY <1>1, <1>5, <2>1
    <3> QED  BY ONLY <2>2, <3>1
  <2>4. \A m \in 1..NBUF - 1 : m + 1 \in 1..NBUF /\ ~(m + 1 <= 1) /\ (m + 1) - 1 = m
    BY <1>1
  <2>5. 1 \in 1..NBUF /\ Len(s) = NBUF
    BY <1>1, <1>2, <1>5, <2>1, <2>2
  <2>6. s[1] = i
    BY <2>1, <2>3, <2>5
  <2>7. \A m \in 1..NBUF - 1 : s[m + 1] = r[m]
    BY <2>3, <2>4
  <2> QED  BY <2>2, <2>5, <2>6, <2>7
<1>7. ASSUME NEW j \in Bufs PROVE j \in Range(s)
  <2>1. PICK m \in 1..NBUF : mru[m] = j
    BY <1>1
  <2>2. DOMAIN s = 1..NBUF
    BY <1>6
  <2> HIDE DEF s
  <2>3. CASE m < n
    <3>1. m \in 1..n - 1 /\ m \in 1..NBUF - 1 /\ m + 1 \in 1..NBUF
      BY <1>1, <1>2, <2>3
    <3>2. s[m + 1] = j
      BY <1>3, <1>5, <1>6, <2>1, <3>1
    <3> QED  BY <2>2, <3>1, <3>2 DEF Range
  <2>4. CASE m = n
    <3>1. 1 \in 1..NBUF /\ s[1] = j
      BY <1>1, <1>2, <1>6, <2>1, <2>4
    <3> QED  BY <2>2, <3>1 DEF Range
  <2>5. CASE m > n
    <3>1. m - 1 \in 1..NBUF - 1 /\ ~(m - 1 <= n - 1) /\ m - n \in 1..NBUF - n /\ (m - 1) - (n - 1) = m - n
          /\ n + (m - n) = m /\ (m - 1) + 1 = m
      BY <1>1, <1>2, <2>5
    <3>2. s[m] = r[m - 1]
      BY <1>6, <3>1
    <3>3. r[m - 1] = mru[m]
      BY <1>4, <1>5, <3>1
    <3> QED  BY <2>1, <2>2, <3>2, <3>3 DEF Range
  <2> QED  BY <1>1, <1>2, <2>3, <2>4, <2>5
<1>8. s = MoveToHead(i)
  BY DEF n, s1, s2, r, MoveToHead
<1>9. Range(s) \subseteq Bufs
  <2> HIDE DEF s
  <2> QED  BY <1>6 DEF Range
<1>10. Range(s) = Bufs
  <2> HIDE DEF s
  <2> QED  BY <1>7, <1>9
<1> QED  BY <1>6, <1>8, <1>10

\* binit(): no buffer is in use, locked or valid.
LEMMA InitBioInv == BioInit => BioInv
<1> SUFFICES ASSUME BioInit PROVE BioInv
  OBVIOUS
<1> USE DEF BioInit
<1>1. BioTypeOK
  <2>1. mru \in Seq(Bufs) /\ Len(mru) = NBUF /\ DOMAIN mru = 1..NBUF /\ NBUF \in Nat
    <3>1. NBUF \in Nat /\ \A n \in 1..NBUF : NBUF + 1 - n \in Bufs
      BY BioAssumption DEF Bufs
    <3> QED  BY <3>1, IsASeq, LenProperties DEF Bufs
  <2>2. Range(mru) = Bufs
    <3>1. \A i \in Bufs : NBUF + 1 - i \in 1..NBUF /\ mru[NBUF + 1 - i] = i
      BY <2>1 DEF Bufs
    <3>2. \A n \in 1..NBUF : mru[n] \in Bufs
      BY <2>1
    <3>3. Range(mru) = {mru[n] : n \in 1..NBUF}
      BY <2>1 DEF Range
    <3> QED  BY ONLY <3>1, <3>2, <3>3
  <2>3. /\ buf \in [Bufs -> [blockno : Blocks \cup {None}, valid : BOOLEAN, dirty : BOOLEAN,
                             refcnt : Nat, data : Values \cup {None}]]
        /\ idequeue \in Seq(Bufs) /\ disk \in [Blocks -> Values]
    OBVIOUS
  <2> QED  BY <2>1, <2>2, <2>3 DEF BioTypeOK, Places
<1>2. PlaceInv
  BY DEF PlaceInv
<1>3. RefInv
  <2>1. \A i \in Bufs : Users(i) = {}
    BY BioAssumption DEF Users
  <2> QED  BY <2>1, FS_EmptySet DEF RefInv
<1>4. LockInv
  BY BioAssumption DEF LockInv, Holds
<1>5. CacheInv
  BY DEF CacheInv
<1>6. QueueInv
  BY DEF QueueInv, Range
<1>7. SleepersAwaited
  BY <1>1 DEF SleepersAwaited
<1> QED  BY <1>1, <1>2, <1>3, <1>4, <1>5, <1>6, <1>7 DEF BioInv

\* A buffer stays a buffer when one of its fields is assigned.
LEMMA BufFields ==
  ASSUME NEW x \in BufType
  PROVE  /\ \A k \in Blocks \cup {None} : [x EXCEPT !.blockno = k] \in BufType
         /\ \A v \in BOOLEAN : [x EXCEPT !.valid = v] \in BufType
         /\ \A v \in BOOLEAN : [x EXCEPT !.dirty = v] \in BufType
         /\ \A n \in Nat : [x EXCEPT !.refcnt = n] \in BufType
         /\ \A d \in Values \cup {None} : [x EXCEPT !.data = d] \in BufType
BY DEF BufType

\* bget() takes a reference to the buffer that has the block.
LEMMA HitBioInv ==
  ASSUME BioInv, NEW t \in Threads, NEW k \in Blocks, NEW i \in Cached(k), th[t] = "idle",
         want' = [want EXCEPT ![t] = k], b' = [b EXCEPT ![t] = i],
         buf' = [buf EXCEPT ![i].refcnt = @ + 1],
         th' = [th EXCEPT ![t] = "acquiresleep"],
         UNCHANGED <<mru, lockedBy, idequeue, command, disk>>
  PROVE  BioInv'
<1>1. i \in Bufs /\ buf[i].blockno = k /\ BioTypeOK /\ b[t] = None
  BY DEF Cached, BioInv, PlaceInv
<1>2. /\ \A u \in Threads : /\ u # t => th'[u] = th[u] /\ b'[u] = b[u] /\ want'[u] = want[u]
                            /\ u = t => th'[u] = "acquiresleep" /\ b'[u] = i /\ want'[u] = k
      /\ \A j \in Bufs : /\ buf'[j].blockno = buf[j].blockno /\ buf'[j].data = buf[j].data
                         /\ buf'[j].valid <=> buf[j].valid
                         /\ buf'[j].dirty <=> buf[j].dirty
                         /\ buf'[j].refcnt = IF j = i THEN buf[i].refcnt + 1 ELSE buf[j].refcnt
  BY <1>1 DEF BioTypeOK
<1>3. BioTypeOK'
  <2>1. buf' \in [Bufs -> BufType]
    <3>1. buf \in [Bufs -> BufType]
      BY <1>1 DEF BioTypeOK, BufType
    <3>2. [buf[i] EXCEPT !.refcnt = @ + 1] \in BufType
      BY <1>1, <3>1 DEF BufType
    <3>3. buf' = [buf EXCEPT ![i] = [buf[i] EXCEPT !.refcnt = @ + 1]]
      BY <1>1, <3>1
    <3> QED  BY ONLY <1>1, <3>1, <3>2, <3>3
  <2>2. /\ th' \in [Threads -> Places] /\ want' \in [Threads -> Blocks \cup {None}]
        /\ b' \in [Threads -> Bufs \cup {None}]
    BY <1>1 DEF BioTypeOK, Places
  <2> QED  BY <1>1, <2>1, <2>2 DEF BioTypeOK, BufType
<1>4. PlaceInv'
  BY <1>1, <1>2 DEF BioInv, PlaceInv
<1>5. RefInv'
  <2>1. Users(i)' = Users(i) \cup {t} /\ t \notin Users(i)
    BY <1>1, <1>2, BioAssumption DEF Users
  <2>2. \A j \in Bufs : j # i => Users(j)' = Users(j)
    BY <1>1, <1>2, BioAssumption DEF Users
  <2>3. IsFiniteSet(Users(i)) /\ buf[i].refcnt = Cardinality(Users(i))
    BY <1>1 DEF BioInv, RefInv
  <2>4. IsFiniteSet(Users(i)') /\ Cardinality(Users(i)') = Cardinality(Users(i)) + 1
    BY <2>1, <2>3, FS_AddElement
  <2> QED  BY <1>1, <1>2, <2>2, <2>3, <2>4 DEF BioInv, RefInv
<1>6. LockInv'
  BY <1>1, <1>2 DEF BioInv, LockInv, Holds, PlaceInv
<1>7. CacheInv'
  BY <1>2 DEF BioInv, CacheInv
<1>8. QueueInv'
  BY <1>1, <1>2 DEF BioInv, QueueInv
<1>9. SleepersAwaited'
  BY <1>2, <1>3 DEF BioInv, SleepersAwaited
<1> QED  BY <1>3, <1>4, <1>5, <1>6, <1>7, <1>8, <1>9 DEF BioInv

\* bget() recycles a buffer that nobody uses and that is clean.
LEMMA RecycleBioInv ==
  ASSUME BioInv, NEW t \in Threads, NEW k \in Blocks, NEW i \in Recyclable, th[t] = "idle",
         Cached(k) = {},
         want' = [want EXCEPT ![t] = k], b' = [b EXCEPT ![t] = i],
         buf' = [buf EXCEPT ![i] = [@ EXCEPT !.blockno = k, !.valid = FALSE, !.dirty = FALSE,
                                             !.refcnt = 1]],
         th' = [th EXCEPT ![t] = "acquiresleep"],
         UNCHANGED <<mru, lockedBy, idequeue, command, disk>>
  PROVE  BioInv'
<1>1. i \in Bufs /\ buf[i].refcnt = 0 /\ ~buf[i].dirty /\ BioTypeOK /\ b[t] = None
  BY DEF Recyclable, BioInv, PlaceInv
<1>2. /\ \A u \in Threads : /\ u # t => th'[u] = th[u] /\ b'[u] = b[u] /\ want'[u] = want[u]
                            /\ u = t => th'[u] = "acquiresleep" /\ b'[u] = i /\ want'[u] = k
      /\ \A j \in Bufs : j # i => buf'[j] = buf[j]
      /\ buf'[i].blockno = k /\ ~buf'[i].valid /\ ~buf'[i].dirty /\ buf'[i].refcnt = 1
  BY <1>1 DEF BioTypeOK
<1>3. BioTypeOK'
  <2>1. buf' \in [Bufs -> BufType]
    <3> DEFINE r == [buf[i] EXCEPT !.blockno = k, !.valid = FALSE, !.dirty = FALSE, !.refcnt = 1]
    <3>1. buf \in [Bufs -> BufType]
      BY <1>1 DEF BioTypeOK, BufType
    <3>2. r \in BufType
      <4>1. [buf[i] EXCEPT !.blockno = k] \in BufType
        BY <1>1, <3>1, BufFields
      <4>2. [buf[i] EXCEPT !.blockno = k, !.valid = FALSE] \in BufType
        BY <4>1, BufFields
      <4>3. [buf[i] EXCEPT !.blockno = k, !.valid = FALSE, !.dirty = FALSE] \in BufType
        BY <4>2, BufFields
      <4> QED  BY <4>3, BufFields
    <3>3. buf' = [buf EXCEPT ![i] = r]
      BY <1>1, <3>1
    <3> HIDE DEF r
    <3> QED  BY ONLY <1>1, <3>1, <3>2, <3>3
  <2>2. /\ th' \in [Threads -> Places] /\ want' \in [Threads -> Blocks \cup {None}]
        /\ b' \in [Threads -> Bufs \cup {None}]
    BY <1>1 DEF BioTypeOK, Places
  <2> QED  BY <1>1, <2>1, <2>2 DEF BioTypeOK, BufType
<1>4. Users(i) = {}
  BY <1>1, FS_EmptySet DEF BioInv, RefInv
<1>5. \A u \in Threads : b[u] # i
  BY <1>4 DEF Users
<1>6. PlaceInv'
  BY <1>1, <1>2, <1>5 DEF BioInv, PlaceInv
<1>7. RefInv'
  <2>1. Users(i)' = {t}
    BY <1>2, <1>5 DEF Users
  <2>2. \A j \in Bufs : j # i => Users(j)' = Users(j)
    BY <1>1, <1>2, BioAssumption DEF Users
  <2>3. IsFiniteSet(Users(i)') /\ Cardinality(Users(i)') = 1
    BY <2>1, FS_Singleton
  <2> QED  BY <1>1, <1>2, <2>2, <2>3 DEF BioInv, RefInv
<1>8. LockInv'
  BY <1>1, <1>2, <1>5 DEF BioInv, LockInv, Holds, PlaceInv
<1>9. CacheInv'
  <2>1. \A j \in Bufs : buf[j].blockno # k
    BY DEF Cached
  <2> QED  BY <1>1, <1>2, <2>1 DEF BioInv, CacheInv
<1>10. QueueInv'
  BY <1>1, <1>2, <1>5 DEF BioInv, QueueInv
<1>11. SleepersAwaited'
  BY <1>2, <1>3 DEF BioInv, SleepersAwaited
<1> QED  BY <1>3, <1>6, <1>7, <1>8, <1>9, <1>10, <1>11 DEF BioInv

\* A round of acquiresleep(): a thread takes a free lock or goes to sleep.
LEMMA AcquireBioInv == ASSUME BioInv, NEW t \in Threads, acquiresleep(t) PROVE BioInv'
<1> USE DEF acquiresleep
<1>1. BioTypeOK /\ b[t] \in Bufs /\ t # None
  BY BioAssumption DEF BioInv, PlaceInv
<1>2. \A u \in Threads : u # t => th'[u] = th[u]
  BY <1>1 DEF BioTypeOK
<1>3. th'[t] = IF lockedBy[b[t]] # None THEN "sleeplock" ELSE "bread"
  BY <1>1 DEF BioTypeOK
<1>4. \A i \in Bufs : lockedBy'[i] = IF lockedBy[b[t]] = None /\ i = b[t] THEN t ELSE lockedBy[i]
  BY <1>1 DEF BioTypeOK
<1>5. BioTypeOK'
  <2>1. th' \in [Threads -> Places]
    BY <1>1 DEF BioTypeOK, Places
  <2>2. lockedBy' \in [Bufs -> Threads \cup {None}]
    <3>1. lockedBy' = lockedBy \/ lockedBy' = [lockedBy EXCEPT ![b[t]] = t]
      OBVIOUS
    <3>2. lockedBy \in [Bufs -> Threads \cup {None}]
      BY <1>1 DEF BioTypeOK
    <3> QED  BY ONLY <1>1, <3>1, <3>2, t \in Threads
  <2> QED  BY <1>1, <2>1, <2>2 DEF BioTypeOK
<1>6. PlaceInv'
  BY <1>1, <1>2, <1>3 DEF BioInv, PlaceInv
<1>7. RefInv'
  <2>1. \A i \in Bufs : Users(i)' = Users(i)
    BY DEF Users
  <2> QED  BY <2>1 DEF BioInv, RefInv
<1>8. LockInv'
  <2>1. \A u \in Threads : u # t => (Holds(u)' <=> Holds(u))
    BY <1>2 DEF Holds
  <2>2. ~Holds(t) /\ (Holds(t)' <=> lockedBy[b[t]] = None)
    BY <1>3 DEF Holds
  <2>3. (\A u \in Threads, i \in Bufs : lockedBy[i] = u <=> Holds(u) /\ b[u] = i)'
    BY <1>1, <1>4, <2>1, <2>2, BioAssumption DEF BioInv, LockInv
  <2>4. (\A u \in Threads : th[u] = "have" => buf[b[u]].valid)'
    BY <1>2, <1>3 DEF BioInv, LockInv
  <2> QED  BY <2>3, <2>4 DEF LockInv
<1>9. CacheInv'
  BY DEF BioInv, CacheInv
<1>10. QueueInv'
  BY <1>2, <1>3 DEF BioInv, QueueInv
<1>11. SleepersAwaited'
  <2>1. ASSUME NEW u \in Threads, th'[u] = "sleeplock" PROVE lockedBy'[b[u]] # None
    <3>1. lockedBy[b[u]] # None
      BY <1>2, <1>3, <2>1 DEF BioInv, SleepersAwaited
    <3>2. b[u] \in Bufs
      BY <1>1, <1>2, <2>1 DEF BioInv, PlaceInv
    <3> QED  BY <1>1, <1>4, <3>1, <3>2
  <2>2. \A u \in Threads : th'[u] = "sleepide" => command /\ b[u] \in Range(idequeue)
    BY <1>2, <1>3 DEF BioInv, SleepersAwaited
  <2> QED  BY <1>5, <2>1, <2>2 DEF SleepersAwaited
<1> QED  BY <1>5, <1>6, <1>7, <1>8, <1>9, <1>10, <1>11 DEF BioInv

\* iderw() queues a buffer that is not in the queue, as only its owner would.
LEMMA IderwQueue ==
  ASSUME BioInv, NEW t \in Threads, th[t] \in {"bread", "have"}, iderw(t), b' = b
  PROVE  /\ idequeue' \in Seq(Bufs) /\ command' = TRUE /\ QueueInv'
         /\ Range(idequeue') = Range(idequeue) \cup {b[t]}
<1> USE DEF iderw
<1>1. BioTypeOK /\ b[t] \in Bufs /\ Holds(t)
  BY DEF BioInv, PlaceInv, Holds
<1>2. b[t] \notin Range(idequeue)
  <2>1. ASSUME NEW u \in Threads, th[u] = "sleepide", b[u] = b[t] PROVE FALSE
    <3>1. Holds(u)
      BY <2>1 DEF Holds
    <3>2. lockedBy[b[t]] = t /\ lockedBy[b[t]] = u
      BY <1>1, <2>1, <3>1 DEF BioInv, LockInv
    <3> QED  BY <2>1, <3>2
  <2> QED  BY <1>1, <2>1 DEF BioInv, QueueInv
<1>3. /\ idequeue \in Seq(Bufs) /\ Len(idequeue) \in Nat /\ DOMAIN idequeue = 1..Len(idequeue)
      /\ idequeue' \in Seq(Bufs) /\ Len(idequeue') = Len(idequeue) + 1
      /\ DOMAIN idequeue' = 1..Len(idequeue) + 1
      /\ idequeue'[Len(idequeue) + 1] = b[t]
      /\ \A n \in 1..Len(idequeue) : idequeue'[n] = idequeue[n]
  BY <1>1 DEF BioTypeOK
<1>4. Range(idequeue') = Range(idequeue) \cup {b[t]}
  BY <1>3 DEF Range
<1>5. \A m, n \in 1..Len(idequeue') : idequeue'[m] = idequeue'[n] => m = n
  BY <1>2, <1>3 DEF Range, BioInv, QueueInv
<1>6. command' = TRUE
  BY DEF BioInv, QueueInv
<1>7. \A u \in Threads : th'[u] = IF u = t THEN "sleepide" ELSE th[u]
  BY <1>1 DEF BioTypeOK
<1>8. \A i \in Bufs : i \in Range(idequeue') <=> \E u \in Threads : th'[u] = "sleepide" /\ b[u] = i
  BY <1>1, <1>4, <1>7 DEF BioInv, QueueInv
<1>9. idequeue' # <<>>
  BY <1>3
<1> QED  BY <1>3, <1>4, <1>5, <1>6, <1>8, <1>9 DEF QueueInv

\* bread() with the buffer locked reads it or finds it valid.
LEMMA BreadBioInv == ASSUME BioInv, NEW t \in Threads, bread(t) PROVE BioInv'
<1> USE DEF bread
<1>1. BioTypeOK /\ b[t] \in Bufs /\ Holds(t)
  BY DEF BioInv, PlaceInv, Holds
<1>2. /\ \A u \in Threads : u # t => th'[u] = th[u]
      /\ th'[t] = IF buf[b[t]].valid THEN "have" ELSE "sleepide"
  BY <1>1 DEF BioTypeOK, iderw
<1>3. /\ QueueInv' /\ idequeue' \in Seq(Bufs) /\ command' \in BOOLEAN
      /\ Range(idequeue) \subseteq Range(idequeue') /\ (command => command')
      /\ ~buf[b[t]].valid => command' /\ b[t] \in Range(idequeue')
  <2>1. CASE buf[b[t]].valid
    BY <1>1, <1>2, <2>1 DEF BioInv, QueueInv, BioTypeOK
  <2>2. CASE ~buf[b[t]].valid
    BY <1>1, <2>2, IderwQueue
  <2> QED  BY <2>1, <2>2
<1>4. BioTypeOK'
  <2>1. th' \in [Threads -> Places]
    BY <1>1 DEF BioTypeOK, Places, iderw
  <2> QED  BY <1>1, <1>3, <2>1 DEF BioTypeOK
<1>5. PlaceInv'
  BY <1>1, <1>2 DEF BioInv, PlaceInv
<1>6. RefInv'
  <2>1. \A i \in Bufs : Users(i)' = Users(i)
    BY DEF Users
  <2> QED  BY <2>1 DEF BioInv, RefInv
<1>7. LockInv'
  <2>1. \A u \in Threads : Holds(u)' <=> Holds(u)
    BY <1>2 DEF Holds
  <2> QED  BY <1>2, <2>1 DEF BioInv, LockInv
<1>8. CacheInv'
  BY DEF BioInv, CacheInv
<1>9. SleepersAwaited'
  BY <1>2, <1>3, <1>4 DEF BioInv, SleepersAwaited
<1> QED  BY <1>3, <1>4, <1>5, <1>6, <1>7, <1>8, <1>9 DEF BioInv

\* What ideintr() does to a buffer that it has written or read, and the owner
\* in log_write() and bwrite().
WrittenBack(f, i) == [f EXCEPT ![i].dirty = FALSE, ![i].valid = TRUE]
ReadIn(f, i, v) == [f EXCEPT ![i].data = v, ![i].valid = TRUE]
Changed(f, i, v) == [f EXCEPT ![i].data = v, ![i].dirty = TRUE]

\* A buffer that ideintr() has written to disk is clean and keeps its data.
LEMMA ServedWrite ==
  ASSUME NEW f \in [Bufs -> BufType], NEW i \in Bufs
  PROVE  LET g == WrittenBack(f, i) IN
         /\ g \in [Bufs -> BufType] /\ \A j \in Bufs : j # i => g[j] = f[j]
         /\ g[i].blockno = f[i].blockno /\ g[i].refcnt = f[i].refcnt /\ g[i].data = f[i].data
         /\ g[i].valid /\ ~g[i].dirty
<1> DEFINE g == WrittenBack(f, i)
           h == [f EXCEPT ![i].dirty = FALSE]
<1>1. [f[i] EXCEPT !.dirty = FALSE] \in BufType
  BY BufFields
<1>2. h \in [Bufs -> BufType] /\ h[i] = [f[i] EXCEPT !.dirty = FALSE]
  BY <1>1
<1>3. [h[i] EXCEPT !.valid = TRUE] \in BufType
  BY <1>2, BufFields
<1>4. g = [h EXCEPT ![i] = [h[i] EXCEPT !.valid = TRUE]]
  BY DEF WrittenBack
<1>5. \A j \in Bufs : j # i => h[j] = f[j]
  OBVIOUS
<1> HIDE DEF g, h
<1>6. /\ g \in [Bufs -> BufType] /\ g[i] = [h[i] EXCEPT !.valid = TRUE]
      /\ \A j \in Bufs : j # i => g[j] = h[j]
  BY ONLY <1>2, <1>3, <1>4, i \in Bufs
<1>7. f[i] \in BufType
  OBVIOUS
<1>8. /\ \A j \in Bufs : j # i => g[j] = f[j]
      /\ g[i].blockno = f[i].blockno /\ g[i].refcnt = f[i].refcnt /\ g[i].data = f[i].data
      /\ g[i].valid /\ ~g[i].dirty
  BY ONLY <1>2, <1>5, <1>6, <1>7 DEF BufType
<1> QED  BY ONLY <1>6, <1>8 DEF g

\* A buffer that ideintr() has read has the data of the disk.
LEMMA ServedRead ==
  ASSUME NEW f \in [Bufs -> BufType], NEW i \in Bufs, NEW v \in Values, ~f[i].dirty
  PROVE  LET g == ReadIn(f, i, v) IN
         /\ g \in [Bufs -> BufType] /\ \A j \in Bufs : j # i => g[j] = f[j]
         /\ g[i].blockno = f[i].blockno /\ g[i].refcnt = f[i].refcnt /\ g[i].data = v
         /\ g[i].valid /\ ~g[i].dirty
<1> DEFINE g == ReadIn(f, i, v)
           h == [f EXCEPT ![i].data = v]
<1>1. [f[i] EXCEPT !.data = v] \in BufType
  BY BufFields
<1>2. h \in [Bufs -> BufType] /\ h[i] = [f[i] EXCEPT !.data = v]
  BY <1>1
<1>3. [h[i] EXCEPT !.valid = TRUE] \in BufType
  BY <1>2, BufFields
<1>4. g = [h EXCEPT ![i] = [h[i] EXCEPT !.valid = TRUE]]
  BY DEF ReadIn
<1>5. \A j \in Bufs : j # i => h[j] = f[j]
  OBVIOUS
<1> HIDE DEF g, h
<1>6. /\ g \in [Bufs -> BufType] /\ g[i] = [h[i] EXCEPT !.valid = TRUE]
      /\ \A j \in Bufs : j # i => g[j] = h[j]
  BY ONLY <1>2, <1>3, <1>4, i \in Bufs
<1>7. f[i] \in BufType
  OBVIOUS
<1>8. /\ \A j \in Bufs : j # i => g[j] = f[j]
      /\ g[i].blockno = f[i].blockno /\ g[i].refcnt = f[i].refcnt /\ g[i].data = v
      /\ g[i].valid /\ ~g[i].dirty
  BY ONLY ~f[i].dirty, <1>2, <1>5, <1>6, <1>7 DEF BufType
<1> QED  BY ONLY <1>6, <1>8 DEF g

\* A buffer that its owner has changed is dirty.
LEMMA WrittenFields ==
  ASSUME NEW f \in [Bufs -> BufType], NEW i \in Bufs, NEW v \in Values
  PROVE  LET g == Changed(f, i, v) IN
         /\ g \in [Bufs -> BufType] /\ \A j \in Bufs : j # i => g[j] = f[j]
         /\ g[i].blockno = f[i].blockno /\ g[i].refcnt = f[i].refcnt /\ g[i].data = v
         /\ (g[i].valid <=> f[i].valid) /\ g[i].dirty
<1> DEFINE g == Changed(f, i, v)
           h == [f EXCEPT ![i].data = v]
<1>1. [f[i] EXCEPT !.data = v] \in BufType
  BY BufFields
<1>2. h \in [Bufs -> BufType] /\ h[i] = [f[i] EXCEPT !.data = v]
  BY <1>1
<1>3. [h[i] EXCEPT !.dirty = TRUE] \in BufType
  BY <1>2, BufFields
<1>4. g = [h EXCEPT ![i] = [h[i] EXCEPT !.dirty = TRUE]]
  BY DEF Changed
<1>5. \A j \in Bufs : j # i => h[j] = f[j]
  OBVIOUS
<1> HIDE DEF g, h
<1>6. /\ g \in [Bufs -> BufType] /\ g[i] = [h[i] EXCEPT !.dirty = TRUE]
      /\ \A j \in Bufs : j # i => g[j] = h[j]
  BY ONLY <1>2, <1>3, <1>4, i \in Bufs
<1>7. f[i] \in BufType
  OBVIOUS
<1>8. /\ \A j \in Bufs : j # i => g[j] = f[j]
      /\ g[i].blockno = f[i].blockno /\ g[i].refcnt = f[i].refcnt /\ g[i].data = v
      /\ (g[i].valid <=> f[i].valid) /\ g[i].dirty
  BY ONLY <1>2, <1>5, <1>6, <1>7 DEF BufType
<1> QED  BY ONLY <1>6, <1>8 DEF g

\* Taking the first request off a queue without repetitions.
LEMMA TailQueue ==
  ASSUME NEW S, NEW q \in Seq(S), q # <<>>,
         \A m, n \in 1..Len(q) : q[m] = q[n] => m = n
  PROVE  /\ Head(q) \in S /\ Head(q) \in Range(q) /\ Tail(q) \in Seq(S)
         /\ Range(Tail(q)) = Range(q) \ {Head(q)}
         /\ \A m, n \in 1..Len(Tail(q)) : Tail(q)[m] = Tail(q)[n] => m = n
<1>1. /\ Len(q) \in Nat /\ Len(q) # 0 /\ DOMAIN q = 1..Len(q) /\ Head(q) = q[1]
      /\ Tail(q) \in Seq(S) /\ Len(Tail(q)) = Len(q) - 1 /\ DOMAIN Tail(q) = 1..Len(q) - 1
      /\ \A n \in 1..Len(q) - 1 : Tail(q)[n] = q[n + 1]
  OBVIOUS
<1>2. q[1] \in S
  BY <1>1
<1>3. Range(Tail(q)) \subseteq Range(q) \ {q[1]}
  BY <1>1 DEF Range
<1>4. ASSUME NEW x \in Range(q), x # q[1] PROVE x \in Range(Tail(q))
  <2>1. PICK n \in 1..Len(q) : q[n] = x
    BY <1>1 DEF Range
  <2>2. n - 1 \in 1..Len(q) - 1 /\ Tail(q)[n - 1] = x
    BY <1>1, <1>4, <2>1
  <2> QED  BY <1>1, <2>2 DEF Range
<1>5. \A m, n \in 1..Len(Tail(q)) : Tail(q)[m] = Tail(q)[n] => m = n
  BY <1>1
<1>6. q[1] \in Range(q)
  BY <1>1 DEF Range
<1> QED  BY <1>1, <1>2, <1>3, <1>4, <1>5, <1>6

\* The request ideintr() completes is that of the one thread that owns the buffer.
LEMMA ServedRequest ==
  ASSUME BioInv, ideintr
  PROVE  \E t \in Threads :
           /\ th[t] = "sleepide" /\ b[t] = Head(idequeue) /\ b[t] \in Bufs
           /\ want[t] \in Blocks /\ buf[b[t]].blockno = want[t]
           /\ \A u \in Threads : th[u] = "sleepide" /\ b[u] = b[t] => u = t
           /\ th' = [th EXCEPT ![t] = "have"]
           /\ Range(idequeue') = Range(idequeue) \ {b[t]}
           /\ idequeue' \in Seq(Bufs)
           /\ \A m, n \in 1..Len(idequeue') : idequeue'[m] = idequeue'[n] => m = n
<1> USE DEF ideintr
<1>1. idequeue \in Seq(Bufs) /\ idequeue # <<>> /\ th \in [Threads -> Places]
  BY DEF BioInv, QueueInv, BioTypeOK
<1>2. \A m, n \in 1..Len(idequeue) : idequeue[m] = idequeue[n] => m = n
  BY DEF BioInv, QueueInv
<1>3. /\ Head(idequeue) \in Bufs /\ Head(idequeue) \in Range(idequeue)
      /\ idequeue' \in Seq(Bufs) /\ Range(idequeue') = Range(idequeue) \ {Head(idequeue)}
      /\ \A m, n \in 1..Len(idequeue') : idequeue'[m] = idequeue'[n] => m = n
  <2>1. idequeue' = Tail(idequeue)
    OBVIOUS
  <2> QED  BY ONLY <1>1, <1>2, <2>1, TailQueue
<1>4. PICK t \in Threads : th[t] = "sleepide" /\ b[t] = Head(idequeue)
  BY <1>3 DEF BioInv, QueueInv
<1>5. ASSUME NEW u \in Threads, th[u] = "sleepide", b[u] = b[t] PROVE u = t
  <2>1. Holds(u) /\ Holds(t)
    BY <1>4, <1>5 DEF Holds
  <2>2. lockedBy[b[t]] = u /\ lockedBy[b[t]] = t
    BY <1>3, <1>4, <1>5, <2>1 DEF BioInv, LockInv
  <2> QED  BY <2>2
<1>6. th' = [th EXCEPT ![t] = "have"]
  BY <1>1, <1>4, <1>5 DEF Wakeup
<1>7. want[t] \in Blocks /\ buf[b[t]].blockno = want[t]
  BY <1>4 DEF BioInv, PlaceInv
<1> QED  BY ONLY <1>3, <1>4, <1>5, <1>6, <1>7

\* ideintr() leaves the served buffer valid, clean and as on disk.
LEMMA IntrBioInv == ASSUME BioInv, ideintr PROVE BioInv'
<1>1. PICK t \in Threads :
           /\ th[t] = "sleepide" /\ b[t] = Head(idequeue) /\ b[t] \in Bufs
           /\ want[t] \in Blocks /\ buf[b[t]].blockno = want[t]
           /\ \A u \in Threads : th[u] = "sleepide" /\ b[u] = b[t] => u = t
           /\ th' = [th EXCEPT ![t] = "have"]
           /\ Range(idequeue') = Range(idequeue) \ {b[t]}
           /\ idequeue' \in Seq(Bufs)
           /\ \A m, n \in 1..Len(idequeue') : idequeue'[m] = idequeue'[n] => m = n
  BY ServedRequest
<1>2. BioTypeOK /\ buf \in [Bufs -> BufType] /\ disk \in [Blocks -> Values] /\ b[t] \in Bufs
  BY <1>1 DEF BioInv, BioTypeOK, BufType
<1>3. th' \in [Threads -> Places] /\ \A u \in Threads : th'[u] = IF u = t THEN "have" ELSE th[u]
  BY <1>1, <1>2 DEF BioTypeOK, Places
<1>4. /\ buf' \in [Bufs -> BufType] /\ \A j \in Bufs : j # b[t] => buf'[j] = buf[j]
      /\ buf'[b[t]].blockno = want[t] /\ buf'[b[t]].refcnt = buf[b[t]].refcnt
      /\ buf'[b[t]].valid /\ ~buf'[b[t]].dirty
      /\ disk' \in [Blocks -> Values] /\ \A k \in Blocks : k # want[t] => disk'[k] = disk[k]
      /\ buf'[b[t]].data \in Values /\ buf'[b[t]].data = disk'[want[t]]
  <2>1. CASE buf[b[t]].dirty
    <3>1. buf[b[t]].data \in Values
      BY <1>1, <2>1 DEF BioInv, CacheInv
    <3>2. /\ disk' = [disk EXCEPT ![want[t]] = buf[b[t]].data]
          /\ buf' = WrittenBack(buf, b[t])
      BY <1>1, <2>1 DEF ideintr, WrittenBack
    <3>3. /\ buf' \in [Bufs -> BufType] /\ \A j \in Bufs : j # b[t] => buf'[j] = buf[j]
          /\ buf'[b[t]].blockno = buf[b[t]].blockno /\ buf'[b[t]].refcnt = buf[b[t]].refcnt
          /\ buf'[b[t]].data = buf[b[t]].data /\ buf'[b[t]].valid /\ ~buf'[b[t]].dirty
      BY ONLY <1>2, <3>2, ServedWrite
    <3>4. want[t] \in Blocks /\ buf[b[t]].blockno = want[t]
      BY ONLY <1>1
    <3>5. /\ disk' \in [Blocks -> Values] /\ \A k \in Blocks : k # want[t] => disk'[k] = disk[k]
          /\ disk'[want[t]] = buf[b[t]].data
      BY ONLY <1>2, <3>1, <3>2, <3>4
    <3> QED  BY ONLY <3>1, <3>3, <3>4, <3>5
  <2>2. CASE ~buf[b[t]].dirty
    <3>1. disk[want[t]] \in Values
      BY <1>1, <1>2
    <3>2. disk' = disk /\ buf' = ReadIn(buf, b[t], disk[want[t]])
      BY <1>1, <2>2 DEF ideintr, ReadIn
    <3>3. /\ buf' \in [Bufs -> BufType] /\ \A j \in Bufs : j # b[t] => buf'[j] = buf[j]
          /\ buf'[b[t]].blockno = buf[b[t]].blockno /\ buf'[b[t]].refcnt = buf[b[t]].refcnt
          /\ buf'[b[t]].data = disk[want[t]] /\ buf'[b[t]].valid /\ ~buf'[b[t]].dirty
      BY ONLY <1>2, <2>2, <3>1, <3>2, ServedRead
    <3> QED  BY ONLY <1>1, <1>2, <3>1, <3>2, <3>3
  <2> QED  BY <2>1, <2>2
<1>5. /\ lockedBy' = lockedBy /\ b' = b /\ want' = want /\ mru' = mru
      /\ command' = (idequeue' # <<>>)
  BY DEF ideintr
<1>6. BioTypeOK'
  BY <1>1, <1>2, <1>3, <1>4, <1>5 DEF BioTypeOK, BufType
<1>7. PlaceInv'
  BY <1>1, <1>3, <1>4, <1>5 DEF BioInv, PlaceInv
<1>8. RefInv'
  <2>1. \A i \in Bufs : Users(i)' = Users(i) /\ buf'[i].refcnt = buf[i].refcnt
    BY <1>1, <1>4, <1>5 DEF Users
  <2> QED  BY <2>1 DEF BioInv, RefInv
<1>9. LockInv'
  <2>1. \A u \in Threads : Holds(u)' <=> Holds(u)
    BY <1>1, <1>3 DEF Holds
  <2>2. (\A u \in Threads, i \in Bufs : lockedBy[i] = u <=> Holds(u) /\ b[u] = i)'
    BY <1>5, <2>1 DEF BioInv, LockInv
  <2>3. \A u \in Threads : th'[u] = "have" => buf'[b[u]].valid
    BY <1>1, <1>3, <1>4 DEF BioInv, LockInv, PlaceInv
  <2> QED  BY <1>5, <2>2, <2>3 DEF LockInv
<1>10. CacheInv'
  <2>1. \A i \in Bufs : buf'[i].blockno = buf[i].blockno
    BY <1>1, <1>4
  <2>2. \A i \in Bufs : i # b[t] => buf[i].blockno # want[t]
    BY <1>1, BioAssumption DEF BioInv, CacheInv
  <2>3. \A i, j \in Bufs : buf'[i].blockno = buf'[j].blockno /\ buf'[i].blockno # None => i = j
    BY <2>1 DEF BioInv, CacheInv
  <2>4. ASSUME NEW i \in Bufs, i # b[t]
        PROVE  /\ buf'[i].dirty => buf'[i].valid
               /\ buf'[i].valid => buf'[i].blockno \in Blocks /\ buf'[i].data \in Values
               /\ buf'[i].valid /\ ~buf'[i].dirty => buf'[i].data = disk'[buf'[i].blockno]
    <3>1. buf'[i] = buf[i] /\ buf[i].blockno # want[t]
      BY <1>4, <2>2, <2>4
    <3>2. /\ buf[i].dirty => buf[i].valid
          /\ buf[i].valid => buf[i].blockno \in Blocks /\ buf[i].data \in Values
          /\ buf[i].valid /\ ~buf[i].dirty => buf[i].data = disk[buf[i].blockno]
      BY DEF BioInv, CacheInv
    <3> QED  BY ONLY <1>4, <3>1, <3>2
  <2>5. /\ buf'[b[t]].dirty => buf'[b[t]].valid
        /\ buf'[b[t]].valid => buf'[b[t]].blockno \in Blocks /\ buf'[b[t]].data \in Values
        /\ buf'[b[t]].valid /\ ~buf'[b[t]].dirty => buf'[b[t]].data = disk'[buf'[b[t]].blockno]
    BY <1>1, <1>4
  <2> QED  BY <2>3, <2>4, <2>5 DEF CacheInv
<1>11. QueueInv'
  <2>1. \A i \in Bufs : i \in Range(idequeue') <=> \E u \in Threads : th'[u] = "sleepide" /\ b[u] = i
    BY <1>1, <1>3 DEF BioInv, QueueInv
  <2>2. command' <=> idequeue' # <<>>
    BY <1>5
  <2> QED  BY <1>1, <1>5, <2>1, <2>2 DEF QueueInv
<1>12. SleepersAwaited'
  <2>1. ASSUME NEW u \in Threads, th'[u] = "sleepide" PROVE command' /\ b[u] \in Range(idequeue')
    <3>1. th[u] = "sleepide" /\ u # t
      BY <1>3, <2>1
    <3>2. b[u] \in Range(idequeue')
      BY <1>1, <3>1 DEF BioInv, SleepersAwaited
    <3>3. idequeue' # <<>>
      BY <3>2 DEF Range
    <3> QED  BY <1>5, <3>2, <3>3
  <2>2. \A u \in Threads : th'[u] = "sleeplock" => lockedBy[b[u]] # None
    BY <1>3 DEF BioInv, SleepersAwaited
  <2> QED  BY <1>5, <1>6, <2>1, <2>2 DEF SleepersAwaited
<1> QED  BY <1>6, <1>7, <1>8, <1>9, <1>10, <1>11, <1>12 DEF BioInv
=============================================================================
