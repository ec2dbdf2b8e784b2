----------------------------- MODULE BioProofs ------------------------------
(***************************************************************************)
(* Proofs about module Bio: the other steps preserve the invariant of      *)
(* BioInvariant, so that no sleeper is left behind; and the cache          *)
(* implements BlockStore: bread() ... brelse() gives one thread at a time  *)
(* the latest contents of a block.                                         *)
(***************************************************************************)
EXTENDS BioInvariant

\* The owner of a buffer changes nothing but its data and makes it dirty.
LEMMA ChangedInv ==
  ASSUME BioInv, NEW t \in Threads, NEW v \in Values, th[t] = "have",
         buf' = Changed(buf, b[t], v), b' = b, disk' = disk
  PROVE  /\ b[t] \in Bufs /\ buf' \in [Bufs -> BufType] /\ CacheInv' /\ RefInv'
         /\ \A i \in Bufs : /\ buf'[i].blockno = buf[i].blockno
                            /\ buf'[i].valid <=> buf[i].valid
                            /\ i # b[t] => buf'[i].data = buf[i].data
         /\ buf'[b[t]].data = v
<1>1. /\ b[t] \in Bufs /\ buf \in [Bufs -> BufType] /\ buf[b[t]].valid
      /\ buf[b[t]].blockno \in Blocks
  BY DEF BioInv, PlaceInv, LockInv, BioTypeOK, BufType
<1>2. /\ buf' \in [Bufs -> BufType] /\ \A j \in Bufs : j # b[t] => buf'[j] = buf[j]
      /\ buf'[b[t]].blockno = buf[b[t]].blockno /\ buf'[b[t]].refcnt = buf[b[t]].refcnt
      /\ buf'[b[t]].data = v /\ (buf'[b[t]].valid <=> buf[b[t]].valid) /\ buf'[b[t]].dirty
  BY ONLY <1>1, WrittenFields, v \in Values, buf' = Changed(buf, b[t], v)
<1>3. \A i \in Bufs : /\ buf'[i].blockno = buf[i].blockno
                      /\ buf'[i].valid <=> buf[i].valid
                      /\ buf'[i].refcnt = buf[i].refcnt
                      /\ i # b[t] => buf'[i].data = buf[i].data
  BY ONLY <1>1, <1>2
<1>4. RefInv'
  <2>1. \A i \in Bufs : Users(i)' = Users(i)
    BY DEF Users
  <2> QED  BY <1>3, <2>1 DEF BioInv, RefInv
<1>5. CacheInv'
  <2>1. \A i, j \in Bufs : buf'[i].blockno = buf'[j].blockno /\ buf'[i].blockno # None => i = j
    BY <1>3 DEF BioInv, CacheInv
  <2>2. ASSUME NEW i \in Bufs
        PROVE  /\ buf'[i].dirty => buf'[i].valid
               /\ buf'[i].valid => buf'[i].blockno \in Blocks /\ buf'[i].data \in Values
               /\ buf'[i].valid /\ ~buf'[i].dirty => buf'[i].data = disk[buf'[i].blockno]
    <3>1. CASE i = b[t]
      BY ONLY <1>1, <1>2, <3>1, v \in Values
    <3>2. CASE i # b[t]
      <4>1. /\ buf[i].dirty => buf[i].valid
            /\ buf[i].valid => buf[i].blockno \in Blocks /\ buf[i].data \in Values
            /\ buf[i].valid /\ ~buf[i].dirty => buf[i].data = disk[buf[i].blockno]
        BY DEF BioInv, CacheInv
      <4>2. buf'[i] = buf[i]
        BY <1>2, <3>2
      <4> QED  BY ONLY <4>1, <4>2
    <3> QED  BY <3>1, <3>2
  <2> QED  BY <2>1, <2>2 DEF CacheInv
<1> QED  BY <1>1, <1>2, <1>3, <1>4, <1>5

\* log_write() pins the buffer of its caller in the cache.
LEMMA LogWriteBioInv ==
  ASSUME BioInv, NEW t \in Threads, NEW v \in Values, log_write(t, v) PROVE BioInv'
<1>1. /\ th[t] = "have" /\ buf' = Changed(buf, b[t], v)
      /\ UNCHANGED <<mru, lockedBy, idequeue, command, disk, th, want, b>>
  BY DEF log_write, Changed
<1>2. /\ b[t] \in Bufs /\ buf' \in [Bufs -> BufType] /\ CacheInv' /\ RefInv'
      /\ \A i \in Bufs : buf'[i].blockno = buf[i].blockno /\ (buf'[i].valid <=> buf[i].valid)
  BY <1>1, ChangedInv
<1>3. BioTypeOK'
  BY <1>1, <1>2 DEF BioInv, BioTypeOK, BufType
<1>4. PlaceInv'
  BY <1>1, <1>2 DEF BioInv, PlaceInv
<1>5. LockInv'
  <2>1. \A u \in Threads : Holds(u)' <=> Holds(u)
    BY <1>1 DEF Holds
  <2>2. (\A u \in Threads, i \in Bufs : lockedBy[i] = u <=> Holds(u) /\ b[u] = i)'
    BY <1>1, <2>1 DEF BioInv, LockInv
  <2>3. (\A u \in Threads : th[u] = "have" => buf[b[u]].valid)'
    BY <1>1, <1>2 DEF BioInv, LockInv, PlaceInv
  <2> QED  BY <2>2, <2>3 DEF LockInv
<1>6. QueueInv'
  BY <1>1 DEF BioInv, QueueInv
<1>7. SleepersAwaited'
  BY <1>1, <1>3 DEF BioInv, SleepersAwaited
<1> QED  BY <1>2, <1>3, <1>4, <1>5, <1>6, <1>7 DEF BioInv

\* bwrite() queues the changed buffer.
LEMMA BwriteBioInv ==
  ASSUME BioInv, NEW t \in Threads, NEW v \in Values, bwrite(t, v) PROVE BioInv'
<1>1. /\ th[t] = "have" /\ buf' = Changed(buf, b[t], v) /\ iderw(t)
      /\ UNCHANGED <<mru, lockedBy, disk, want, b>>
  BY DEF bwrite, Changed
<1>2. /\ b[t] \in Bufs /\ buf' \in [Bufs -> BufType] /\ CacheInv' /\ RefInv'
      /\ \A i \in Bufs : buf'[i].blockno = buf[i].blockno /\ (buf'[i].valid <=> buf[i].valid)
  BY <1>1, ChangedInv
<1>3. /\ idequeue' \in Seq(Bufs) /\ command' = TRUE /\ QueueInv'
      /\ Range(idequeue') = Range(idequeue) \cup {b[t]}
  BY <1>1, IderwQueue
<1>4. /\ th \in [Threads -> Places] /\ th' \in [Threads -> Places]
      /\ \A u \in Threads : th'[u] = IF u = t THEN "sleepide" ELSE th[u]
  BY <1>1 DEF BioInv, BioTypeOK, Places, iderw
<1>5. BioTypeOK'
  BY <1>1, <1>2, <1>3, <1>4 DEF BioInv, BioTypeOK, BufType
<1>6. PlaceInv'
  BY <1>1, <1>2, <1>4 DEF BioInv, PlaceInv
<1>7. LockInv'
  <2>1. \A u \in Threads : Holds(u)' <=> Holds(u)
    BY <1>1, <1>4 DEF Holds
  <2>2. (\A u \in Threads, i \in Bufs : lockedBy[i] = u <=> Holds(u) /\ b[u] = i)'
    BY <1>1, <2>1 DEF BioInv, LockInv
  <2>3. (\A u \in Threads : th[u] = "have" => buf[b[u]].valid)'
    BY <1>1, <1>2, <1>4 DEF BioInv, LockInv, PlaceInv
  <2> QED  BY <2>2, <2>3 DEF LockInv
<1>8. SleepersAwaited'
  BY <1>1, <1>3, <1>4, <1>5 DEF BioInv, SleepersAwaited
<1> QED  BY <1>2, <1>3, <1>5, <1>6, <1>7, <1>8 DEF BioInv

\* releasesleep() wakes all that sleep on the lock.
LEMMA ReleaseBioInv == ASSUME BioInv, NEW t \in Threads, releasesleep(t) PROVE BioInv'
<1>1. BioTypeOK /\ b[t] \in Bufs /\ Holds(t) /\ th[t] = "have"
  BY DEF releasesleep, BioInv, PlaceInv, Holds
<1>2. UNCHANGED <<buf, mru, idequeue, command, disk, want, b>>
  BY DEF releasesleep
<1>3. \A u \in Threads : th'[u] = IF u = t THEN "brelse"
                                  ELSE IF th[u] = "sleeplock" /\ b[u] = b[t] THEN "acquiresleep"
                                  ELSE th[u]
  BY DEF releasesleep, Wakeup
<1>4. /\ lockedBy' \in [Bufs -> Threads \cup {None}] /\ lockedBy \in [Bufs -> Threads \cup {None}]
      /\ \A i \in Bufs : lockedBy'[i] = IF i = b[t] THEN None ELSE lockedBy[i]
  BY <1>1 DEF releasesleep, BioTypeOK
<1>5. th' \in [Threads -> Places]
  <2>1. th' = [u \in Threads |-> th'[u]]
    BY DEF releasesleep, Wakeup
  <2>2. \A u \in Threads : th'[u] \in Places
    BY <1>1, <1>3 DEF BioTypeOK, Places
  <2> QED  BY ONLY <2>1, <2>2
<1>6. BioTypeOK'
  BY <1>1, <1>2, <1>4, <1>5 DEF BioTypeOK
<1>7. PlaceInv'
  BY <1>1, <1>2, <1>3 DEF BioInv, PlaceInv
<1>8. RefInv'
  <2>1. \A i \in Bufs : Users(i)' = Users(i)
    BY <1>2 DEF Users
  <2> QED  BY <1>2, <2>1 DEF BioInv, RefInv
<1>9. LockInv'
  <2>1. \A u \in Threads : u # t => (Holds(u)' <=> Holds(u))
    BY <1>3 DEF Holds
  <2>2. ~Holds(t)'
    BY <1>3 DEF Holds
  <2>3. ASSUME NEW u \in Threads, NEW i \in Bufs
        PROVE  lockedBy'[i] = u <=> Holds(u)' /\ b[u] = i
    <3>1. lockedBy[i] = u <=> Holds(u) /\ b[u] = i
      BY DEF BioInv, LockInv
    <3>2. lockedBy[b[t]] = t
      BY <1>1 DEF BioInv, LockInv
    <3>3. u # None
      BY BioAssumption
    <3> QED  BY <1>4, <2>1, <2>2, <3>1, <3>2, <3>3
  <2>4. \A u \in Threads : th'[u] = "have" => buf[b[u]].valid
    BY <1>3 DEF BioInv, LockInv
  <2> QED  BY <1>2, <2>3, <2>4 DEF LockInv
<1>10. CacheInv'
  BY <1>2 DEF BioInv, CacheInv
<1>11. QueueInv'
  BY <1>1, <1>2, <1>3 DEF BioInv, QueueInv
<1>12. SleepersAwaited'
  <2>1. ASSUME NEW u \in Threads, th'[u] = "sleeplock" PROVE lockedBy'[b[u]] # None
    <3>1. u # t /\ th[u] = "sleeplock" /\ b[u] # b[t]
      BY <1>3, <2>1
    <3>2. lockedBy[b[u]] # None /\ b[u] \in Bufs
      BY <3>1 DEF BioInv, SleepersAwaited, PlaceInv
    <3> QED  BY <1>4, <3>1, <3>2
  <2>2. \A u \in Threads : th'[u] = "sleepide" => command /\ b[u] \in Range(idequeue)
    BY <1>3 DEF BioInv, SleepersAwaited
  <2> QED  BY <1>2, <1>6, <2>1, <2>2 DEF SleepersAwaited
<1> QED  BY <1>6, <1>7, <1>8, <1>9, <1>10, <1>11, <1>12 DEF BioInv

\* brelse() drops one reference, the caller's.
LEMMA BrelseBioInv == ASSUME BioInv, NEW t \in Threads, brelse(t) PROVE BioInv'
<1>0. BioTypeOK /\ b[t] \in Bufs /\ th[t] = "brelse" /\ buf \in [Bufs -> BufType]
  BY DEF brelse, BioInv, PlaceInv, BioTypeOK, BufType
<1>1. PICK i : /\ i = b[t] /\ i \in Bufs /\ BioTypeOK
               /\ th[t] = "brelse" /\ buf \in [Bufs -> BufType]
  BY <1>0
<1>2. /\ UNCHANGED <<lockedBy, idequeue, command, disk>>
      /\ th' = [th EXCEPT ![t] = "idle"] /\ want' = [want EXCEPT ![t] = None]
      /\ b' = [b EXCEPT ![t] = None]
  BY DEF brelse
<1>3. \A u \in Threads : /\ u # t => th'[u] = th[u] /\ b'[u] = b[u] /\ want'[u] = want[u]
                         /\ u = t => th'[u] = "idle" /\ b'[u] = None
  BY <1>1, <1>2 DEF BioTypeOK
<1>4. t \in Users(i) /\ IsFiniteSet(Users(i)) /\ buf[i].refcnt = Cardinality(Users(i))
  BY <1>1 DEF Users, BioInv, RefInv
<1>5. /\ IsFiniteSet(Users(i) \ {t}) /\ Cardinality(Users(i) \ {t}) = buf[i].refcnt - 1
      /\ buf[i].refcnt - 1 \in Nat
  <2>1. /\ IsFiniteSet(Users(i) \ {t})
        /\ Cardinality(Users(i) \ {t}) = Cardinality(Users(i)) - 1
    BY <1>4, FS_RemoveElement
  <2>2. Cardinality(Users(i) \ {t}) \in Nat
    BY <2>1, FS_CardinalityType
  <2> QED  BY <1>4, <2>1, <2>2
<1>6. /\ buf' \in [Bufs -> BufType] /\ buf'[i].refcnt = buf[i].refcnt - 1
      /\ \A j \in Bufs : j # i => buf'[j] = buf[j]
      /\ \A j \in Bufs : /\ buf'[j].blockno = buf[j].blockno /\ buf'[j].data = buf[j].data
                         /\ buf'[j].valid = buf[j].valid /\ buf'[j].dirty = buf[j].dirty
  <2> DEFINE r == [buf[i] EXCEPT !.refcnt = buf[i].refcnt - 1]
  <2>1. buf' = [buf EXCEPT ![i] = r]
    BY <1>1 DEF brelse
  <2>2. /\ r \in BufType /\ r.refcnt = buf[i].refcnt - 1 /\ r.blockno = buf[i].blockno
        /\ r.data = buf[i].data /\ r.valid = buf[i].valid /\ r.dirty = buf[i].dirty
    <3>1. buf[i] \in BufType
      BY <1>1
    <3>2. r \in BufType
      BY <1>5, <3>1, BufFields
    <3> QED  BY ONLY <3>1, <3>2 DEF BufType
  <2> HIDE DEF r
  <2>3. /\ buf' \in [Bufs -> BufType] /\ buf'[i] = r /\ \A j \in Bufs : j # i => buf'[j] = buf[j]
    BY ONLY <1>1, <2>1, <2>2
  <2> QED  BY ONLY <2>2, <2>3
<1>7. BioTypeOK'
  <2>1. mru' \in Seq(Bufs) /\ Range(mru') = Bufs /\ Len(mru') = NBUF
    <3>1. \/ mru' = mru
          \/ mru' = MoveToHead(i)
      BY <1>1 DEF brelse
    <3>2. mru \in Seq(Bufs) /\ Range(mru) = Bufs /\ Len(mru) = NBUF
      BY <1>1 DEF BioTypeOK
    <3> QED  BY <1>1, <3>1, <3>2, MoveToFront
  <2>2. /\ th' \in [Threads -> Places] /\ want' \in [Threads -> Blocks \cup {None}]
        /\ b' \in [Threads -> Bufs \cup {None}]
    BY <1>1, <1>2 DEF BioTypeOK, Places
  <2> QED  BY <1>1, <1>2, <1>6, <2>1, <2>2 DEF BioTypeOK, BufType
<1>8. PlaceInv'
  BY <1>3, <1>6 DEF BioInv, PlaceInv
<1>9. RefInv'
  <2>1. Users(i)' = Users(i) \ {t}
    BY <1>1, <1>3, BioAssumption DEF Users
  <2>2. \A j \in Bufs : j # i => Users(j)' = Users(j)
    BY <1>1, <1>3, BioAssumption DEF Users
  <2> QED  BY <1>1, <1>5, <1>6, <2>1, <2>2 DEF BioInv, RefInv
<1>10. LockInv'
  <2>1. ~Holds(t) /\ ~Holds(t)' /\ \A u \in Threads : u # t => (Holds(u)' <=> Holds(u))
    BY <1>1, <1>3 DEF Holds
  <2>2. (\A u \in Threads, j \in Bufs : lockedBy[j] = u <=> Holds(u) /\ b[u] = j)'
    BY <1>2, <1>3, <2>1 DEF BioInv, LockInv
  <2>3. \A u \in Threads : th'[u] = "have" => buf'[b'[u]].valid
    BY <1>3, <1>6 DEF BioInv, LockInv, PlaceInv
  <2> QED  BY <2>2, <2>3 DEF LockInv
<1>11. CacheInv'
  <2>1. \A j, l \in Bufs : buf'[j].blockno = buf'[l].blockno /\ buf'[j].blockno # None => j = l
    BY <1>6 DEF BioInv, CacheInv
  <2>2. \A j \in Bufs : /\ buf'[j].dirty => buf'[j].valid
                        /\ buf'[j].valid => buf'[j].blockno \in Blocks /\ buf'[j].data \in Values
    BY <1>6 DEF BioInv, CacheInv
  <2>3. \A j \in Bufs : buf'[j].valid /\ ~buf'[j].dirty => buf'[j].data = disk[buf'[j].blockno]
    BY <1>6 DEF BioInv, CacheInv
  <2> QED  BY <1>2, <2>1, <2>2, <2>3 DEF CacheInv
<1>12. QueueInv'
  BY <1>1, <1>2, <1>3 DEF BioInv, QueueInv
<1>13. SleepersAwaited'
  BY <1>2, <1>3, <1>7 DEF BioInv, SleepersAwaited
<1> QED  BY <1>7, <1>8, <1>9, <1>10, <1>11, <1>12, <1>13 DEF BioInv

\* bget() finds the block, recycles the least recently used buffer or panics.
LEMMA BgetBioInv ==
  ASSUME BioInv, NEW t \in Threads, NEW k \in Blocks, bget(t, k) PROVE BioInv'
<1>1. ASSUME NEW i \in Cached(k),
             b' = [b EXCEPT ![t] = i], buf' = [buf EXCEPT ![i].refcnt = @ + 1],
             th' = [th EXCEPT ![t] = "acquiresleep"]
      PROVE  BioInv'
  BY <1>1, HitBioInv DEF bget
<1>2. ASSUME NEW i, i = LeastRecent(Recyclable), Cached(k) = {}, Recyclable # {},
             b' = [b EXCEPT ![t] = i],
             buf' = [buf EXCEPT ![i] = [@ EXCEPT !.blockno = k, !.valid = FALSE, !.dirty = FALSE,
                                                 !.refcnt = 1]],
             th' = [th EXCEPT ![t] = "acquiresleep"]
      PROVE  BioInv'
  <2>1. i \in Recyclable
    BY <1>2, LeastRecentFound DEF BioInv, Recyclable
  <2>2. /\ th[t] = "idle" /\ want' = [want EXCEPT ![t] = k]
        /\ UNCHANGED <<mru, lockedBy, idequeue, command, disk>>
    BY DEF bget
  <2> QED  BY ONLY Zenon, BioInv, t \in Threads, k \in Blocks, <1>2, <2>1, <2>2, RecycleBioInv
<1>3. ASSUME th' = [th EXCEPT ![t] = "panic"], UNCHANGED <<buf, b>> PROVE BioInv'
  <2>1. /\ UNCHANGED <<mru, lockedBy, idequeue, command, disk>> /\ BioTypeOK /\ th[t] = "idle"
        /\ want' = [want EXCEPT ![t] = k]
    BY DEF bget, BioInv
  <2>2. BioTypeOK'
    <3>1. th' \in [Threads -> Places] /\ want' \in [Threads -> Blocks \cup {None}]
      BY <1>3, <2>1 DEF BioTypeOK, Places
    <3> QED  BY <1>3, <2>1, <3>1 DEF BioTypeOK
  <2>3. \A u \in Threads : IF u = t THEN th'[u] = "panic" ELSE th'[u] = th[u] /\ want'[u] = want[u]
    BY <1>3, <2>1 DEF BioTypeOK
  <2>4. PlaceInv'
    BY <1>3, <2>1, <2>3 DEF BioInv, PlaceInv
  <2>5. RefInv'
    <3>1. \A i \in Bufs : Users(i)' = Users(i)
      BY <1>3 DEF Users
    <3> QED  BY <1>3, <3>1 DEF BioInv, RefInv
  <2>6. LockInv'
    <3>1. \A u \in Threads : Holds(u)' <=> Holds(u)
      BY <2>1, <2>3 DEF Holds
    <3> QED  BY <1>3, <2>1, <2>3, <3>1 DEF BioInv, LockInv
  <2>7. CacheInv'
    BY <1>3, <2>1 DEF BioInv, CacheInv
  <2>8. QueueInv'
    BY <1>3, <2>1, <2>3 DEF BioInv, QueueInv
  <2>9. SleepersAwaited'
    BY <1>3, <2>1, <2>2, <2>3 DEF BioInv, SleepersAwaited
  <2> QED  BY <2>2, <2>4, <2>5, <2>6, <2>7, <2>8, <2>9 DEF BioInv
<1> QED  BY Zenon, <1>1, <1>2, <1>3 DEF bget

\* Every step of the cache and the driver preserves the invariant.
LEMMA NextBioInv == BioInv /\ [BioNext]_bioVars => BioInv'
<1> SUFFICES ASSUME BioInv, [BioNext]_bioVars PROVE BioInv'
  OBVIOUS
<1>1. CASE UNCHANGED bioVars
  BY <1>1 DEF bioVars, BioInv, BioTypeOK, PlaceInv, RefInv, Users, LockInv, Holds, CacheInv,
              QueueInv, SleepersAwaited
<1>2. ASSUME NEW t \in Threads, NEW k \in Blocks, bget(t, k) PROVE BioInv'
  BY <1>2, BgetBioInv
<1>3. ASSUME NEW t \in Threads, acquiresleep(t) \/ bread(t) \/ releasesleep(t) \/ brelse(t)
      PROVE  BioInv'
  BY <1>3, AcquireBioInv, BreadBioInv, ReleaseBioInv, BrelseBioInv
<1>4. ASSUME NEW t \in Threads, NEW v \in Values, log_write(t, v) \/ bwrite(t, v) PROVE BioInv'
  BY <1>4, LogWriteBioInv, BwriteBioInv
<1>5. CASE ideintr
  BY <1>5, IntrBioInv
<1> QED  BY <1>1, <1>2, <1>3, <1>4, <1>5 DEF BioNext

-----------------------------------------------------------------------------
\* Content(k) for given buffers and a given disk.
ContentOf(f, d, k) ==
  LET S == {i \in {j \in Bufs : f[j].blockno = k} : f[i].valid}
  IN  IF S = {} THEN d[k] ELSE f[CHOOSE i \in S : TRUE].data

\* A block's content is that of the buffer bread() would find, or on disk.
LEMMA ContentFound ==
  ASSUME NEW f, NEW d, NEW k
  PROVE  /\ (\A i \in Bufs : f[i].blockno = k => ~f[i].valid) => ContentOf(f, d, k) = d[k]
         /\ \A i \in Bufs : /\ f[i].blockno = k /\ f[i].valid
                            /\ \A j \in Bufs : f[j].blockno = k => j = i
                            => ContentOf(f, d, k) = f[i].data
<1> DEFINE S == {i \in {j \in Bufs : f[j].blockno = k} : f[i].valid}
<1>1. ASSUME \A i \in Bufs : f[i].blockno = k => ~f[i].valid PROVE ContentOf(f, d, k) = d[k]
  <2>1. S = {}
    BY <1>1
  <2> QED  BY <2>1 DEF ContentOf
<1>2. ASSUME NEW i \in Bufs, f[i].blockno = k, f[i].valid, \A j \in Bufs : f[j].blockno = k => j = i
      PROVE  ContentOf(f, d, k) = f[i].data
  <2>1. S = {i}
    BY <1>2
  <2>2. S # {} /\ (CHOOSE j \in S : TRUE) = i
    BY <2>1
  <2> QED  BY <2>2 DEF ContentOf
<1> QED  BY <1>1, <1>2

\* Content(k) before and after a step.
LEMMA ContentNow == \A k \in Blocks : /\ Content(k) = ContentOf(buf, disk, k)
                                      /\ Content(k)' = ContentOf(buf', disk', k)
BY DEF Content, ContentOf, Cached

\* Contents do not change when no block, validity, data and disk block does.
LEMMA SameContent ==
  ASSUME disk' = disk,
         \A i \in Bufs : /\ buf'[i].blockno = buf[i].blockno /\ buf'[i].data = buf[i].data
                         /\ buf'[i].valid <=> buf[i].valid
  PROVE  \A k \in Blocks : Content(k)' = Content(k)
<1> TAKE k \in Blocks
<1> DEFINE S == {i \in {j \in Bufs : buf[j].blockno = k} : buf[i].valid}
           T == {i \in {j \in Bufs : buf'[j].blockno = k} : buf'[i].valid}
<1>1. S = T
  OBVIOUS
<1>2. /\ ContentOf(buf, disk, k) = IF S = {} THEN disk[k] ELSE buf[CHOOSE i \in S : TRUE].data
      /\ ContentOf(buf', disk', k) = IF T = {} THEN disk'[k] ELSE buf'[CHOOSE i \in T : TRUE].data
  BY DEF ContentOf
<1>3. S # {} => (CHOOSE i \in S : TRUE) \in Bufs
  OBVIOUS
<1> HIDE DEF S, T
<1>4. ContentOf(buf', disk', k) = ContentOf(buf, disk, k)
  BY <1>1, <1>2, <1>3
<1> QED  BY <1>4, ContentNow

\* Recycling a clean buffer loses nothing: its block is on disk as it was.
LEMMA RecycleContent ==
  ASSUME BioInv, NEW k \in Blocks, NEW i \in Recyclable, Cached(k) = {}, disk' = disk,
         \A j \in Bufs : j # i => buf'[j] = buf[j],
         buf'[i].blockno = k, ~buf'[i].valid
  PROVE  \A c \in Blocks : Content(c)' = Content(c)
<1> TAKE c \in Blocks
<1>1. i \in Bufs /\ ~buf[i].dirty /\ CacheInv /\ None \notin Blocks
  BY BioAssumption DEF Recyclable, BioInv
<1>2. \A j \in Bufs : buf[j].blockno # k
  BY DEF Cached
<1>3. CASE c = k
  <2>1. ContentOf(buf, disk, c) = disk[c]
    BY <1>2, <1>3, ContentFound
  <2>2. \A j \in Bufs : buf'[j].blockno = c => ~buf'[j].valid
    BY <1>1, <1>2, <1>3
  <2>3. ContentOf(buf', disk', c) = disk[c]
    BY <2>2, ContentFound
  <2> QED  BY <2>1, <2>3, ContentNow
<1>4. CASE c # k /\ buf[i].blockno = c
  <2>1. \A j \in Bufs : buf[j].blockno = c => j = i
    BY <1>1, <1>4 DEF CacheInv
  <2>2. ContentOf(buf, disk, c) = disk[c]
    <3>1. CASE buf[i].valid
      BY <1>1, <1>4, <2>1, <3>1, ContentFound DEF CacheInv
    <3>2. CASE ~buf[i].valid
      BY <2>1, <3>2, ContentFound
    <3> QED  BY <3>1, <3>2
  <2>3. \A j \in Bufs : buf'[j].blockno # c
    BY <1>4, <2>1
  <2>4. ContentOf(buf', disk', c) = disk[c]
    BY <2>3, ContentFound
  <2> QED  BY <2>2, <2>4, ContentNow
<1>5. CASE c # k /\ buf[i].blockno # c
  <2>1. CASE \A j \in Bufs : buf[j].blockno = c => ~buf[j].valid
    <3>1. \A j \in Bufs : buf'[j].blockno = c => ~buf'[j].valid
      BY <1>5, <2>1
    <3> QED  BY <2>1, <3>1, ContentFound, ContentNow
  <2>2. ASSUME NEW j \in Bufs, buf[j].blockno = c, buf[j].valid PROVE Content(c)' = Content(c)
    <3>1. \A l \in Bufs : buf[l].blockno = c => l = j
      BY <1>1, <2>2 DEF CacheInv
    <3>2. buf'[j] = buf[j] /\ \A l \in Bufs : buf'[l].blockno = c => l = j
      BY <1>5, <2>2, <3>1
    <3>3. ContentOf(buf, disk, c) = buf[j].data /\ ContentOf(buf', disk', c) = buf[j].data
      BY <2>2, <3>1, <3>2, ContentFound
    <3> QED  BY <3>3, ContentNow
  <2> QED  BY <2>1, <2>2
<1> QED  BY <1>3, <1>4, <1>5

\* The contents after a step that changes one buffer, whose block is then in
\* that buffer, valid.
LEMMA OneContent ==
  ASSUME BioInv, NEW i \in Bufs, NEW k \in Blocks, buf[i].blockno = k,
         \A j \in Bufs : j # i => buf'[j] = buf[j],
         buf'[i].blockno = k, buf'[i].valid,
         \A c \in Blocks : c # k => disk'[c] = disk[c]
  PROVE  /\ Content(k)' = buf'[i].data
         /\ buf[i].valid => Content(k) = buf[i].data
         /\ ~buf[i].valid => Content(k) = disk[k]
         /\ \A c \in Blocks : c # k => Content(c)' = Content(c)
<1>1. CacheInv /\ None \notin Blocks
  BY BioAssumption DEF BioInv
<1>2. \A j \in Bufs : buf[j].blockno = k => j = i
  BY <1>1 DEF CacheInv
<1>3. \A j \in Bufs : buf'[j].blockno = k => j = i
  BY <1>2
<1>4. /\ ContentOf(buf', disk', k) = buf'[i].data
      /\ buf[i].valid => ContentOf(buf, disk, k) = buf[i].data
      /\ ~buf[i].valid => ContentOf(buf, disk, k) = disk[k]
  BY <1>2, <1>3, ContentFound
<1>5. ASSUME NEW c \in Blocks, c # k PROVE Content(c)' = Content(c)
  <2>1. CASE \A j \in Bufs : buf[j].blockno = c => ~buf[j].valid
    <3>1. \A j \in Bufs : buf'[j].blockno = c => ~buf'[j].valid
      BY <1>5, <2>1
    <3> QED  BY <1>5, <2>1, <3>1, ContentFound, ContentNow
  <2>2. ASSUME NEW j \in Bufs, buf[j].blockno = c, buf[j].valid PROVE Content(c)' = Content(c)
    <3>1. \A l \in Bufs : buf[l].blockno = c => l = j
      BY <1>1, <2>2 DEF CacheInv
    <3>2. buf'[j] = buf[j] /\ \A l \in Bufs : buf'[l].blockno = c => l = j
      BY <1>5, <2>2, <3>1
    <3>3. ContentOf(buf, disk, c) = buf[j].data /\ ContentOf(buf', disk', c) = buf[j].data
      BY <2>2, <3>1, <3>2, ContentFound
    <3> QED  BY <3>3, ContentNow
  <2> QED  BY <2>1, <2>2
<1> QED  BY <1>4, <1>5, ContentNow

\* At most one thread owns a block, and it has the block's buffer.
LEMMA OwnersAre ==
  ASSUME BioInv, NEW t \in Threads, Holds(t)
  PROVE  want[t] \in Blocks /\ Owners(want[t]) = {t}
<1>1. want[t] \in Blocks /\ b[t] \in Bufs /\ buf[b[t]].blockno = want[t] /\ None \notin Blocks
  BY BioAssumption DEF BioInv, PlaceInv, Holds
<1>2. ASSUME NEW u \in Threads, want[u] = want[t], Holds(u) PROVE u = t
  <2>1. b[u] \in Bufs /\ buf[b[u]].blockno = want[u]
    BY <1>2 DEF BioInv, PlaceInv, Holds
  <2>2. b[u] = b[t]
    BY <1>1, <1>2, <2>1 DEF BioInv, CacheInv
  <2>3. lockedBy[b[t]] = t /\ lockedBy[b[t]] = u
    BY <1>1, <1>2, <2>1, <2>2 DEF BioInv, LockInv
  <2> QED  BY <2>3
<1> QED  BY <1>1, <1>2 DEF Owners, Holds

\* Nobody owns a block whose buffer is not locked.
LEMMA NoOwner ==
  ASSUME BioInv, NEW t \in Threads, th[t] = "acquiresleep", lockedBy[b[t]] = None
  PROVE  want[t] \in Blocks /\ Owners(want[t]) = {}
<1>1. want[t] \in Blocks /\ b[t] \in Bufs /\ buf[b[t]].blockno = want[t]
  BY DEF BioInv, PlaceInv
<1>2. None \notin Blocks /\ None \notin Threads
  BY BioAssumption
<1>3. ASSUME NEW u \in Threads, want[u] = want[t], Holds(u) PROVE FALSE
  <2>1. b[u] \in Bufs /\ buf[b[u]].blockno = want[u]
    BY <1>3 DEF BioInv, PlaceInv, Holds
  <2>2. b[u] = b[t]
    BY <1>1, <1>2, <1>3, <2>1 DEF BioInv, CacheInv
  <2>3. lockedBy[b[t]] = u
    BY <1>1, <1>3, <2>1, <2>2 DEF BioInv, LockInv
  <2> QED  BY <1>2, <2>3
<1> QED  BY <1>1, <1>3 DEF Owners, Holds

\* A step that changes no content and no owner is a stutter of BlockStore.
LEMMA StoreStutter ==
  ASSUME \A k \in Blocks : Content(k)' = Content(k),
         \A t \in Threads : /\ Holds(t)' <=> Holds(t)
                            /\ Holds(t) => want'[t] = want[t]
  PROVE  UNCHANGED Store!storeVars
<1>1. \A k \in Blocks : Owners(k)' = Owners(k)
  BY DEF Owners, Holds
<1> QED  BY <1>1 DEF Store!storeVars

\* The cache starts as a store with the contents of the disk.
LEMMA InitStore == BioInit => Store!SInit
<1> SUFFICES ASSUME BioInit PROVE Store!SInit
  OBVIOUS
<1>1. \A k \in Blocks : Content(k) \in Values
  <2>1. \A i \in Bufs : ~buf[i].valid
    BY DEF BioInit
  <2>2. \A k \in Blocks : disk[k] \in Values
    BY DEF BioInit
  <2>3. \A k \in Blocks : ContentOf(buf, disk, k) = disk[k]
    BY <2>1, ContentFound
  <2> QED  BY <2>2, <2>3, ContentNow
<1>2. \A k \in Blocks : Owners(k) = {}
  BY DEF BioInit, Owners
<1> QED  BY <1>1, <1>2 DEF Store!SInit

\* acquiresleep() takes the block, if its buffer is free.
LEMMA AcquireStore ==
  ASSUME BioInv, NEW t \in Threads, acquiresleep(t) PROVE [Store!SNext]_(Store!storeVars)
<1>1. /\ th[t] = "acquiresleep" /\ th \in [Threads -> Places]
      /\ UNCHANGED <<buf, disk, want>>
      /\ \A u \in Threads : u # t => th'[u] = th[u]
      /\ th'[t] = IF lockedBy[b[t]] # None THEN "sleeplock" ELSE "bread"
  BY DEF acquiresleep, BioInv, BioTypeOK
<1>2. \A k \in Blocks : Content(k)' = Content(k)
  BY <1>1, SameContent
<1>3. CASE lockedBy[b[t]] # None
  <2>1. \A u \in Threads : Holds(u)' <=> Holds(u)
    BY <1>1, <1>3 DEF Holds
  <2> QED  BY <1>1, <1>2, <2>1, StoreStutter
<1>4. CASE lockedBy[b[t]] = None
  <2>1. want[t] \in Blocks /\ Owners(want[t]) = {}
    BY <1>1, <1>4, NoOwner
  <2>2. \A k \in Blocks : Owners(k)' = IF k = want[t] THEN {t} ELSE Owners(k)
    BY <1>1, <1>4, <2>1 DEF Owners
  <2>3. Store!SAcquire(t, want[t])
    BY <1>2, <2>1, <2>2 DEF Store!SAcquire
  <2> QED  BY <2>1, <2>3 DEF Store!SNext
<1> QED  BY <1>3, <1>4

\* releasesleep() gives it back.
LEMMA ReleaseStore ==
  ASSUME BioInv, NEW t \in Threads, releasesleep(t) PROVE [Store!SNext]_(Store!storeVars)
<1>1. /\ th[t] = "have" /\ Holds(t) /\ UNCHANGED <<buf, disk, want>>
      /\ \A u \in Threads : th'[u] = IF u = t THEN "brelse"
                                     ELSE IF th[u] = "sleeplock" /\ b[u] = b[t] THEN "acquiresleep"
                                     ELSE th[u]
  BY DEF releasesleep, Wakeup, Holds
<1>2. \A k \in Blocks : Content(k)' = Content(k)
  BY <1>1, SameContent
<1>3. want[t] \in Blocks /\ Owners(want[t]) = {t}
  BY <1>1, OwnersAre
<1>4. \A k \in Blocks : Owners(k)' = IF k = want[t] THEN {} ELSE Owners(k)
  <2>1. \A u \in Threads : Holds(u)' <=> Holds(u) /\ u # t
    BY <1>1 DEF Holds
  <2>2. \A k \in Blocks : Owners(k)' = Owners(k) \ {t}
    BY <1>1, <2>1 DEF Owners, Holds
  <2>3. \A k \in Blocks : k # want[t] => t \notin Owners(k)
    BY DEF Owners
  <2> QED  BY <1>3, <2>2, <2>3
<1>5. Store!SRelease(t, want[t])
  BY <1>2, <1>3, <1>4 DEF Store!SRelease
<1> QED  BY <1>3, <1>5 DEF Store!SNext

\* log_write() and bwrite() change the content of the caller's block.
LEMMA WriteStore ==
  ASSUME BioInv, NEW t \in Threads, NEW v \in Values, log_write(t, v) \/ bwrite(t, v)
  PROVE  [Store!SNext]_(Store!storeVars)
<1>1. /\ th[t] = "have" /\ Holds(t) /\ UNCHANGED <<disk, want, b>>
      /\ buf' = Changed(buf, b[t], v)
  BY DEF log_write, bwrite, Changed, Holds
<1>2. \A u \in Threads : Holds(u)' <=> Holds(u)
  <2>1. th \in [Threads -> Places]
    BY DEF BioInv, BioTypeOK
  <2>2. th' = th \/ th' = [th EXCEPT ![t] = "sleepide"]
    BY DEF log_write, bwrite, iderw
  <2> QED  BY <1>1, <2>1, <2>2 DEF Holds
<1>3. want[t] \in Blocks /\ Owners(want[t]) = {t}
  BY <1>1, OwnersAre
<1>4. /\ b[t] \in Bufs /\ buf \in [Bufs -> BufType] /\ buf[b[t]].blockno = want[t]
      /\ buf[b[t]].valid
  BY <1>1 DEF BioInv, PlaceInv, LockInv, BioTypeOK, BufType
<1>5. /\ \A j \in Bufs : j # b[t] => buf'[j] = buf[j]
      /\ buf'[b[t]].blockno = want[t] /\ buf'[b[t]].valid /\ buf'[b[t]].data = v
  <2>1. /\ \A j \in Bufs : j # b[t] => buf'[j] = buf[j]
        /\ buf'[b[t]].blockno = buf[b[t]].blockno
        /\ buf'[b[t]].data = v /\ (buf'[b[t]].valid <=> buf[b[t]].valid)
    BY ONLY <1>1, <1>4, WrittenFields, v \in Values
  <2> QED  BY ONLY <1>4, <2>1
<1>6. /\ Content(want[t])' = v
      /\ \A c \in Blocks : c # want[t] => Content(c)' = Content(c)
  <2>1. PICK k \in Blocks : k = want[t]
    BY <1>3
  <2>2. /\ Content(k)' = v
        /\ \A c \in Blocks : c # k => Content(c)' = Content(c)
    BY <1>1, <1>4, <1>5, <2>1, OneContent
  <2> QED  BY <1>1, <2>1, <2>2
<1>7. \A k \in Blocks : Owners(k)' = Owners(k)
  BY <1>1, <1>2 DEF Owners, Holds
<1>8. Store!SWrite(t, want[t], v)
  <2>1. PICK k \in Blocks : k = want[t]
    BY <1>3
  <2>2. \A c \in Blocks : Content(c)' = IF c = k THEN v ELSE Content(c)
    BY <1>1, <1>6, <2>1
  <2>3. Store!SWrite(t, k, v)
    BY <1>3, <1>7, <2>1, <2>2 DEF Store!SWrite
  <2> QED  BY <2>1, <2>3
<1> QED  BY <1>3, <1>8 DEF Store!SNext

\* The disk changes no content: it writes what is in the buffer, or reads into
\* the buffer what was the block's content all along.
LEMMA IntrStore == ASSUME BioInv, ideintr PROVE UNCHANGED Store!storeVars
<1>1. PICK t \in Threads :
           /\ th[t] = "sleepide" /\ b[t] = Head(idequeue) /\ b[t] \in Bufs
           /\ want[t] \in Blocks /\ buf[b[t]].blockno = want[t]
           /\ th' = [th EXCEPT ![t] = "have"]
  BY ServedRequest
<1>2. buf \in [Bufs -> BufType] /\ disk \in [Blocks -> Values] /\ th \in [Threads -> Places]
  BY DEF BioInv, BioTypeOK, BufType
<1>3. \A u \in Threads : /\ Holds(u)' <=> Holds(u)
                         /\ want'[u] = want[u]
  BY <1>1, <1>2 DEF Holds, ideintr
<1>4. PICK i \in Bufs, k \in Blocks : i = b[t] /\ k = want[t]
  BY <1>1
<1>5. CASE buf[i].dirty
  <2>1. buf' = WrittenBack(buf, i) /\ disk' = [disk EXCEPT ![k] = buf[i].data]
    BY <1>1, <1>4, <1>5 DEF ideintr, WrittenBack
  <2>2. /\ \A j \in Bufs : j # i => buf'[j] = buf[j]
        /\ buf'[i].blockno = buf[i].blockno /\ buf'[i].data = buf[i].data /\ buf'[i].valid
    BY ONLY <1>2, <1>4, <2>1, ServedWrite
  <2>3. \A c \in Blocks : c # k => disk'[c] = disk[c]
    BY <1>2, <2>1
  <2>4. buf[i].blockno = k /\ buf[i].valid
    BY <1>1, <1>4, <1>5 DEF BioInv, CacheInv
  <2>5. \A c \in Blocks : Content(c)' = Content(c)
    BY ONLY BioInv, i \in Bufs, k \in Blocks, <2>2, <2>3, <2>4, OneContent
  <2> QED  BY <1>3, <2>5, StoreStutter
<1>6. CASE ~buf[i].dirty
  <2>1. buf' = ReadIn(buf, i, disk[k]) /\ disk' = disk /\ disk[k] \in Values
    BY <1>1, <1>2, <1>4, <1>6 DEF ideintr, ReadIn
  <2>2. /\ \A j \in Bufs : j # i => buf'[j] = buf[j]
        /\ buf'[i].blockno = buf[i].blockno /\ buf'[i].data = disk[k] /\ buf'[i].valid
    BY ONLY <1>2, <1>4, <1>6, <2>1, ServedRead
  <2>3. buf[i].blockno = k /\ (buf[i].valid => buf[i].data = disk[k])
    BY <1>1, <1>4, <1>6 DEF BioInv, CacheInv
  <2>4. \A c \in Blocks : Content(c)' = Content(c)
    BY ONLY BioInv, i \in Bufs, k \in Blocks, <2>1, <2>2, <2>3, OneContent
  <2> QED  BY <1>3, <2>4, StoreStutter
<1> QED  BY <1>5, <1>6

\* bget(), bread() and brelse() change no content and no owner.
LEMMA BgetStore ==
  ASSUME BioInv, NEW t \in Threads, NEW k \in Blocks, bget(t, k) PROVE UNCHANGED Store!storeVars
<1>1. /\ th[t] = "idle" /\ disk' = disk /\ want' = [want EXCEPT ![t] = k]
      /\ th' = [th EXCEPT ![t] = "acquiresleep"] \/ th' = [th EXCEPT ![t] = "panic"]
  BY DEF bget
<1>2. /\ th \in [Threads -> Places] /\ want \in [Threads -> Blocks \cup {None}]
      /\ buf \in [Bufs -> BufType] /\ BioTypeOK
  BY DEF BioInv, BioTypeOK, BufType
<1>3. \A u \in Threads : /\ Holds(u)' <=> Holds(u)
                         /\ Holds(u) => want'[u] = want[u]
  BY <1>1, <1>2 DEF Holds
<1>4. ASSUME NEW i \in Cached(k), buf' = [buf EXCEPT ![i].refcnt = @ + 1]
      PROVE  \A c \in Blocks : Content(c)' = Content(c)
  <2>1. i \in Bufs /\ buf[i] \in BufType
    BY <1>2 DEF Cached
  <2>2. \A j \in Bufs : /\ buf'[j].blockno = buf[j].blockno /\ buf'[j].data = buf[j].data
                        /\ buf'[j].valid <=> buf[j].valid
    BY <1>2, <1>4, <2>1 DEF BufType
  <2> QED  BY <1>1, <2>2, SameContent
<1>5. ASSUME Cached(k) = {}, Recyclable # {},
             NEW i, i = LeastRecent(Recyclable),
             buf' = [buf EXCEPT ![i] = [@ EXCEPT !.blockno = k, !.valid = FALSE, !.dirty = FALSE,
                                                 !.refcnt = 1]]
      PROVE  \A c \in Blocks : Content(c)' = Content(c)
  <2>1. i \in Recyclable
    BY <1>2, <1>5, LeastRecentFound DEF Recyclable
  <2>2. i \in Bufs
    BY <2>1 DEF Recyclable
  <2>3. /\ \A j \in Bufs : j # i => buf'[j] = buf[j]
        /\ buf'[i].blockno = k /\ ~buf'[i].valid
    BY <1>2, <1>5, <2>2 DEF BufType
  <2> QED  BY ONLY <1>1, <1>5, <2>1, <2>3, RecycleContent, BioInv, k \in Blocks
<1>6. ASSUME buf' = buf PROVE \A c \in Blocks : Content(c)' = Content(c)
  BY <1>1, <1>6, SameContent
<1>7. \A c \in Blocks : Content(c)' = Content(c)
  BY Zenon, <1>4, <1>5, <1>6 DEF bget
<1> QED  BY <1>3, <1>7, StoreStutter

\* The rest of bread() and brelse() neither.
LEMMA BreadStore ==
  ASSUME BioInv, NEW t \in Threads, bread(t) \/ brelse(t) PROVE UNCHANGED Store!storeVars
<1>1. /\ th \in [Threads -> Places] /\ want \in [Threads -> Blocks \cup {None}]
      /\ buf \in [Bufs -> BufType]
  BY DEF BioInv, BioTypeOK, BufType
<1>2. CASE bread(t)
  <2>1. /\ UNCHANGED <<buf, disk, want>> /\ th[t] = "bread"
        /\ th' = [th EXCEPT ![t] = "have"] \/ th' = [th EXCEPT ![t] = "sleepide"]
    BY <1>2 DEF bread, iderw
  <2>2. \A c \in Blocks : Content(c)' = Content(c)
    BY <2>1, SameContent
  <2>3. \A u \in Threads : Holds(u)' <=> Holds(u)
    BY <1>1, <2>1 DEF Holds
  <2> QED  BY <2>1, <2>2, <2>3, StoreStutter
<1>3. CASE brelse(t)
  <2>1. /\ disk' = disk /\ th[t] = "brelse" /\ th' = [th EXCEPT ![t] = "idle"]
        /\ want' = [want EXCEPT ![t] = None] /\ b[t] \in Bufs
        /\ buf' = [buf EXCEPT ![b[t]].refcnt = @ - 1]
    BY <1>3 DEF brelse, BioInv, PlaceInv
  <2>2. \A j \in Bufs : /\ buf'[j].blockno = buf[j].blockno /\ buf'[j].data = buf[j].data
                        /\ buf'[j].valid <=> buf[j].valid
    BY <1>1, <2>1 DEF BufType
  <2>3. \A c \in Blocks : Content(c)' = Content(c)
    BY <2>1, <2>2, SameContent
  <2>4. \A u \in Threads : /\ Holds(u)' <=> Holds(u)
                           /\ Holds(u) => want'[u] = want[u]
    BY <1>1, <2>1 DEF Holds
  <2> QED  BY <2>3, <2>4, StoreStutter
<1> QED  BY <1>2, <1>3

\* Every step of the cache and the driver is a step of BlockStore or a stutter.
LEMMA NextStore == BioInv /\ [BioNext]_bioVars => [Store!SNext]_(Store!storeVars)
<1> SUFFICES ASSUME BioInv, [BioNext]_bioVars PROVE [Store!SNext]_(Store!storeVars)
  OBVIOUS
<1>1. CASE UNCHANGED bioVars
  <2>1. /\ \A k \in Blocks : Content(k)' = Content(k)
        /\ \A u \in Threads : (Holds(u)' <=> Holds(u)) /\ want'[u] = want[u]
    BY <1>1, SameContent DEF bioVars, Holds
  <2> QED  BY <2>1, StoreStutter
<1>2. ASSUME NEW t \in Threads, NEW k \in Blocks, bget(t, k) PROVE [Store!SNext]_(Store!storeVars)
  BY <1>2, BgetStore
<1>3. ASSUME NEW t \in Threads, acquiresleep(t) \/ bread(t) \/ releasesleep(t) \/ brelse(t)
      PROVE  [Store!SNext]_(Store!storeVars)
  BY <1>3, AcquireStore, BreadStore, ReleaseStore
<1>4. ASSUME NEW t \in Threads, NEW v \in Values, log_write(t, v) \/ bwrite(t, v)
      PROVE  [Store!SNext]_(Store!storeVars)
  BY <1>4, WriteStore
<1>5. CASE ideintr
  BY <1>5, IntrStore
<1> QED  BY <1>1, <1>2, <1>3, <1>4, <1>5 DEF BioNext

-----------------------------------------------------------------------------
(***************************************************************************)
(* A thread asleep in acquiresleep() or iderw() always has somebody, or    *)
(* the disk, to wake it up, for any number of threads, blocks and buffers. *)
(***************************************************************************)
THEOREM SleepersAlwaysAwaited == BioSpec => []SleepersAwaited
<1>1. BioInv => SleepersAwaited
  BY DEF BioInv
<1> QED  BY <1>1, InitBioInv, NextBioInv, PTL DEF BioSpec

(***************************************************************************)
(* The cache implements BlockStore, for any number of threads, blocks and  *)
(* buffers: bread() ... brelse() gives one thread at a time the latest     *)
(* contents of a block, whatever is recycled, read and written meanwhile.  *)
(***************************************************************************)
THEOREM CacheImplementsStore == BioSpec => OneCopyPerBlock
<1> QED  BY InitBioInv, NextBioInv, InitStore, NextStore, PTL
         DEF BioSpec, OneCopyPerBlock, Store!SSpec
=============================================================================
