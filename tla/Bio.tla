-------------------------------- MODULE Bio --------------------------------
(***************************************************************************)
(* The buffer cache (bio.c), its sleep locks (sleeplock.c) and the IDE     *)
(* driver with its request queue (ide.c).                                  *)
(*                                                                         *)
(* A thread executes bread(b), then any number of changes, log_write()s    *)
(* and bwrite()s of the buffer it has locked, then brelse().  A critical   *)
(* section of bcache.lock, of a sleep lock's spinlock or of idelock is one *)
(* step; a thread can be anywhere between two of them.                     *)
(***************************************************************************)
EXTENDS Integers, Sequences, Functions

CONSTANTS
  Threads, Blocks, Values, None,
  NBUF

Bufs == 1..NBUF

ASSUME BioAssumption ==
  NBUF \in Nat \ {0} /\ None \notin Threads \cup Blocks \cup Values \cup Bufs

VARIABLES
  buf,        \* buf[i]: blockno, flags valid and dirty, refcnt and data
  mru,        \* the list bcache.head.next ...: most recently used first
  lockedBy,   \* the thread that has buf[i].lock, or None
  idequeue,   \* buffers with a request, the one being served first
  command,    \* the disk has a command that it has not completed
  disk,
  th,         \* where a thread is
  want, b     \* the block it asked bread() for, the buffer it has got

bioVars == <<buf, mru, lockedBy, idequeue, command, disk, th, want, b>>

Places == {"idle", "acquiresleep", "sleeplock", "bread", "sleepide", "have", "brelse", "panic"}

BioTypeOK ==
  /\ buf \in [Bufs -> [blockno : Blocks \cup {None}, valid : BOOLEAN, dirty : BOOLEAN,
                       refcnt : Nat, data : Values \cup {None}]]
  /\ mru \in Seq(Bufs) /\ Range(mru) = Bufs /\ Len(mru) = NBUF
  /\ lockedBy \in [Bufs -> Threads \cup {None}]
  /\ idequeue \in Seq(Bufs) /\ command \in BOOLEAN
  /\ disk \in [Blocks -> Values]
  /\ th \in [Threads -> Places]
  /\ want \in [Threads -> Blocks \cup {None}]
  /\ b \in [Threads -> Bufs \cup {None}]

BioInit ==
  /\ buf = [i \in Bufs |-> [blockno |-> None, valid |-> FALSE, dirty |-> FALSE,
                            refcnt |-> 0, data |-> None]]
  /\ mru = [i \in Bufs |-> NBUF + 1 - i]
  /\ lockedBy = [i \in Bufs |-> None]
  /\ idequeue = <<>> /\ command = FALSE
  /\ \E v \in Values : disk = [k \in Blocks |-> v]
  /\ th = [t \in Threads |-> "idle"]
  /\ want = [t \in Threads |-> None] /\ b = [t \in Threads |-> None]

-----------------------------------------------------------------------------
\* Mutants of the operations below.
RecyclableDirty == {i \in Bufs : buf[i].refcnt = 0}
iderwNotStarted(t) ==
  /\ idequeue' = Append(idequeue, b[t])
  /\ command' = command
  /\ th' = [th EXCEPT ![t] = "sleepide"]
iderwFirst(t) ==
  /\ idequeue' = <<b[t]>> \o idequeue
  /\ command' = TRUE
  /\ th' = [th EXCEPT ![t] = "sleepide"]

Cached(k) == {i \in Bufs : buf[i].blockno = k}
Recyclable == {i \in Bufs : buf[i].refcnt = 0 /\ ~buf[i].dirty}

\* The recycled buffer is the least recently used one that is free and clean.
LeastRecent(S) == mru[CHOOSE n \in 1..NBUF : mru[n] \in S /\ \A m \in n + 1..NBUF : mru[m] \notin S]

\* bget(k), up to the release of bcache.lock.
bget(t, k) ==
  /\ th[t] = "idle"
  /\ want' = [want EXCEPT ![t] = k]
  /\ \/ \E i \in Cached(k) :
          /\ b' = [b EXCEPT ![t] = i]
          /\ buf' = [buf EXCEPT ![i].refcnt = @ + 1]
          /\ th' = [th EXCEPT ![t] = "acquiresleep"]
     \/ /\ Cached(k) = {} /\ Recyclable # {}
        /\ LET i == LeastRecent(Recyclable) IN
           /\ b' = [b EXCEPT ![t] = i]
           /\ buf' = [buf EXCEPT ![i] = [@ EXCEPT !.blockno = k, !.valid = FALSE, !.dirty = FALSE,
                                                  !.refcnt = 1]]
        /\ th' = [th EXCEPT ![t] = "acquiresleep"]
     \/ /\ Cached(k) = {} /\ Recyclable = {}       \* panic("bget: no buffers")
        /\ th' = [th EXCEPT ![t] = "panic"]
        /\ UNCHANGED <<buf, b>>
  /\ UNCHANGED <<mru, lockedBy, idequeue, command, disk>>

\* A round of the loop of acquiresleep().
acquiresleep(t) ==
  /\ th[t] = "acquiresleep"
  /\ IF lockedBy[b[t]] # None
     THEN th' = [th EXCEPT ![t] = "sleeplock"] /\ UNCHANGED lockedBy
     ELSE /\ lockedBy' = [lockedBy EXCEPT ![b[t]] = t]
          /\ th' = [th EXCEPT ![t] = "bread"]
  /\ UNCHANGED <<buf, mru, idequeue, command, disk, want, b>>

\* Threads asleep in place on buffer i go on at next: wakeup().
Wakeup(places, i, place, next) ==
  [t \in Threads |-> IF places[t] = place /\ b[t] = i THEN next ELSE places[t]]

\* iderw(): queue the buffer, start the disk if it is alone in the queue, and
\* wait for the interrupt.
iderw(t) ==
  /\ idequeue' = Append(idequeue, b[t])
  /\ command' = (command \/ idequeue = <<>>)
  /\ th' = [th EXCEPT ![t] = "sleepide"]

\* bread() with the buffer locked: read it unless it is valid.
bread(t) ==
  /\ th[t] = "bread"
  /\ IF buf[b[t]].valid
     THEN th' = [th EXCEPT ![t] = "have"] /\ UNCHANGED <<idequeue, command>>
     ELSE iderw(t)
  /\ UNCHANGED <<buf, mru, lockedBy, disk, want, b>>

\* ideintr(): the request of the first buffer of the queue is done; start the
\* disk on the next one.
ideintr ==
  /\ command
  /\ LET i == Head(idequeue) IN
     /\ IF buf[i].dirty
        THEN /\ disk' = [disk EXCEPT ![buf[i].blockno] = buf[i].data]
             /\ buf' = [buf EXCEPT ![i].dirty = FALSE, ![i].valid = TRUE]
        ELSE /\ buf' = [buf EXCEPT ![i].data = disk[buf[i].blockno], ![i].valid = TRUE]
             /\ UNCHANGED disk
     /\ th' = Wakeup(th, i, "sleepide", "have")
  /\ idequeue' = Tail(idequeue)
  /\ command' = (idequeue' # <<>>)
  /\ UNCHANGED <<mru, lockedBy, want, b>>

\* The owner changes the data and calls log_write(), which pins the buffer.
log_write(t, v) ==
  /\ th[t] = "have"
  /\ buf' = [buf EXCEPT ![b[t]].data = v, ![b[t]].dirty = TRUE]
  /\ UNCHANGED <<mru, lockedBy, idequeue, command, disk, th, want, b>>

\* The owner changes the data and calls bwrite(), as the log does.
bwrite(t, v) ==
  /\ th[t] = "have"
  /\ buf' = [buf EXCEPT ![b[t]].data = v, ![b[t]].dirty = TRUE]
  /\ iderw(t)
  /\ UNCHANGED <<mru, lockedBy, disk, want, b>>

\* releasesleep(), the first half of brelse().
releasesleep(t) ==
  /\ th[t] = "have"
  /\ lockedBy' = [lockedBy EXCEPT ![b[t]] = None]
  /\ th' = [Wakeup(th, b[t], "sleeplock", "acquiresleep") EXCEPT ![t] = "brelse"]
  /\ UNCHANGED <<buf, mru, idequeue, command, disk, want, b>>

\* The list with buffer i moved to its head.
MoveToHead(i) ==
  LET n == CHOOSE n \in 1..NBUF : mru[n] = i
  IN  <<i>> \o (SubSeq(mru, 1, n - 1) \o SubSeq(mru, n + 1, NBUF))

\* The second half, under bcache.lock.
brelse(t) ==
  LET i == b[t] IN
  /\ th[t] = "brelse"
  /\ buf' = [buf EXCEPT ![i].refcnt = @ - 1]
  /\ mru' = IF buf[i].refcnt = 1 THEN MoveToHead(i) ELSE mru
  /\ th' = [th EXCEPT ![t] = "idle"]
  /\ want' = [want EXCEPT ![t] = None] /\ b' = [b EXCEPT ![t] = None]
  /\ UNCHANGED <<lockedBy, idequeue, command, disk>>

Halted == \E t \in Threads : th[t] = "panic"

BioNext ==
  \/ /\ ~Halted
     /\ \/ ideintr
        \/ \E t \in Threads :
             \/ \E k \in Blocks : bget(t, k)
             \/ acquiresleep(t) \/ bread(t) \/ releasesleep(t) \/ brelse(t)
             \/ \E v \in Values : log_write(t, v) \/ bwrite(t, v)
  \/ Halted /\ UNCHANGED bioVars

BioSpec == BioInit /\ [][BioNext]_bioVars

\* The disk answers every command with an interrupt, which ideintr() serves:
\* interrupts are on whenever idelock is free.
FairBioSpec == BioSpec /\ WF_bioVars(ideintr)

-----------------------------------------------------------------------------
\* What the cache promises: a store of blocks, each with an exclusive owner
\* between bread() and brelse().
Content(k) ==
  LET S == {i \in Cached(k) : buf[i].valid}
  IN  IF S = {} THEN disk[k] ELSE buf[CHOOSE i \in S : TRUE].data

Owners(k) == {t \in Threads : want[t] = k /\ th[t] \in {"bread", "sleepide", "have"}}

Store == INSTANCE BlockStore WITH
  content <- [k \in Blocks |-> Content(k)],
  owners <- [k \in Blocks |-> Owners(k)]

(***************************************************************************)
(* bread() ... brelse() gives one thread at a time the latest contents of  *)
(* the block it asked for, whatever buffers are recycled, read and written *)
(* back meanwhile: the cache of bio.c implements BlockStore.  Recycling a  *)
(* buffer that somebody waits for (refcnt dropped too early), that is      *)
(* dirty, or caching a block twice would each break it.                    *)
(***************************************************************************)
OneCopyPerBlock == Store!SSpec

(***************************************************************************)
(* A thread that sleeps on a buffer's lock in acquiresleep() has somebody  *)
(* to wake it up, and one that sleeps in iderw() has its buffer in         *)
(* idequeue with the disk at work: no wakeup() is missed between the test  *)
(* and the sleep, and no request is left behind by idestart().             *)
(***************************************************************************)
SleepersAwaited ==
  BioTypeOK /\ \A t \in Threads :
    /\ th[t] = "sleeplock" => lockedBy[b[t]] # None
    /\ th[t] = "sleepide" => command /\ b[t] \in Range(idequeue)

(***************************************************************************)
(* Every request of iderw() is eventually completed, whatever requests are *)
(* queued meanwhile: idequeue is served in order.                          *)
(***************************************************************************)
IoCompletes == \A t \in Threads : th[t] = "sleepide" ~> th[t] = "have" \/ Halted
=============================================================================
