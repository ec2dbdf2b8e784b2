--------------------------------- MODULE Fs ---------------------------------
(***************************************************************************)
(* Blocks, i-nodes, their content and directories: fs.c.                   *)
(*                                                                         *)
(* Every function of fs.c is an operator on the record s of what the file  *)
(* system keeps: the i-nodes on the disk (dinode), the free map (used),    *)
(* the blocks (data), the i-node cache (icache) and the message of a panic *)
(* (panic, "no" while there is none).  The disk is the one that log.c      *)
(* shows to the operations, see module AtomicDisk.                         *)
(*                                                                         *)
(* Offsets and sizes count slots.  A slot is a directory entry, an address *)
(* in an indirect block or a piece of a file: a number and a name.         *)
(***************************************************************************)
EXTENDS Integers, SequencesExt, FiniteSetsExt

CONSTANTS
  FSSIZE, NMETA,      \* blocks, and those before the data blocks
  BSIZE,              \* slots of a block
  NDIRECT,
  NINODES,            \* i-nodes of the disk, 0 included
  NINODE              \* entries of the i-node cache

ASSUME FsAssumption ==
  /\ {FSSIZE, NMETA, BSIZE, NDIRECT, NINODES, NINODE} \subseteq Nat \ {0}
  /\ NMETA < FSSIZE /\ NINODES > 1

ROOTINO == 1
NINDIRECT == BSIZE
MAXFILE == NDIRECT + NINDIRECT

Inodes == 1..NINODES - 1
Blocks == NMETA..FSSIZE - 1
Zero == [n |-> 0, name |-> ""]
ZeroBlock == [o \in 0..BSIZE - 1 |-> Zero]
NoAddrs == [bn \in 0..NDIRECT |-> 0]
FreeInode == [type |-> "none", nlink |-> 0, size |-> 0, addrs |-> NoAddrs]
NotCached == [ref |-> 0, valid |-> FALSE, d |-> FreeInode]

panic(s, message) == IF s.panic = "no" THEN [s EXCEPT !.panic = message] ELSE s

-----------------------------------------------------------------------------
\* Mutants of operations below.
ballocDirty(s) ==
  LET free == Blocks \ s.used IN
  IF free = {} THEN [s |-> panic(s, "balloc: out of blocks"), b |-> 0]
  ELSE [s |-> [s EXCEPT !.used = @ \cup {Min(free)}], b |-> Min(free)]
LastReferenceNever(s, i) == FALSE
iupdateSizeOnly(s, i) == [s EXCEPT !.dinode[i].size = s.icache[i].d.size, !.dinode[i].type = s.icache[i].d.type,
                                   !.dinode[i].addrs = s.icache[i].d.addrs]

-----------------------------------------------------------------------------
(* Blocks. *)
balloc(s) ==
  LET free == Blocks \ s.used IN
  IF free = {} THEN [s |-> panic(s, "balloc: out of blocks"), b |-> 0]
  ELSE [s |-> [s EXCEPT !.used = @ \cup {Min(free)}, !.data[Min(free)] = ZeroBlock],
        b |-> Min(free)]

bfree(s, b) ==
  IF b \notin s.used THEN panic(s, "freeing free block") ELSE [s EXCEPT !.used = @ \ {b}]

-----------------------------------------------------------------------------
(* I-nodes.  A cache entry belongs to an i-node while its ref is positive; *)
(* what is left in an entry with ref 0 is never looked at.                 *)
FreeInodes(s) == {i \in Inodes : s.dinode[i].type = "none"}

\* ialloc() up to its iget(): the i-node it marks, 0 if there is none.
ialloc(s, type) ==
  LET free == FreeInodes(s) IN
  IF free = {} THEN [s |-> panic(s, "ialloc: no inodes"), i |-> 0]
  ELSE [s |-> [s EXCEPT !.dinode[Min(free)] = [FreeInode EXCEPT !.type = type]], i |-> Min(free)]

iupdate(s, i) == [s EXCEPT !.dinode[i] = s.icache[i].d]

iget(s, i) ==
  IF s.icache[i].ref = 0 /\ Cardinality({j \in Inodes : s.icache[j].ref > 0}) = NINODE
  THEN panic(s, "iget: no inodes")
  ELSE [s EXCEPT !.icache[i].ref = @ + 1]

idup(s, i) == [s EXCEPT !.icache[i].ref = @ + 1]

\* What ilock() does once it has the lock.
ilock(s, i) ==
  IF s.icache[i].valid THEN s
  ELSE LET t == [s EXCEPT !.icache[i].d = s.dinode[i], !.icache[i].valid = TRUE]
       IN  IF s.dinode[i].type = "none" THEN panic(t, "ilock: no type") ELSE t

\* iput(): whether it frees the i-node, and the end of it.
LastReference(s, i) == s.icache[i].ref = 1 /\ s.icache[i].valid /\ s.icache[i].d.nlink = 0

DropReference(s, i, freed) ==
  LET e == s.icache[i] IN
  [s EXCEPT !.icache[i] = IF e.ref = 1 THEN NotCached
                          ELSE [e EXCEPT !.ref = @ - 1, !.valid = @ /\ ~freed]]

-----------------------------------------------------------------------------
(* Content of i-nodes. *)
\* The block that holds block bn of an i-node with the data d; 0 if none does.
BlockAt(s, d, bn) ==
  IF bn < NDIRECT THEN d.addrs[bn]
  ELSE IF d.addrs[NDIRECT] = 0 THEN 0 ELSE s.data[d.addrs[NDIRECT]][bn - NDIRECT].n

bmap(s, i, bn) ==
  LET direct(t, at) ==
        IF t.icache[i].d.addrs[at] # 0 THEN t
        ELSE LET a == balloc(t) IN [a.s EXCEPT !.icache[i].d.addrs[at] = a.b]
      indirect(t, ib, at) ==
        IF t.panic # "no" \/ t.data[ib][at].n # 0 THEN t
        ELSE LET a == balloc(t) IN [a.s EXCEPT !.data[ib][at].n = a.b]
      t1 == direct(s, Min({bn, NDIRECT}))
  IN  IF bn >= MAXFILE THEN panic(s, "bmap: out of range")
      ELSE IF bn < NDIRECT THEN t1
      ELSE indirect(t1, t1.icache[i].d.addrs[NDIRECT], bn - NDIRECT)

BlocksOf(s, d) ==
  LET ib == d.addrs[NDIRECT]
      listed == IF ib = 0 THEN {} ELSE {s.data[ib][o].n : o \in 0..NINDIRECT - 1}
  IN  ({d.addrs[bn] : bn \in 0..NDIRECT} \cup listed) \ {0}

itrunc(s, i) ==
  LET t == FoldSet(LAMBDA b, acc : bfree(acc, b), s, BlocksOf(s, s.icache[i].d))
  IN  iupdate([t EXCEPT !.icache[i].d.addrs = NoAddrs, !.icache[i].d.size = 0], i)

Slot(s, d, off) == s.data[BlockAt(s, d, off \div BSIZE)][off % BSIZE]

\* Reading n slots from the start: bmap() gives a hole a block.
readi(s, i, n) ==
  FoldLeft(LAMBDA acc, k : bmap(acc, i, (k - 1) \div BSIZE), s, [k \in 1..n |-> k])

\* Writing one slot.  The callers keep off <= size and off < MAXFILE * BSIZE.
writei(s, i, off, slot) ==
  LET t == bmap(s, i, off \div BSIZE)
      u == [t EXCEPT !.data[BlockAt(t, t.icache[i].d, off \div BSIZE)][off % BSIZE] = slot]
  IN  IF t.panic # "no" THEN t
      ELSE IF off < s.icache[i].d.size THEN u
      ELSE iupdate([u EXCEPT !.icache[i].d.size = off + 1], i)

-----------------------------------------------------------------------------
(* Directories. *)
Offsets(d) == 0..d.size - 1
\* A mutant of Named.
NamedButLast(s, d, name) ==
  {off \in 0..d.size - 2 : Slot(s, d, off).n # 0 /\ Slot(s, d, off).name = name}

Named(s, d, name) == {off \in Offsets(d) : Slot(s, d, off).n # 0 /\ Slot(s, d, off).name = name}

\* dirlookup() up to its iget(): the state, the i-node (0: none) and the offset.
dirlookup(s, i, name) ==
  LET d == s.icache[i].d
      at == Named(s, d, name)
  IN  IF d.type # "T_DIR" THEN [s |-> panic(s, "dirlookup not DIR"), i |-> 0, off |-> 0]
      ELSE IF at = {} THEN [s |-> readi(s, i, d.size), i |-> 0, off |-> 0]
      ELSE [s |-> readi(s, i, Min(at) + 1), i |-> Slot(s, d, Min(at)).n, off |-> Min(at)]

\* dirlink() of a name that is not there.
dirlink(s, i, name, inum) ==
  LET d == s.icache[i].d
      t == readi(s, i, d.size)
      off == Min({o \in Offsets(d) : Slot(s, d, o).n = 0} \cup {d.size})
  IN  IF off >= MAXFILE * BSIZE THEN panic(t, "dirlink")
      ELSE writei(t, i, off, [n |-> inum, name |-> name])

isdirempty(s, i) ==
  \A off \in 2..s.icache[i].d.size - 1 : Slot(s, s.icache[i].d, off).n = 0
=============================================================================
