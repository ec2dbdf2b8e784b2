-------------------------------- MODULE Mkfs --------------------------------
(***************************************************************************)
(* The image that mkfs.c writes: the root directory and one file for each  *)
(* of its arguments.  mkfs has its own allocation of i-nodes and blocks,   *)
(* two counters; the kernel takes over with what it leaves.                *)
(***************************************************************************)
EXTENDS Fs

Datum == [n |-> 1, name |-> ""]      \* a piece of a file

\* ialloc() of mkfs: the next i-node, with one link.
NewInode(m, type) ==
  [m EXCEPT !.dinode[m.freeinode] = [FreeInode EXCEPT !.type = type, !.nlink = 1],
            !.freeinode = @ + 1]

\* iappend() of one slot.
iappend(m, inum, slot) ==
  LET d == m.dinode[inum]
      fbn == d.size \div BSIZE
      at == Min({fbn, NDIRECT})
      m1 == IF d.addrs[at] # 0 THEN m
            ELSE [m EXCEPT !.dinode[inum].addrs[at] = m.freeblock, !.freeblock = @ + 1]
      ib == m1.dinode[inum].addrs[at]
      m2 == IF fbn < NDIRECT \/ m1.data[ib][fbn - NDIRECT].n # 0 THEN m1
            ELSE [m1 EXCEPT !.data[ib][fbn - NDIRECT].n = m1.freeblock, !.freeblock = @ + 1]
      x == IF fbn < NDIRECT THEN ib ELSE m2.data[ib][fbn - NDIRECT].n
  IN  [m2 EXCEPT !.data[x][d.size % BSIZE] = slot, !.dinode[inum].size = @ + 1]

AddFile(m, file) ==
  LET inum == m.freeinode
      m1 == iappend(NewInode(m, "T_FILE"), ROOTINO, [n |-> inum, name |-> file.name])
  IN  FoldLeft(LAMBDA acc, k : iappend(acc, inum, Datum), m1, [k \in 1..file.size |-> k])

\* main(): files is a sequence of names and sizes.  The size of the root is
\* rounded up to the next block, and the blocks handed out are marked.
mkfs(files) ==
  LET empty == [dinode |-> [i \in Inodes |-> FreeInode], data |-> [b \in 0..FSSIZE - 1 |-> ZeroBlock],
                freeinode |-> 1, freeblock |-> NMETA]
      dots == FoldLeft(LAMBDA acc, name : iappend(acc, ROOTINO, [n |-> ROOTINO, name |-> name]),
                       NewInode(empty, "T_DIR"), <<".", "..">>)
      m == FoldLeft(AddFile, dots, files)
  IN  [dinode |-> [m.dinode EXCEPT ![ROOTINO].size = (@ \div BSIZE + 1) * BSIZE],
       used |-> 0..m.freeblock - 1,
       data |-> m.data,
       icache |-> [i \in Inodes |-> NotCached],
       panic |-> "no"]
=============================================================================
