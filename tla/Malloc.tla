------------------------------- MODULE Malloc -------------------------------
(***************************************************************************)
(* The user library's allocator (umalloc.c): a circular list of free       *)
(* blocks in the order of their addresses, with base in it.                *)
(*                                                                         *)
(* Addresses and sizes count units of sizeof(Header); base lies below the  *)
(* heap.  A heap h has freep and, for the header at every address, ptr and *)
(* size; the header of a block that is handed out has ptr = base.          *)
(***************************************************************************)
EXTENDS Integers, SequencesExt, FiniteSetsExt

CONSTANTS
  HeapEnd,          \* sbrk() fails beyond it
  CORE,             \* 4096, the least that morecore() asks for
  Requests          \* sizes asked for, in units with the header

ASSUME MallocAssumption == HeapEnd \in Nat /\ HeapEnd > 2 /\ CORE \in Nat \ {0} /\ Requests \subseteq Nat \ {0, 1}

base == 0
Addresses == 0..HeapEnd

VARIABLES
  heap,
  brk,              \* the end of the process's memory
  handedOut,        \* history: the blocks that malloc() has returned, with their sizes
  foreign           \* history: units that the program took from sbrk() itself

mallocVars == <<heap, brk, handedOut, foreign>>

MallocInit ==
  /\ heap = [freep |-> base, ptr |-> [x \in Addresses |-> base], size |-> [x \in Addresses |-> 0]]
  /\ brk = 2 /\ handedOut = {} /\ foreign = {}

\* The list, from the block behind freep to freep.
FreeList(h) ==
  LET nth[k \in Nat] == IF k = 1 THEN h.ptr[h.freep] ELSE h.ptr[nth[k - 1]]
      n == CHOOSE k \in 1..HeapEnd + 1 : nth[k] = h.freep /\ \A j \in 1..k - 1 : nth[j] # h.freep
  IN  [k \in 1..n |-> nth[k]]

\* Where the loop of free() stops: bp belongs between p and p->s.ptr.
Between(h, bp, p) ==
  \/ bp > p /\ bp < h.ptr[p]
  \/ p >= h.ptr[p] /\ (bp > p \/ bp < h.ptr[p])
Before(h, bp) ==
  LET places == <<h.freep>> \o FreeList(h)
  IN  places[CHOOSE k \in DOMAIN places :
               Between(h, bp, places[k]) /\ \A j \in 1..k - 1 : ~Between(h, bp, places[j])]

\* A mutant of Split: the front of the block is handed out.
SplitFront(h, prevp, p, n) ==
  [heap |-> [h EXCEPT !.freep = prevp, !.size[p] = n, !.size[p + n] = h.size[p] - n], block |-> p]

\* The block bp, and the one above it if they touch.
JoinUpper(h, p, bp) ==
  LET up == h.ptr[p] IN
  IF bp + h.size[bp] = up
  THEN [h EXCEPT !.size[bp] = @ + h.size[up], !.ptr[bp] = h.ptr[up], !.size[up] = 0, !.ptr[up] = base]
  ELSE [h EXCEPT !.ptr[bp] = up]

\* The same with the one below it.
JoinLower(h, p, bp) ==
  IF p + h.size[p] = bp
  THEN [h EXCEPT !.size[p] = @ + h.size[bp], !.ptr[p] = h.ptr[bp], !.size[bp] = 0, !.ptr[bp] = base]
  ELSE [h EXCEPT !.ptr[p] = bp]

free(h, bp) ==
  LET p == Before(h, bp) IN [JoinLower(JoinUpper(h, p, bp), p, bp) EXCEPT !.freep = p]

-----------------------------------------------------------------------------
\* The end of a block that is larger than needed.
Split(h, prevp, p, n) ==
  LET q == p + h.size[p] - n IN
  [heap |-> [h EXCEPT !.freep = prevp, !.size[p] = @ - n, !.size[q] = n], block |-> q]
Unlink(h, prevp, p) ==
  [heap |-> [h EXCEPT !.freep = prevp, !.ptr[prevp] = h.ptr[p], !.ptr[p] = base], block |-> p]

Fits(h, n) == {k \in DOMAIN FreeList(h) : h.size[FreeList(h)[k]] >= n}

\* The first block of the list that fits.
Taken(h, n) ==
  LET list == FreeList(h)
      k == Min(Fits(h, n))
      prevp == IF k = 1 THEN h.freep ELSE list[k - 1]
  IN  IF h.size[list[k]] = n THEN Unlink(h, prevp, list[k]) ELSE Split(h, prevp, list[k], n)

HandOut(t, n) == heap' = t.heap /\ handedOut' = handedOut \cup {<<t.block, n>>}

\* malloc(); with morecore() if nothing fits.
malloc(n) ==
  LET nu == Max({n, CORE})
      h == free([heap EXCEPT !.size[brk] = nu], brk)
  IN
  /\ \/ Fits(heap, n) # {} /\ HandOut(Taken(heap, n), n) /\ UNCHANGED brk
     \/ Fits(heap, n) = {} /\ brk + nu <= HeapEnd /\ brk' = brk + nu /\ HandOut(Taken(h, n), n)
     \/ Fits(heap, n) = {} /\ brk + nu > HeapEnd /\ UNCHANGED <<heap, brk, handedOut>>
  /\ UNCHANGED foreign

Free(b) ==
  /\ b \in handedOut
  /\ heap' = free(heap, b[1])
  /\ handedOut' = handedOut \ {b}
  /\ UNCHANGED <<brk, foreign>>

\* The program calls sbrk() itself.
Sbrk1 ==
  /\ brk < HeapEnd /\ foreign = {}
  /\ brk' = brk + 1 /\ foreign' = {brk}
  /\ UNCHANGED <<heap, handedOut>>

MallocNext ==
  \/ \E n \in Requests : malloc(n)
  \/ \E b \in handedOut : Free(b)
  \/ Sbrk1

-----------------------------------------------------------------------------
(* Properties. *)
FreeBlocks == ToSet(FreeList(heap)) \ {base}

\* malloc() and free(): every unit that sbrk() has given belongs to exactly one
\* block, free or handed out with the size that was asked for: nothing is
\* handed out twice, overlaps, or gets lost when blocks are split and joined.
HeapTiled ==
  LET blocks == {<<x, heap.size[x]>> : x \in FreeBlocks} \cup handedOut IN
  /\ \A u \in 2..brk - 1 :
       Cardinality({b \in blocks : b[1] <= u /\ u < b[1] + b[2]}) = IF u \in foreign THEN 0 ELSE 1
  /\ \A b \in blocks : b[2] > 0 /\ b[1] + b[2] <= brk
  /\ \A b \in handedOut : b[1] \notin FreeBlocks /\ heap.size[b[1]] = b[2]

\* free() keeps the list in the order of addresses from base on, and no two
\* free blocks touch: after everything is freed, all of a stretch of memory can
\* be handed out at once again.
FreeListCoalesced ==
  /\ base \in ToSet(FreeList(heap))
  /\ \A x \in FreeBlocks :
       /\ heap.ptr[x] = base \/ heap.ptr[x] > x
       /\ x + heap.size[x] \notin FreeBlocks

\* Both, which is what lets malloc() and free() go on for ever: the blocks tile
\* the memory and the free ones are in order and joined.
HeapSound == HeapTiled /\ FreeListCoalesced
=============================================================================
