-------------------------------- MODULE Mem --------------------------------
(***************************************************************************)
(* Physical pages and address spaces: kalloc.c, vm.c, exec.c, and what     *)
(* fork(), exit(), wait() and growproc() of proc.c do with memory.         *)
(*                                                                         *)
(* Every kalloc() is a step of its own, so that memory can run out at each *)
(* of them while other processes take and give back pages.  The pages that *)
(* one function frees are freed in one step.                               *)
(*                                                                         *)
(* Sizes and addresses count words; a page has PGSIZE of them, a page      *)
(* table NPT pages.  A space is a page directory with its tables, the      *)
(* pages its entries map and the pages without PTE_U.                      *)
(***************************************************************************)
EXTENDS Integers, SequencesExt, FiniteSetsExt, TLC

CONSTANTS
  Procs, initp,
  Pages,              \* physical pages, positive numbers
  PGSIZE, NPT,
  NPAGES,             \* user pages of an address space, up to KERNBASE
  KTabs,              \* page tables of the kernel part
  Programs,           \* what exec() finds: [segs, args], see exec below
  Grows,              \* arguments of sbrk()
  Jobs                \* bound: system calls that are made

ASSUME MemAssumption ==
  /\ initp \in Procs
  /\ Pages \subseteq Nat \ {0} /\ IsFiniteSet(Pages)
  /\ {PGSIZE, NPT, NPAGES, KTabs} \subseteq Nat \ {0}
  /\ NPAGES % NPT = 0
  /\ Grows \subseteq Int

VARIABLES
  free,               \* kmem.freelist, without its order
  st,                 \* UNUSED, EMBRYO, user, kernel, doomed, leaving or ZOMBIE
  kstack, space, sz,  \* kernel stack, address space and size of a process
  cr3,                \* the directory its CPU has loaded while it runs
  job,                \* the system call a process is in
  jobs,               \* bound: calls still to come
  leaked              \* history: pages nothing refers to any more

memVars == <<free, st, kstack, space, sz, cr3, job, jobs, leaked>>

KERNBASE == NPAGES * PGSIZE
VPNs == 0..NPAGES - 1
PageUp(n) == (n + PGSIZE - 1) \div PGSIZE        \* PGROUNDUP, as a page number
NoSpace == [dir |-> 0, ktabs |-> {}, tab |-> [t \in 0..NPAGES \div NPT - 1 |-> 0],
            pte |-> [v \in VPNs |-> 0], guard |-> {}]
NoJob == [call |-> "none", at |-> "user", new |-> NoSpace, mem |-> 0, child |-> initp,
          from |-> 0, a |-> 0, to |-> 0, rest |-> <<>>, args |-> 0, old |-> NoSpace]

-----------------------------------------------------------------------------
(* Address spaces: vm.c. *)
\* Mutants of operations below.
VisitedAligned(s, from, to) == {a \in VPNs : a > from /\ a < to /\ s.tab[a \div NPT] # 0}
clearpteuNever(s, v) == s

\* The pages deallocuvm() looks at: where there is no table it goes on one
\* table's length further.
Visited(s, from, to) ==
  LET next[a \in 0..NPAGES + NPT] ==
        IF a >= to THEN {}
        ELSE IF s.tab[a \div NPT] = 0 THEN next[a + NPT]
        ELSE {a} \cup next[a + 1]
  IN  next[from]

Unmapped(s, vs) == [s EXCEPT !.pte = [v \in VPNs |-> IF v \in vs THEN 0 ELSE s.pte[v]]]

\* deallocuvm(): the space, the pages it frees and the size it returns.
deallocuvm(s, oldsz, newsz) ==
  IF newsz >= oldsz THEN [s |-> s, freed |-> {}, sz |-> oldsz]
  ELSE LET vs == Visited(s, PageUp(newsz), PageUp(oldsz)) IN
       [s |-> Unmapped(s, vs), freed |-> {s.pte[v] : v \in vs} \ {0}, sz |-> newsz]

\* The pages that freevm() gives back.
freevm(s) ==
  (deallocuvm(s, KERNBASE, 0).freed \cup {s.dir} \cup s.ktabs
     \cup {s.tab[t] : t \in DOMAIN s.tab}) \ {0}

\* walkpgdir(): whether the table of page v is there.
HasTable(s, v) == s.tab[v \div NPT] # 0

\* mappages() of one page, with a new table if there is one.
mappages(s, v, mem, table) ==
  [s EXCEPT !.pte[v] = mem, !.tab[v \div NPT] = IF table # 0 THEN table ELSE @]

clearpteu(s, v) == [s EXCEPT !.guard = @ \cup {v}]

\* copyout() of n words to va: every page has to be mapped for the user.
copyout(s, va, n) ==
  \A v \in (va \div PGSIZE)..((va + n - 1) \div PGSIZE) :
    v \in VPNs /\ s.pte[v] # 0 /\ v \notin s.guard

\* argptr() and fetchint() of syscall.c accept n words at addr.
argptr(size, addr, n) ==
  ~(addr >= size \/ (addr + n) % (2 * KERNBASE) > size)

-----------------------------------------------------------------------------
\* The state that kinit2(), setupkvm(), inituvm() and userinit() leave.
Nth(k) == CHOOSE g \in Pages : Cardinality({h \in Pages : h < g}) = k - 1
InitSpace == [NoSpace EXCEPT !.dir = Nth(2), !.ktabs = {Nth(k) : k \in 3..2 + KTabs},
                             !.tab[0] = Nth(3 + KTabs), !.pte[0] = Nth(4 + KTabs)]
MemInit ==
  /\ free = Pages \ {Nth(k) : k \in 1..4 + KTabs}
  /\ st = [p \in Procs |-> IF p = initp THEN "user" ELSE "UNUSED"]
  /\ kstack = [p \in Procs |-> IF p = initp THEN Nth(1) ELSE 0]
  /\ space = [p \in Procs |-> IF p = initp THEN InitSpace ELSE NoSpace]
  /\ sz = [p \in Procs |-> IF p = initp THEN PGSIZE ELSE 0]
  /\ cr3 = [p \in Procs |-> IF p = initp THEN Nth(2) ELSE 0]
  /\ job = [p \in Procs |-> NoJob]
  /\ jobs = Jobs
  /\ leaked = {}

At(p, place) == st[p] = "kernel" /\ job[p].at = place
Set(p, changes) == job' = [job EXCEPT ![p] = changes @@ @]
Back(p) == /\ st' = [st EXCEPT ![p] = "user"]
           /\ job' = [job EXCEPT ![p] = NoJob]
Call(p, changes) ==
  /\ st[p] = "user" /\ jobs > 0
  /\ jobs' = jobs - 1
  /\ Set(p, changes)
\* exit() has ptable.lock until the scheduler has left its address space.
PtableFree == \A p \in Procs : st[p] # "leaving"

-----------------------------------------------------------------------------
(* fork(), exec() and sbrk() until their first page. *)
Fork(p, c) ==
  /\ st[c] = "UNUSED" /\ PtableFree
  /\ Call(p, [call |-> "fork", at |-> "kstack", child |-> c])
  /\ st' = [st EXCEPT ![p] = "kernel", ![c] = "EMBRYO"]
  /\ UNCHANGED <<free, kstack, space, sz, cr3, leaked>>

\* prog.segs: where each segment ends, and whether exec() finds it bad before
\* or after it has allocated it; prog.args: words of arguments.
Exec(p, prog) ==
  /\ Call(p, [call |-> "exec", at |-> "dir", rest |-> prog.segs, args |-> prog.args])
  /\ st' = [st EXCEPT ![p] = "kernel"]
  /\ UNCHANGED <<free, kstack, space, sz, cr3, leaked>>

\* growproc(n) for n > 0.
Sbrk(p, n) ==
  /\ n > 0
  /\ Call(p, [call |-> "sbrk", at |-> "page", from |-> sz[p], a |-> PageUp(sz[p]), to |-> sz[p] + n])
  /\ sz[p] + n < KERNBASE
  /\ st' = [st EXCEPT ![p] = "kernel"]
  /\ UNCHANGED <<free, kstack, space, sz, cr3, leaked>>

\* growproc(n) for n < 0; below zero the new size is a large unsigned number.
\* A process that has given up all of its memory faults at its next instruction.
Shrink(p, n) ==
  LET newsz == IF sz[p] + n < 0 THEN sz[p] + n + 2 * KERNBASE ELSE sz[p] + n
      d == deallocuvm(space[p], sz[p], newsz)
  IN
  /\ n < 0 /\ st[p] = "user" /\ jobs > 0
  /\ p = initp => d.sz # 0
  /\ jobs' = jobs - 1
  /\ space' = [space EXCEPT ![p] = d.s]
  /\ free' = free \cup d.freed
  /\ sz' = IF d.sz = 0 THEN sz ELSE [sz EXCEPT ![p] = d.sz]
  /\ st' = IF d.sz = 0 THEN [st EXCEPT ![p] = "doomed"] ELSE st
  /\ UNCHANGED <<kstack, cr3, job, leaked>>

-----------------------------------------------------------------------------
(* kalloc() in all its places.  What a call does when there is no page, with *)
(* a page mem in its hands (0: none), that it leaks (lost) or gives back.    *)
FailFork(p, freed, lost) ==
  LET c == job[p].child IN
  /\ free' = free \cup freed \cup ({kstack[c]} \ {0})
  /\ leaked' = leaked \cup (lost \ {0})
  /\ kstack' = [kstack EXCEPT ![c] = 0]
  /\ st' = [st EXCEPT ![p] = "user", ![c] = "UNUSED"]
  /\ job' = [job EXCEPT ![p] = NoJob]
  /\ UNCHANGED <<space, sz, cr3, jobs>>

\* exec() at bad:, with the directory it has set up.
FailExec(p, freed, lost) ==
  /\ free' = free \cup (freed \ {0})
  /\ leaked' = leaked \cup lost
  /\ Back(p)
  /\ UNCHANGED <<kstack, space, sz, cr3, jobs>>

\* A mutant of FailSbrk: nothing is undone.
FailSbrkKeeps(p, mem) ==
  /\ free' = free \cup ({mem} \ {0})
  /\ Back(p)
  /\ UNCHANGED <<kstack, space, sz, cr3, jobs, leaked>>

\* allocuvm() for sbrk() undoes what it did.
FailSbrk(p, mem) ==
  LET d == deallocuvm(space[p], job[p].to, job[p].from) IN
  /\ space' = [space EXCEPT ![p] = d.s]
  /\ free' = free \cup d.freed \cup ({mem} \ {0})
  /\ Back(p)
  /\ UNCHANGED <<kstack, sz, cr3, jobs, leaked>>

OutOfMemory(p, mem) ==
  CASE job[p].call = "fork" -> FailFork(p, freevm(job[p].new), {mem})
    [] job[p].call = "exec" -> FailExec(p, freevm(job[p].new) \cup {mem}, {})
    [] OTHER -> FailSbrk(p, mem)

\* A page from the free list.
kalloc(pg) == free # {} /\ pg = Min(free) /\ free' = free \ {pg}

\* allocproc()
AllocStack(p) ==
  /\ At(p, "kstack")
  /\ \/ free = {} /\ FailFork(p, {}, {})
     \/ \E pg \in free :
          /\ kalloc(pg)
          /\ kstack' = [kstack EXCEPT ![job[p].child] = pg]
          /\ Set(p, [at |-> "dir"])
          /\ UNCHANGED <<st, space, sz, cr3, jobs, leaked>>

\* setupkvm(): the directory, then the tables of the kernel part.  When one of
\* those is missing it returns 0 and forgets what it has.
AllocDir(p) ==
  /\ At(p, "dir")
  /\ \/ free = {} /\ IF job[p].call = "fork" THEN FailFork(p, {}, {}) ELSE FailExec(p, {}, {})
     \/ \E pg \in free :
          /\ kalloc(pg)
          /\ Set(p, [at |-> "ktab", new |-> [NoSpace EXCEPT !.dir = pg]])
          /\ UNCHANGED <<st, kstack, space, sz, cr3, jobs, leaked>>

AllocKTab(p) ==
  LET new == job[p].new
      got == {new.dir} \cup new.ktabs
  IN
  /\ At(p, "ktab")
  /\ \/ free = {} /\ IF job[p].call = "fork" THEN FailFork(p, {}, got) ELSE FailExec(p, {}, got)
     \/ \E pg \in free :
          /\ kalloc(pg)
          /\ Set(p, [new |-> [new EXCEPT !.ktabs = @ \cup {pg}], to |-> IF job[p].call = "fork" THEN sz[p] ELSE 0,
                     at |-> IF Cardinality(new.ktabs) + 1 < KTabs THEN "ktab"
                            ELSE IF job[p].call = "fork" THEN "page" ELSE "seg"])
          /\ UNCHANGED <<st, kstack, space, sz, cr3, jobs, leaked>>

\* The loops of allocuvm() and copyuvm(): a page, then its place in the table.
Looping(p) == At(p, "page") /\ job[p].a * PGSIZE < job[p].to
LoopDone(p) == At(p, "page") /\ job[p].a * PGSIZE >= job[p].to
Target(p) == IF job[p].call = "sbrk" THEN space[p] ELSE job[p].new

AllocPage(p) ==
  /\ Looping(p)
  /\ \/ free = {} /\ OutOfMemory(p, 0)
     \/ \E pg \in free :
          /\ kalloc(pg)
          /\ Set(p, [at |-> "map", mem |-> pg])
          /\ UNCHANGED <<st, kstack, space, sz, cr3, jobs, leaked>>

MapPage(p) ==
  LET v == job[p].a
      copied == IF job[p].call = "fork" THEN space[p].guard \cap {v} ELSE {}
      mapped(table) == [mappages(Target(p), v, job[p].mem, table) EXCEPT !.guard = @ \cup copied]
      on == [at |-> "page", mem |-> 0, a |-> v + 1]
      map(table) ==
        /\ IF job[p].call = "sbrk"
           THEN space' = [space EXCEPT ![p] = mapped(table)] /\ Set(p, on)
           ELSE Set(p, on @@ [new |-> mapped(table)]) /\ UNCHANGED space
        /\ UNCHANGED <<st, kstack, sz, cr3, jobs, leaked>>
  IN
  /\ At(p, "map")
  /\ \/ HasTable(Target(p), v) /\ map(0) /\ UNCHANGED free
     \/ ~HasTable(Target(p), v) /\ free = {} /\ OutOfMemory(p, job[p].mem)
     \/ ~HasTable(Target(p), v) /\ \E pg \in free : kalloc(pg) /\ map(pg)

-----------------------------------------------------------------------------
(* The calls go on when they have their pages. *)
Grown(p) ==
  /\ LoopDone(p) /\ job[p].call = "sbrk"
  /\ sz' = [sz EXCEPT ![p] = job[p].to]
  /\ Back(p)
  /\ UNCHANGED <<free, kstack, space, cr3, jobs, leaked>>

Forked(p) ==
  LET c == job[p].child IN
  /\ LoopDone(p) /\ job[p].call = "fork"
  /\ space' = [space EXCEPT ![c] = job[p].new]
  /\ sz' = [sz EXCEPT ![c] = sz[p]]
  /\ cr3' = [cr3 EXCEPT ![c] = job[p].new.dir]
  /\ st' = [st EXCEPT ![p] = "user", ![c] = "user"]
  /\ job' = [job EXCEPT ![p] = NoJob]
  /\ UNCHANGED <<free, kstack, jobs, leaked>>

\* exec(): the next segment, or the guard page and the stack.
NextSegment(p) ==
  LET from == IF job[p].rest = <<>> THEN PageUp(job[p].from) * PGSIZE ELSE job[p].from
      to == IF job[p].rest = <<>> THEN from + 2 * PGSIZE ELSE Max({from, Head(job[p].rest).to})
  IN
  /\ At(p, "seg")
  /\ IF \/ to >= KERNBASE \/ to = 0
        \/ job[p].rest # <<>> /\ Head(job[p].rest).bad = "before"
     THEN FailExec(p, freevm(job[p].new), {})
     ELSE /\ Set(p, [at |-> "page", from |-> from, a |-> PageUp(from), to |-> to])
          /\ UNCHANGED <<free, st, kstack, space, sz, cr3, jobs, leaked>>

SegmentDone(p) ==
  /\ LoopDone(p) /\ job[p].call = "exec" /\ job[p].rest # <<>>
  /\ IF Head(job[p].rest).bad = "after" THEN FailExec(p, freevm(job[p].new), {})
     ELSE /\ Set(p, [at |-> "seg", from |-> job[p].to, rest |-> Tail(job[p].rest)])
          /\ UNCHANGED <<free, st, kstack, space, sz, cr3, jobs, leaked>>

\* The arguments are copied to the stack and the new image is committed to.
Commit(p) ==
  LET to == job[p].to
      new == clearpteu(job[p].new, to \div PGSIZE - 2)
  IN
  /\ LoopDone(p) /\ job[p].call = "exec" /\ job[p].rest = <<>>
  /\ IF ~copyout(new, to - job[p].args, job[p].args) THEN FailExec(p, freevm(new), {})
     ELSE /\ space' = [space EXCEPT ![p] = new]
          /\ sz' = [sz EXCEPT ![p] = to]
          /\ Set(p, [at |-> "switch", new |-> NoSpace, old |-> space[p]])
          /\ UNCHANGED <<free, st, kstack, cr3, jobs, leaked>>

Switch(p) ==
  /\ At(p, "switch")
  /\ cr3' = [cr3 EXCEPT ![p] = space[p].dir]
  /\ Set(p, [at |-> "freeold"])
  /\ UNCHANGED <<free, st, kstack, space, sz, jobs, leaked>>

FreeOld(p) ==
  /\ At(p, "freeold")
  /\ free' = free \cup freevm(job[p].old)
  /\ Back(p)
  /\ UNCHANGED <<kstack, space, sz, cr3, jobs, leaked>>

-----------------------------------------------------------------------------
\* exit(): a ZOMBIE, but still on its own page table and kernel stack.
Exit(p) ==
  /\ p # initp /\ st[p] \in {"user", "doomed"} /\ PtableFree
  /\ st' = [st EXCEPT ![p] = "leaving"]
  /\ UNCHANGED <<free, kstack, space, sz, cr3, job, jobs, leaked>>

\* The scheduler: switchkvm(), then it releases ptable.lock.
Leave(p) ==
  /\ st[p] = "leaving"
  /\ st' = [st EXCEPT ![p] = "ZOMBIE"]
  /\ cr3' = [cr3 EXCEPT ![p] = 0]
  /\ UNCHANGED <<free, kstack, space, sz, job, jobs, leaked>>

\* wait() of whoever is c's parent; see module Proc for who that is.
WaitFree(p, c, zombie) ==
  /\ st[p] = "user" /\ zombie
  /\ free' = free \cup freevm(space[c]) \cup {kstack[c]}
  /\ kstack' = [kstack EXCEPT ![c] = 0]
  /\ space' = [space EXCEPT ![c] = NoSpace]
  /\ sz' = [sz EXCEPT ![c] = 0]
  /\ st' = [st EXCEPT ![c] = "UNUSED"]
  /\ UNCHANGED <<cr3, job, jobs, leaked>>

\* A mutant of Wait: without ptable.lock.
WaitUnlocked(p, c) == WaitFree(p, c, st[c] \in {"ZOMBIE", "leaving"})

Wait(p, c) == WaitFree(p, c, st[c] = "ZOMBIE" /\ PtableFree)

\* Nobody is in the kernel: user programs need not make calls.
Rest == /\ \A p \in Procs : st[p] \notin {"kernel", "leaving"}
        /\ UNCHANGED memVars

MemNext ==
  \/ \E p \in Procs :
       \/ AllocStack(p) \/ AllocDir(p) \/ AllocKTab(p) \/ AllocPage(p) \/ MapPage(p)
       \/ Grown(p) \/ Forked(p) \/ NextSegment(p) \/ SegmentDone(p) \/ Commit(p) \/ Switch(p) \/ FreeOld(p)
       \/ Exit(p) \/ Leave(p)
       \/ \E c \in Procs : Fork(p, c) \/ Wait(p, c)
       \/ \E prog \in Programs : Exec(p, prog)
       \/ \E n \in Grows : Sbrk(p, n) \/ Shrink(p, n)
  \/ Rest
MemSpec == MemInit /\ [][MemNext]_memVars

-----------------------------------------------------------------------------
(* Properties. *)
MemTypeOK ==
  /\ free \subseteq Pages /\ leaked \subseteq Pages
  /\ st \in [Procs -> {"UNUSED", "EMBRYO", "user", "kernel", "doomed", "leaving", "ZOMBIE"}]
  /\ \A p \in Procs : kstack[p] \in Pages \cup {0} /\ sz[p] \in 0..KERNBASE - 1

\* kalloc() and kfree() (kalloc.c) and every error path of vm.c, exec.c and
\* fork(): a page is on the free list, or one table entry, directory or process
\* refers to it, or it has been lost in setupkvm() or copyuvm(); never two of these.
InSpace(s, g) ==
  Cardinality({x \in {"dir", "ktab"} : IF x = "dir" THEN s.dir = g ELSE g \in s.ktabs})
  + Cardinality({t \in DOMAIN s.tab : s.tab[t] = g}) + Cardinality({v \in VPNs : s.pte[v] = g})
Uses(p, g) ==
  InSpace(space[p], g) + InSpace(job[p].new, g) + InSpace(job[p].old, g)
  + Cardinality({x \in {"kstack", "mem"} : g = IF x = "mem" THEN job[p].mem ELSE kstack[p]})
PagesAccounted ==
  MemTypeOK /\ \A g \in Pages :
    MapThenSumSet(LAMBDA p : Uses(p, g), Procs)
      = IF g \in free \cup leaked THEN 0 ELSE 1

\* allocuvm(), deallocuvm(), copyuvm() and exec(): outside of system calls the
\* pages a process has are the ones below its size, whether its calls succeeded
\* or ran out of memory half way; so copyuvm() never finds one missing.
MappedBelowSize ==
  \A p \in Procs : st[p] = "user" =>
    {v \in VPNs : space[p].pte[v] # 0} = 0..PageUp(sz[p]) - 1

\* And what argptr() and fetchint() (syscall.c) accept, the kernel can use
\* without a fault: all of it lies in pages that are mapped.
ArgumentsMapped ==
  \A p \in Procs : st[p] = "user" =>
    \A addr \in 0..2 * KERNBASE - 1, n \in 1..KERNBASE - 1 :
      argptr(sz[p], addr, n) =>
        \A v \in (addr \div PGSIZE)..((addr + n - 1) \div PGSIZE) : v \in VPNs /\ space[p].pte[v] # 0

\* Together: a process has the memory that its size promises, after every
\* failure of fork(), exec() and sbrk() too, and the kernel trusts no more.
UserMemory == MappedBelowSize /\ ArgumentsMapped

\* exec() frees the old page table, and wait() a child's, only when no CPU has
\* it loaded.
LoadedDirAlive ==
  \A p \in Procs : cr3[p] # 0 => cr3[p] \in {space[p].dir, job[p].old.dir} \ free

\* exec() never commits to an image whose arguments did not fit on the stack
\* page; usertests.c, bigargtest: "or does it write below the stack".
ArgumentsFit ==
  [][\A p \in Procs : job[p].at = "page" /\ job'[p].at = "switch" => job[p].args <= PGSIZE]_memVars
=============================================================================
