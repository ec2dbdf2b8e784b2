------------------------------ MODULE FsCalls ------------------------------
(***************************************************************************)
(* The system calls on path names and i-node files: sysfile.c, namex() and *)
(* iput() of fs.c, and the i-node side of file.c.                          *)
(*                                                                         *)
(* One step is what a process does between taking an i-node's lock and     *)
(* waiting for the next lock, one critical section of icache.lock, or      *)
(* begin_op() or end_op().  A section that starts with an ilock() and ends *)
(* with the iunlock() of the same i-node is one step: what it uses besides *)
(* that i-node is the free map, one buffer at a time.                      *)
(*                                                                         *)
(* Between begin_op() and end_op() a call is part of a transaction, which  *)
(* commits when nobody is inside one (module Log).  A crash at any time    *)
(* leaves the disk of the last such moment, so Reboot starts from one.     *)
(***************************************************************************)
EXTENDS Mkfs, TLC

CONSTANTS
  Procs,
  Loads,              \* Loads[l]: who makes which calls, [procs, calls]
  WriteSize,          \* slots of one write() or read()
  Nobody

VARIABLES
  fs,                 \* the file system, see module Fs
  holder,             \* holder[i]: who has the lock of i-node i
  pr,                 \* what each process is doing
  cwd,                \* i-number of the current directory
  ofile,              \* the one open i-node file of a process
  outstanding,        \* calls inside a transaction
  budget,             \* the load, and bounds: calls, new i-nodes and crashes to come
  lost                \* history: entries of i-node i in directories freed with them

fsVars == <<fs, holder, pr, cwd, ofile, outstanding, budget, lost>>

NoFile == [ip |-> 0, off |-> 0, writable |-> FALSE]
NoCall == [op |-> "none", path |-> [abs |-> FALSE, elems |-> <<>>],
           to |-> [abs |-> FALSE, elems |-> <<>>], mode |-> "none"]
Idle == [pc |-> "user", call |-> NoCall, path |-> <<>>, ip |-> 0, tgt |-> 0, puts |-> <<>>, next |-> "user"]

At(p, place) == pr[p].pc = place /\ fs.panic = "no"
Free(i) == holder[i] = Nobody
Take(i, p) == holder' = [holder EXCEPT ![i] = p]
Go(p, changes) == pr' = [pr EXCEPT ![p] = changes @@ @]
To(s) == fs' = IF s.panic = "no" THEN s ELSE panic(fs, s.panic)

\* Go on with iput() of the i-nodes in puts, one after the other, and then at next.
Put(puts, next) == [pc |-> "iput", puts |-> puts, next |-> next]
\* end_op() and return; Finish does an iput() first.
Return == [pc |-> "end", ip |-> 0, tgt |-> 0]
\* A mutant of Finish.
FinishNoPut(i) == Return

Finish(i) == Put(<<i>>, "end") @@ Return

\* create() is used by open(O_CREATE), mkdir() and mknod().
Creates(call) == call.op \in {"mkdir", "mknod"} \/ call.mode = "O_CREATE"
CreateType(call) ==
  CASE call.op = "mkdir" -> "T_DIR" [] call.op = "mknod" -> "T_DEV" [] OTHER -> "T_FILE"

Init ==
  /\ holder = [i \in Inodes |-> Nobody]
  /\ pr = [p \in Procs |-> Idle]
  /\ cwd = [p \in Procs |-> ROOTINO]
  /\ ofile = [p \in Procs |-> NoFile]
  /\ outstanding = 0
  /\ lost = [i \in Inodes |-> 0]

\* The disk of s when the processes start: their current directory is the root.
Booted(s) == [s EXCEPT !.icache = [i \in Inodes |->
                IF i = ROOTINO THEN [NotCached EXCEPT !.ref = Cardinality(Procs)] ELSE NotCached]]

-----------------------------------------------------------------------------
(* namex(): one step per element of the path.  The walk ends at the place  *)
(* of the call, with the i-node, or its directory, in ip.  tgt is set only *)
(* in the second walk of link().                                           *)
Parent(r) == Creates(r.call) \/ r.call.op = "unlink" \/ r.tgt # 0
Found(r) == IF Creates(r.call) THEN "create" ELSE IF r.tgt # 0 THEN "linkentry" ELSE r.call.op
NotFound(r) == IF r.tgt # 0 THEN "linkbad" ELSE "end"
Arrive(r, elems) == IF elems = <<>> /\ ~Parent(r) THEN Found(r) ELSE "walk"

StartAt(p, path) == IF path.abs THEN ROOTINO ELSE cwd[p]
Start(s, p, path) == IF path.abs THEN iget(s, ROOTINO) ELSE idup(s, cwd[p])

\* A call with a path: begin_op() and the start of namex().
Enter(p, call) ==
  LET r == [Idle EXCEPT !.call = call] IN
  /\ At(p, "user") /\ p \in Loads[budget.load].procs
  /\ budget.calls > 0
  /\ Creates(call) => budget.creates > 0
  /\ budget' = [budget EXCEPT !.calls = @ - 1, !.creates = @ - IF Creates(call) THEN 1 ELSE 0]
  /\ outstanding' = outstanding + 1
  /\ To(Start(fs, p, call.path))
  /\ Go(p, [call |-> call, pc |-> Arrive(r, call.path.elems), path |-> call.path.elems,
            ip |-> StartAt(p, call.path)])
  /\ UNCHANGED <<holder, cwd, ofile, lost>>

Walk(p) ==
  LET r == pr[p]
      i == r.ip
      s == ilock(fs, i)
      look == dirlookup(s, i, Head(r.path))
      stop == Put(<<i>>, NotFound(r)) @@ [ip |-> 0]
  IN
  /\ At(p, "walk")
  /\ \/ r.path = <<>> /\ Go(p, stop) /\ UNCHANGED fs
     \/ /\ r.path # <<>> /\ Free(i)
        /\ IF s.icache[i].d.type # "T_DIR" THEN To(s) /\ Go(p, stop)
           ELSE IF Parent(r) /\ Len(r.path) = 1 THEN To(s) /\ Go(p, [pc |-> Found(r)])
           ELSE IF look.i = 0 THEN To(look.s) /\ Go(p, stop)
           ELSE /\ To(iget(look.s, look.i))
                /\ Go(p, Put(<<i>>, Arrive(r, Tail(r.path))) @@ [ip |-> look.i, path |-> Tail(r.path)])
  /\ UNCHANGED <<holder, cwd, ofile, outstanding, budget, lost>>

-----------------------------------------------------------------------------
(* iput(): the i-node is freed outside icache.lock. *)
Entries(s, d) == {off \in Offsets(d) : off >= 2 /\ Slot(s, d, off).n # 0}
Naming(s, d, i) == Cardinality({off \in Entries(s, d) : Slot(s, d, off).n = i})

IPut(p) ==
  LET i == Head(pr[p].puts)
      rest == Tail(pr[p].puts)
      d == fs.icache[i].d
  IN
  /\ At(p, "iput")
  /\ IF LastReference(fs, i)
     THEN /\ To(iupdate([itrunc(fs, i) EXCEPT !.icache[i].d.type = "none"], i))
          /\ lost' = IF d.type # "T_DIR" THEN lost ELSE [j \in Inodes |-> lost[j] + Naming(fs, d, j)]
          /\ Go(p, [pc |-> "ifree"])
     ELSE /\ To(DropReference(fs, i, FALSE))
          /\ Go(p, [puts |-> rest, pc |-> IF rest = <<>> THEN pr[p].next ELSE "iput"])
          /\ UNCHANGED lost
  /\ UNCHANGED <<holder, cwd, ofile, outstanding, budget>>

\* The second critical section of iput() when it has freed the i-node.
IFree(p) ==
  LET rest == Tail(pr[p].puts) IN
  /\ At(p, "ifree")
  /\ To(DropReference(fs, Head(pr[p].puts), TRUE))
  /\ Go(p, [puts |-> rest, pc |-> IF rest = <<>> THEN pr[p].next ELSE "iput"])
  /\ UNCHANGED <<holder, cwd, ofile, outstanding, budget, lost>>

EndOp(p) ==
  /\ At(p, "end")
  /\ outstanding' = outstanding - 1
  /\ pr' = [pr EXCEPT ![p] = Idle]
  /\ UNCHANGED <<fs, holder, cwd, ofile, budget, lost>>

-----------------------------------------------------------------------------
(* create(): ip is the directory. *)
CreateLookup(p) ==
  LET dp == pr[p].ip
      look == dirlookup(ilock(fs, dp), dp, pr[p].path[1])
  IN
  /\ At(p, "create") /\ Free(dp)
  /\ IF look.i # 0
     THEN /\ To(iget(look.s, look.i))
          /\ Go(p, Put(<<dp>>, "exists") @@ [ip |-> look.i])
          /\ UNCHANGED holder
     ELSE To(look.s) /\ Take(dp, p) /\ Go(p, [pc |-> "ialloc"])
  /\ UNCHANGED <<cwd, ofile, outstanding, budget, lost>>

\* The end of open(), with i locked: filealloc() and fdalloc(), then iunlock().
Opened(p, i, s) ==
  /\ To(s)
  /\ IF ofile[p] # NoFile THEN Go(p, Finish(i)) /\ UNCHANGED ofile
     ELSE /\ Go(p, Return)
          /\ ofile' = [ofile EXCEPT ![p] = [NoFile EXCEPT !.ip = i,
                                            !.writable = pr[p].call.mode # "O_RDONLY"]]

CreateExists(p) ==
  LET i == pr[p].ip
      s == ilock(fs, i)
  IN
  /\ At(p, "exists") /\ Free(i)
  /\ IF CreateType(pr[p].call) = "T_FILE" /\ s.icache[i].d.type = "T_FILE" THEN Opened(p, i, s)
     ELSE To(s) /\ Go(p, Finish(i)) /\ UNCHANGED ofile
  /\ UNCHANGED <<holder, cwd, outstanding, budget, lost>>

CreateAlloc(p) ==
  LET a == ialloc(fs, CreateType(pr[p].call)) IN
  /\ At(p, "ialloc")
  /\ To(a.s)
  /\ Go(p, [pc |-> "init", tgt |-> a.i])
  /\ UNCHANGED <<holder, cwd, ofile, outstanding, budget, lost>>

\* create() from the iget() in ialloc() to iunlockput(dp).
CreateInit(p) ==
  LET dp == pr[p].ip
      i == pr[p].tgt
      s1 == ilock(iget(fs, i), i)
      s2 == iupdate([s1 EXCEPT !.icache[i].d.nlink = 1], i)
      s3 == iupdate([s2 EXCEPT !.icache[dp].d.nlink = @ + 1], dp)
      s4 == dirlink(dirlink(s3, i, ".", i), i, "..", dp)
  IN
  /\ At(p, "init") /\ Free(i)
  /\ To(dirlink(IF pr[p].call.op = "mkdir" THEN s4 ELSE s2, dp, pr[p].path[1], i))
  /\ holder' = [holder EXCEPT ![dp] = Nobody, ![i] = p]
  /\ Go(p, Put(<<dp>>, "created") @@ [ip |-> 0])
  /\ UNCHANGED <<cwd, ofile, outstanding, budget, lost>>

\* Back in open(), mkdir() or mknod() with a new i-node locked.
Created(p) ==
  LET i == pr[p].tgt IN
  /\ At(p, "created")
  /\ Take(i, Nobody)
  /\ IF pr[p].call.op = "open" THEN Opened(p, i, fs)
     ELSE Go(p, Finish(i)) /\ UNCHANGED <<fs, ofile>>
  /\ UNCHANGED <<cwd, outstanding, budget, lost>>

\* open() of a path that exists.
Open(p) ==
  LET i == pr[p].ip
      s == ilock(fs, i)
  IN
  /\ At(p, "open") /\ Free(i)
  /\ IF s.icache[i].d.type = "T_DIR" /\ pr[p].call.mode # "O_RDONLY"
     THEN To(s) /\ Go(p, Finish(i)) /\ UNCHANGED ofile
     ELSE Opened(p, i, s)
  /\ UNCHANGED <<holder, cwd, outstanding, budget, lost>>

Chdir(p) ==
  LET i == pr[p].ip
      s == ilock(fs, i)
  IN
  /\ At(p, "chdir") /\ Free(i)
  /\ To(s)
  /\ IF s.icache[i].d.type # "T_DIR" THEN Go(p, Finish(i)) /\ UNCHANGED cwd
     ELSE Go(p, Finish(cwd[p])) /\ cwd' = [cwd EXCEPT ![p] = i]
  /\ UNCHANGED <<holder, ofile, outstanding, budget, lost>>

-----------------------------------------------------------------------------
(* unlink(): ip is the directory, tgt the i-node that loses an entry. *)
UnlinkLookup(p) ==
  LET dp == pr[p].ip
      s == ilock(fs, dp)
      look == dirlookup(s, dp, pr[p].path[1])
  IN
  /\ At(p, "unlink") /\ Free(dp)
  /\ IF pr[p].path[1] \in {".", ".."} THEN To(s) /\ Go(p, Finish(dp)) /\ UNCHANGED holder
     ELSE IF look.i = 0 THEN To(look.s) /\ Go(p, Finish(dp)) /\ UNCHANGED holder
     ELSE To(iget(look.s, look.i)) /\ Take(dp, p) /\ Go(p, [pc |-> "unlinkentry", tgt |-> look.i])
  /\ UNCHANGED <<cwd, ofile, outstanding, budget, lost>>

UnlinkEntry(p) ==
  LET dp == pr[p].ip
      i == pr[p].tgt
      s == ilock(fs, i)
      isdir == s.icache[i].d.type = "T_DIR"
      s1 == writei(s, dp, dirlookup(s, dp, pr[p].path[1]).off, Zero)
      s2 == IF isdir THEN iupdate([s1 EXCEPT !.icache[dp].d.nlink = @ - 1], dp) ELSE s1
  IN
  /\ At(p, "unlinkentry") /\ Free(i)
  /\ IF s.icache[i].d.nlink < 1 THEN To(panic(s, "unlink: nlink < 1")) /\ UNCHANGED <<holder, pr>>
     ELSE IF isdir /\ ~isdirempty(s, i)
     THEN To(s) /\ Go(p, Put(<<i>>, "unlinkbad") @@ [tgt |-> 0]) /\ UNCHANGED holder
     ELSE /\ To(s2)
          /\ holder' = [holder EXCEPT ![dp] = Nobody, ![i] = p]
          /\ Go(p, Put(<<dp>>, "unlinked") @@ [ip |-> 0])
  /\ UNCHANGED <<cwd, ofile, outstanding, budget, lost>>

UnlinkBad(p) ==
  /\ At(p, "unlinkbad")
  /\ Take(pr[p].ip, Nobody)
  /\ Go(p, Finish(pr[p].ip))
  /\ UNCHANGED <<fs, cwd, ofile, outstanding, budget, lost>>

Unlinked(p) ==
  LET i == pr[p].tgt IN
  /\ At(p, "unlinked")
  /\ To(iupdate([fs EXCEPT !.icache[i].d.nlink = @ - 1], i))
  /\ Take(i, Nobody)
  /\ Go(p, Finish(i))
  /\ UNCHANGED <<cwd, ofile, outstanding, budget, lost>>

-----------------------------------------------------------------------------
(* link(): ip is the i-node, then tgt while ip is the directory for it. *)
Link(p) ==
  LET i == pr[p].ip
      s == ilock(fs, i)
      to == pr[p].call.to
  IN
  /\ At(p, "link") /\ Free(i)
  /\ IF s.icache[i].d.type = "T_DIR" THEN To(s) /\ Go(p, Finish(i))
     ELSE /\ To(Start(iupdate([s EXCEPT !.icache[i].d.nlink = @ + 1], i), p, to))
          /\ Go(p, [pc |-> "walk", tgt |-> i, ip |-> StartAt(p, to), path |-> to.elems])
  /\ UNCHANGED <<holder, cwd, ofile, outstanding, budget, lost>>

LinkEntry(p) ==
  LET dp == pr[p].ip
      i == pr[p].tgt
      s == ilock(fs, dp)
      look == dirlookup(s, dp, pr[p].path[1])
  IN
  /\ At(p, "linkentry") /\ Free(dp)
  /\ IF look.i # 0
     THEN /\ To(iget(look.s, look.i))
          /\ Take(dp, p)
          /\ Go(p, Put(<<look.i>>, "linkdup"))
     ELSE /\ To(dirlink(s, dp, pr[p].path[1], i))
          /\ Go(p, Put(<<dp, i>>, "end") @@ Return)
          /\ UNCHANGED holder
  /\ UNCHANGED <<cwd, ofile, outstanding, budget, lost>>

\* dirlink() has found the name: iunlockput(dp).
LinkDup(p) ==
  /\ At(p, "linkdup")
  /\ Take(pr[p].ip, Nobody)
  /\ Go(p, Put(<<pr[p].ip>>, "linkbad") @@ [ip |-> 0])
  /\ UNCHANGED <<fs, cwd, ofile, outstanding, budget, lost>>

\* A mutant of LinkBad.
LinkBadKeeps(p) ==
  LET i == pr[p].tgt IN
  /\ At(p, "linkbad") /\ Free(i)
  /\ Go(p, Finish(i))
  /\ UNCHANGED <<fs, holder, cwd, ofile, outstanding, budget, lost>>

LinkBad(p) ==
  LET i == pr[p].tgt
      s == ilock(fs, i)
  IN
  /\ At(p, "linkbad") /\ Free(i)
  /\ To(iupdate([s EXCEPT !.icache[i].d.nlink = @ - 1], i))
  /\ Go(p, Finish(i))
  /\ UNCHANGED <<holder, cwd, ofile, outstanding, budget, lost>>

-----------------------------------------------------------------------------
(* Open files: fileclose(), filewrite() of at most one chunk, fileread(). *)
EnterFile(p, changes) ==
  /\ At(p, "user")
  /\ budget.calls > 0 /\ budget' = [budget EXCEPT !.calls = @ - 1]
  /\ outstanding' = outstanding + 1
  /\ Go(p, changes)
  /\ UNCHANGED <<fs, holder, cwd, lost>>

Close(p) ==
  /\ ofile[p] # NoFile
  /\ EnterFile(p, Finish(ofile[p].ip))
  /\ ofile' = [ofile EXCEPT ![p] = NoFile]

Write(p) ==
  /\ ofile[p].writable
  /\ EnterFile(p, [pc |-> "write"])
  /\ UNCHANGED ofile

WriteChunk(p) ==
  LET f == ofile[p]
      s == ilock(fs, f.ip)
      n == WriteSize
  IN
  /\ At(p, "write") /\ Free(f.ip)
  /\ IF s.icache[f.ip].d.type = "T_DEV" \/ f.off + n > MAXFILE * BSIZE THEN To(s) /\ UNCHANGED ofile
     ELSE /\ To(FoldLeft(LAMBDA acc, k : writei(acc, f.ip, f.off + k - 1, Datum), s, [k \in 1..n |-> k]))
          /\ ofile' = [ofile EXCEPT ![p].off = @ + n]
  /\ Go(p, Return)
  /\ UNCHANGED <<holder, cwd, outstanding, budget, lost>>

\* read() is outside any transaction.
Read(p) ==
  LET f == ofile[p]
      s == ilock(fs, f.ip)
      d == s.icache[f.ip].d
      n == Min({WriteSize, d.size - f.off})
  IN
  /\ At(p, "user") /\ f # NoFile /\ Free(f.ip)
  /\ budget.calls > 0 /\ budget' = [budget EXCEPT !.calls = @ - 1]
  /\ IF d.type = "T_DEV" THEN To(s) /\ UNCHANGED ofile
     ELSE To(readi(s, f.ip, f.off + n)) /\ ofile' = [ofile EXCEPT ![p].off = @ + n]
  /\ UNCHANGED <<holder, pr, cwd, outstanding, lost>>

-----------------------------------------------------------------------------
\* A crash, and the next boot.
Reboot ==
  /\ outstanding = 0 /\ fs.panic = "no"
  /\ budget.boots > 0 /\ budget' = [budget EXCEPT !.boots = @ - 1]
  /\ fs' = Booted(fs)
  /\ holder' = [i \in Inodes |-> Nobody]
  /\ pr' = [p \in Procs |-> Idle]
  /\ cwd' = [p \in Procs |-> ROOTINO]
  /\ ofile' = [p \in Procs |-> NoFile]
  /\ UNCHANGED <<outstanding, lost>>

\* panic() does not return; and the bounded end of the calls.
Halted ==
  /\ fs.panic # "no" \/ (budget.calls = 0 /\ \A p \in Procs : pr[p].pc = "user")
  /\ UNCHANGED fsVars

Step(p) ==
  \/ Walk(p) \/ IPut(p) \/ IFree(p) \/ EndOp(p)
  \/ CreateLookup(p) \/ CreateExists(p) \/ CreateAlloc(p) \/ CreateInit(p) \/ Created(p)
  \/ Open(p) \/ Chdir(p) \/ WriteChunk(p)
  \/ UnlinkLookup(p) \/ UnlinkEntry(p) \/ UnlinkBad(p) \/ Unlinked(p)
  \/ Link(p) \/ LinkEntry(p) \/ LinkDup(p) \/ LinkBad(p)

Next ==
  \/ \E p \in Procs : Step(p) \/ Close(p) \/ Write(p) \/ Read(p) \/ \E c \in Loads[budget.load].calls : Enter(p, c)
  \/ Reboot
  \/ Halted

-----------------------------------------------------------------------------
(* Properties. *)
FsTypeOK ==
  /\ \A i \in Inodes : /\ fs.dinode[i].nlink \in Nat
                       /\ fs.dinode[i].size \in 0..MAXFILE * BSIZE
                       /\ fs.icache[i].ref \in Nat
                       /\ holder[i] \in Procs \cup {Nobody}
  /\ fs.used \subseteq 0..FSSIZE - 1
  /\ outstanding = Cardinality({p \in Procs : pr[p].pc # "user"})

\* iget(), idup() and iput() (fs.c): the count ref of a cached i-node is the
\* number of pointers to it, in current directories, in open files and in the
\* calls under way, whichever way those calls end.
RefsHeld(p, i) ==
  Cardinality({f \in {"cwd", "file", "ip", "tgt"} :
     CASE f = "cwd" -> cwd[p] = i [] f = "file" -> ofile[p].ip = i [] f = "ip" -> pr[p].ip = i
       [] OTHER -> pr[p].tgt = i /\ pr[p].pc # "init"})
  + Cardinality({k \in DOMAIN pr[p].puts : pr[p].puts[k] = i})
InodeRefsCounted ==
  FsTypeOK /\ \A i \in Inodes : fs.icache[i].ref = MapThenSumSet(LAMBDA p : RefsHeld(p, i), Procs)

\* At every moment at which a crash can find the disk, nobody inside a
\* transaction, link(), unlink() and create() (sysfile.c) have left a tree:
\* every entry names an allocated i-node, no name is in a directory twice, "."
\* names the directory and ".." of one that is not removed another directory.
Allocated == {i \in Inodes : fs.dinode[i].type # "none"}
Dirs == {i \in Inodes : fs.dinode[i].type = "T_DIR"}
SlotOf(i, off) == Slot(fs, fs.dinode[i], off)
TreeWellFormed ==
  outstanding = 0 /\ fs.panic = "no" =>
    \A i \in Dirs :
      /\ SlotOf(i, 0) = [n |-> i, name |-> "."]
      /\ SlotOf(i, 1).name = ".." /\ (fs.dinode[i].nlink > 0 => SlotOf(i, 1).n \in Dirs)
      /\ \A off \in Entries(fs, fs.dinode[i]) :
           /\ SlotOf(i, off).n \in Allocated
           /\ \A o \in Entries(fs, fs.dinode[i]) \ {off} : SlotOf(i, o).name # SlotOf(i, off).name

\* At the same moments the link count of an i-node (fs.h: "Number of links to
\* inode in file system") is the number of entries that name it; it is larger
\* only by the entries that were in a removed directory when that was freed.
LinksTo(i) ==
  MapThenSumSet(LAMBDA d : Naming(fs, fs.dinode[d], i)
                           + (IF fs.dinode[d].nlink > 0 /\ SlotOf(d, 1).n = i THEN 1 ELSE 0), Dirs)
LinksCounted ==
  outstanding = 0 /\ fs.panic = "no" =>
    \A i \in Allocated : fs.dinode[i].nlink = LinksTo(i) + lost[i]

\* balloc(), bmap() and itrunc() (fs.c): a data block is marked in the free map
\* exactly when one place in one i-node, or in its indirect block, refers to it.
RefersTo(i, b) ==
  LET d == fs.dinode[i] IN
  Cardinality({bn \in 0..NDIRECT : d.addrs[bn] = b})
  + (IF d.addrs[NDIRECT] = 0 THEN 0
     ELSE Cardinality({o \in 0..NINDIRECT - 1 : fs.data[d.addrs[NDIRECT]][o].n = b}))
BlocksOwned ==
  fs.panic = "no" =>
    \A b \in Blocks : MapThenSumSet(LAMBDA i : RefersTo(i, b), Inodes) = IF b \in fs.used THEN 1 ELSE 0

\* ilock() and iupdate() (fs.c): what the cache holds of an i-node that nobody
\* has locked is what the disk holds.
CopiesAgree ==
  \A i \in Inodes : fs.icache[i].valid /\ Free(i) => fs.icache[i].d = fs.dinode[i]

\* The panics of fs.c and sysfile.c that are assertions ("ilock: no type",
\* "freeing free block", "unlink: nlink < 1", "dirlookup not DIR") are never
\* reached; the others say that the disk or the i-node cache is full.
Exhausted == {"balloc: out of blocks", "ialloc: no inodes", "iget: no inodes", "dirlink",
              "bmap: out of range"}

\* iput() (fs.c): when the last pointer to an i-node goes and it has no links,
\* it has been freed on the disk; only a crash leaves one behind.
LastReferenceFrees ==
  [][budget'.boots = budget.boots =>
       \A i \in Inodes : fs.icache[i].ref > 0 /\ fs'.icache[i].ref = 0 =>
         fs'.dinode[i].type = "none" \/ fs'.dinode[i].nlink > 0]_fsVars
=============================================================================
