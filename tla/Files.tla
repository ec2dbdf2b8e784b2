------------------------------- MODULE Files -------------------------------
(***************************************************************************)
(* File descriptors, the file table and pipes: pipe.c, the pipe side of    *)
(* file.c, and the calls of sysfile.c and proc.c that use them (pipe, dup, *)
(* close, read, write, fork, exit, kill).                                  *)
(*                                                                         *)
(* One step is one critical section of ftable.lock or of a pipe's lock,    *)
(* together with what the process does to its own descriptors before it.   *)
(***************************************************************************)
EXTENDS Integers, SequencesExt, FiniteSetsExt

CONSTANTS
  Procs, initp,       \* process slots, and the one that runs at first
  NOFILE, NFILE,
  Pages,              \* memory that kalloc() can give to pipes
  PIPESIZE,
  UintRange,          \* nread and nwrite wrap here; 2^32 in C
  Writes,             \* what write() is called with: sequences of bytes
  Reads,              \* how much read() asks for
  NoByte

ASSUME FilesAssumption ==
  /\ initp \in Procs
  /\ {NOFILE, NFILE, PIPESIZE, UintRange} \subseteq Nat \ {0}
  /\ UintRange % PIPESIZE = 0 /\ UintRange > PIPESIZE
  /\ Reads \subseteq Nat

VARIABLES
  ofile,      \* ofile[p][fd]: a file or 0
  ftable,     \* ref, type, writable and pipe of every file
  pipe,       \* the pipe in a page
  pc,         \* what a process is doing
  killed, exiting,
  held,       \* files a process has a reference to outside its descriptors
  closing,    \* the copy ff that fileclose() hands to pipeclose()
  left,       \* bytes a writer has still to write
  using,      \* the pipe a reader or writer is at
  cut         \* history: a killed writer left bytes in it and woke no reader since

filesVars == <<ofile, ftable, pipe, pc, killed, exiting, held, closing, left, using, cut>>

Files == 1..NFILE
FDs == 0..NOFILE - 1
NoPipe == 0
Busy == {"filealloc", "kalloc", "close", "pipeclose", "piperead", "pipewrite"}
Asleep == {"readsleep", "writesleep"}
FreeFile == [ref |-> 0, type |-> "FD_NONE", writable |-> FALSE, pipe |-> NoPipe]
FreePage == [used |-> FALSE, readopen |-> FALSE, writeopen |-> FALSE, nread |-> 0, nwrite |-> 0,
             data |-> [j \in 0..PIPESIZE - 1 |-> NoByte]]
Bytes == UNION {ToSet(w) : w \in Writes}

FilesTypeOK ==
  /\ ofile \in [Procs -> [FDs -> Files \cup {0}]]
  /\ ftable \in [Files -> [ref : Nat, type : {"FD_NONE", "FD_PIPE"}, writable : BOOLEAN,
                           pipe : Pages \cup {NoPipe}]]
  /\ pipe \in [Pages -> [used : BOOLEAN, readopen : BOOLEAN, writeopen : BOOLEAN,
                         nread : 0..UintRange - 1, nwrite : 0..UintRange - 1,
                         data : [0..PIPESIZE - 1 -> Bytes \cup {NoByte}]]]
  /\ pc \in [Procs -> {"gone", "user"} \cup Busy \cup Asleep]
  /\ killed \in [Procs -> BOOLEAN] /\ exiting \in [Procs -> BOOLEAN]
  /\ held \in [Procs -> Seq(Files)]
  /\ closing \in [Procs -> {FreeFile} \cup [type : {"FD_PIPE"}, ref : {0}, writable : BOOLEAN, pipe : Pages]]
  /\ using \in [Procs -> Pages \cup {NoPipe}]
  /\ cut \in [Pages -> BOOLEAN]

FilesInit ==
  /\ ofile = [p \in Procs |-> [fd \in FDs |-> 0]]
  /\ ftable = [f \in Files |-> FreeFile]
  /\ pipe = [q \in Pages |-> FreePage]
  /\ pc = [p \in Procs |-> IF p = initp THEN "user" ELSE "gone"]
  /\ killed = [p \in Procs |-> FALSE] /\ exiting = [p \in Procs |-> p # initp]
  /\ held = [p \in Procs |-> <<>>]
  /\ closing = [p \in Procs |-> FreeFile]
  /\ left = [p \in Procs |-> <<>>]
  /\ using = [p \in Procs |-> NoPipe]
  /\ cut = [q \in Pages |-> FALSE]

\* The kernel is entered only by a process that is not killed: trap() makes a
\* killed one exit first.
At(p, place) == pc[p] = place
Go(p, place) == pc' = [pc EXCEPT ![p] = place]

-----------------------------------------------------------------------------
\* Mutants of operations below.
BothEndsOpen(pp) == pp.readopen /\ pp.writeopen
RoomOneMore(q) == CHOOSE k \in 0..UintRange - 1 :
  (pipe[q].nwrite + k) % UintRange = (pipe[q].nread + PIPESIZE + 1) % UintRange

FreeFDs(p) == {fd \in FDs : ofile[p][fd] = 0}
OpenFDs(p) == FDs \ FreeFDs(p)
FreeFiles == {f \in Files : ftable[f].ref = 0}

\* Where p goes on when it has files in rest to give up.
GivingUp(p, rest) ==
  IF rest # <<>> THEN "close" ELSE IF exiting[p] THEN "gone" ELSE "user"

\* sys_pipe(): pipealloc() takes two files, one after the other, and a page;
\* then fdalloc() finds two descriptors.
filealloc(p) ==
  /\ (At(p, "user") /\ ~killed[p]) \/ At(p, "filealloc")
  /\ IF FreeFiles = {}
     THEN Go(p, GivingUp(p, held[p])) /\ UNCHANGED <<ftable, held>>
     ELSE LET f == Min(FreeFiles) IN
          /\ ftable' = [ftable EXCEPT ![f].ref = 1]
          /\ held' = [held EXCEPT ![p] = Append(@, f)]
          /\ Go(p, IF held[p] = <<>> THEN "filealloc" ELSE "kalloc")
  /\ UNCHANGED <<ofile, pipe, killed, exiting, closing, left, using, cut>>

fdalloc(p) ==
  LET fd0 == Min(FreeFDs(p))
      fd1 == Min(FreeFDs(p) \ {fd0})
  IN  ofile' = [ofile EXCEPT ![p][fd0] = held[p][1], ![p][fd1] = held[p][2]]

\* kalloc(), and the pipe, its two files and their descriptors set up.
pipealloc(p) ==
  /\ At(p, "kalloc")
  /\ \/ /\ \A q \in Pages : pipe[q].used
        /\ Go(p, "close")
        /\ UNCHANGED <<ofile, ftable, pipe, held>>
     \/ \E q \in {x \in Pages : ~pipe[x].used} :
          /\ pipe' = [pipe EXCEPT ![q] = [FreePage EXCEPT !.used = TRUE, !.readopen = TRUE,
                                                          !.writeopen = TRUE]]
          /\ ftable' = [f \in Files |->
               IF f \in ToSet(held[p])
               THEN [ftable[f] EXCEPT !.type = "FD_PIPE", !.writable = (f = held[p][2]), !.pipe = q]
               ELSE ftable[f]]
          /\ IF Cardinality(FreeFDs(p)) < 2
             THEN Go(p, "close") /\ UNCHANGED <<ofile, held>>
             ELSE fdalloc(p) /\ Go(p, "user") /\ held' = [held EXCEPT ![p] = <<>>]
  /\ UNCHANGED <<killed, exiting, closing, left, using, cut>>

\* sys_dup(), when fdalloc() finds a descriptor; filedup().
sys_dup(p, fd) ==
  /\ At(p, "user") /\ ~killed[p]
  /\ fd \in OpenFDs(p) /\ FreeFDs(p) # {}
  /\ ofile' = [ofile EXCEPT ![p][Min(FreeFDs(p))] = ofile[p][fd]]
  /\ ftable' = [ftable EXCEPT ![ofile[p][fd]].ref = @ + 1]
  /\ UNCHANGED <<pipe, pc, killed, exiting, held, closing, left, using, cut>>

Descriptors(p, f) == Cardinality({fd \in FDs : ofile[p][fd] = f})

\* The part of fork() that concerns files.  Every filedup() only raises a count
\* that the parent itself keeps above 0, so they are one step.
fork(p, c) ==
  /\ At(p, "user") /\ ~killed[p] /\ At(c, "gone")
  /\ ofile' = [ofile EXCEPT ![c] = ofile[p]]
  /\ ftable' = [f \in Files |->
       [ftable[f] EXCEPT !.ref = @ + Descriptors(p, f)]]
  /\ exiting' = [exiting EXCEPT ![c] = FALSE]
  /\ Go(c, "user")
  /\ UNCHANGED <<pipe, killed, held, closing, left, using, cut>>

-----------------------------------------------------------------------------
\* fileclose() of the first of the files in give, up to the release of ftable.lock.
GiveUp(p, give) ==
  LET f == Head(give)
      rest == Tail(give)
  IN
  /\ ftable' = [ftable EXCEPT ![f] = IF @.ref > 1 THEN [@ EXCEPT !.ref = @ - 1] ELSE FreeFile]
  /\ IF ftable[f].ref = 1 /\ ftable[f].type = "FD_PIPE"
     THEN closing' = [closing EXCEPT ![p] = [ftable[f] EXCEPT !.ref = 0]] /\ Go(p, "pipeclose")
     ELSE UNCHANGED closing /\ Go(p, GivingUp(p, rest))
  /\ held' = [held EXCEPT ![p] = rest]
  /\ UNCHANGED <<pipe, killed, exiting, left, using, cut>>

fileclose(p) ==
  /\ At(p, "close")
  /\ GiveUp(p, held[p])
  /\ UNCHANGED ofile

sys_close(p, fd) ==
  /\ At(p, "user") /\ ~killed[p]
  /\ fd \in OpenFDs(p)
  /\ ofile' = [ofile EXCEPT ![p][fd] = 0]
  /\ GiveUp(p, <<ofile[p][fd]>>)

\* exit() closes every descriptor; killed processes come here from trap().
exit(p) ==
  /\ At(p, "user") /\ p # initp
  /\ LET fds == SetToSortSeq(OpenFDs(p), <)
     IN  held' = [held EXCEPT ![p] = [i \in DOMAIN fds |-> ofile[p][fds[i]]]]
  /\ ofile' = [ofile EXCEPT ![p] = [fd \in FDs |-> 0]]
  /\ exiting' = [exiting EXCEPT ![p] = TRUE]
  /\ killed' = [killed EXCEPT ![p] = FALSE]     \* nobody tests it again
  /\ Go(p, IF held'[p] = <<>> THEN "gone" ELSE "close")
  /\ UNCHANGED <<ftable, pipe, closing, left, using, cut>>

\* wakeup(&q->nread) and wakeup(&q->nwrite): the sleepers test again.
WakeReaders(places, q) ==
  [p \in Procs |-> IF places[p] = "readsleep" /\ using[p] = q THEN "piperead" ELSE places[p]]
WakeWriters(places, q) ==
  [p \in Procs |-> IF places[p] = "writesleep" /\ using[p] = q THEN "pipewrite" ELSE places[p]]

EndOpen(pp) == pp.readopen \/ pp.writeopen

pipeclose(p) ==
  LET q == closing[p].pipe
      next == [pipe[q] EXCEPT !.writeopen = @ /\ ~closing[p].writable,
                              !.readopen = @ /\ closing[p].writable]
  IN
  /\ At(p, "pipeclose")
  /\ pipe' = [pipe EXCEPT ![q] = IF EndOpen(next) THEN next ELSE FreePage]
  /\ pc' = [(IF closing[p].writable THEN WakeReaders(pc, q) ELSE WakeWriters(pc, q)) 
            EXCEPT ![p] = GivingUp(p, held[p])]
  /\ closing' = [closing EXCEPT ![p] = FreeFile]
  /\ cut' = [cut EXCEPT ![q] = @ /\ EndOpen(next)]
  /\ UNCHANGED <<ofile, ftable, killed, exiting, held, left, using>>

-----------------------------------------------------------------------------
\* How often the loops of pipewrite() and piperead() can go round before their
\* tests for a full and an empty pipe hold; the counters wrap.
Room(q) == CHOOSE k \in 0..UintRange - 1 :
  (pipe[q].nwrite + k) % UintRange = (pipe[q].nread + PIPESIZE) % UintRange
Available(q) == CHOOSE k \in 0..UintRange - 1 : (pipe[q].nread + k) % UintRange = pipe[q].nwrite

Plus(n, k) == (n + k) % UintRange

sys_write(p, fd, w) ==
  /\ fd \in OpenFDs(p) /\ ftable[ofile[p][fd]].writable
  /\ At(p, "user") /\ ~killed[p] /\ Go(p, "pipewrite")
  /\ left' = [left EXCEPT ![p] = w]
  /\ using' = [using EXCEPT ![p] = ftable[ofile[p][fd]].pipe]
  /\ UNCHANGED <<ofile, ftable, pipe, killed, exiting, held, closing, cut>>

\* The data of q after k bytes of w have been put into it.
Stored(q, w, k) == [j \in 0..PIPESIZE - 1 |->
  LET S == {i \in 1..k : (pipe[q].nwrite + i - 1) % PIPESIZE = j}
  IN  IF S = {} THEN pipe[q].data[j] ELSE w[Max(S)]]

\* Its data after k bytes have been read; nobody looks at those again.
Taken(q, k) == [j \in 0..PIPESIZE - 1 |->
  IF \E i \in 1..k : (pipe[q].nread + i - 1) % PIPESIZE = j THEN NoByte ELSE pipe[q].data[j]]

\* pipewrite() while it has the pipe's lock: until it is done, fails or sleeps.
pipewrite(p) ==
  LET q == using[p]
      k == Min({Len(left[p]), Room(q)})
      done == k = Len(left[p])
      fails == ~done /\ (~pipe[q].readopen \/ killed[p])
  IN
  /\ At(p, "pipewrite")
  /\ pipe' = [pipe EXCEPT ![q].data = Stored(q, left[p], k), ![q].nwrite = Plus(@, k)]
  /\ pc' = IF fails THEN [pc EXCEPT ![p] = "user"]
           ELSE [WakeReaders(pc, q) EXCEPT ![p] = IF done THEN "user" ELSE "writesleep"]
  /\ left' = [left EXCEPT ![p] = IF done \/ fails THEN <<>> ELSE SubSeq(@, k + 1, Len(@))]
  /\ using' = [using EXCEPT ![p] = IF done \/ fails THEN NoPipe ELSE q]
  /\ cut' = [cut EXCEPT ![q] = fails /\ (@ \/ k > 0)]
  /\ UNCHANGED <<ofile, ftable, killed, exiting, held, closing>>

\* sys_read() of a file that refers to q, or the reader woken up again.
sys_read(p, q) ==
  \/ At(p, "piperead") /\ using[p] = q
  \/ /\ At(p, "user") /\ ~killed[p]
     /\ \E fd \in OpenFDs(p) : LET f == ftable[ofile[p][fd]] IN ~f.writable /\ f.pipe = q

\* piperead() of n bytes while it has the lock.
piperead(p, q, n) ==
  LET k == Min({n, Available(q)})
      empty == Available(q) = 0 /\ pipe[q].writeopen
  IN
  /\ sys_read(p, q)
  /\ \/ /\ empty /\ ~killed[p]
        /\ Go(p, "readsleep")
        /\ using' = [using EXCEPT ![p] = q]
        /\ UNCHANGED <<pipe, cut>>
     \/ /\ empty /\ killed[p]
        /\ Go(p, "user")
        /\ using' = [using EXCEPT ![p] = NoPipe]
        /\ UNCHANGED <<pipe, cut>>
     \/ /\ ~empty
        /\ pipe' = [pipe EXCEPT ![q].nread = Plus(@, k), ![q].data = Taken(q, k)]
        /\ pc' = [WakeWriters(pc, q) EXCEPT ![p] = "user"]
        /\ using' = [using EXCEPT ![p] = NoPipe]
        /\ cut' = [cut EXCEPT ![q] = @ /\ k < Available(q)]
  /\ UNCHANGED <<ofile, ftable, killed, exiting, held, closing, left>>

\* kill() sets the flag and ends the victim's sleep.
kill(p) ==
  /\ ~killed[p] /\ ~exiting[p] /\ p # initp
  /\ killed' = [killed EXCEPT ![p] = TRUE]
  /\ pc' = [pc EXCEPT ![p] = CASE @ = "readsleep" -> "piperead"
                               [] @ = "writesleep" -> "pipewrite"
                               [] OTHER -> @]
  /\ UNCHANGED <<ofile, ftable, pipe, exiting, held, closing, left, using, cut>>

-----------------------------------------------------------------------------
\* A process that is inside the kernel and awake goes on.
KernelStep(p) ==
  \/ filealloc(p) \/ pipealloc(p) \/ fileclose(p) \/ pipeclose(p) \/ pipewrite(p)
  \/ \E q \in Pages, n \in Reads : piperead(p, q, n)

UserStep(p) ==
  \/ exit(p)
  \/ \E c \in Procs : fork(p, c)
  \/ \E fd \in FDs :
       \/ sys_dup(p, fd) \/ sys_close(p, fd)
       \/ \E w \in Writes : sys_write(p, fd, w)

FilesNext == \E p \in Procs : KernelStep(p) \/ UserStep(p) \/ kill(p)

FilesSpec == FilesInit /\ [][FilesNext]_filesVars

-----------------------------------------------------------------------------
(***************************************************************************)
(* A file's ref is the number of descriptors, in all processes, and of     *)
(* calls under way that refer to it, through pipe(), dup(), fork(), the    *)
(* failures of pipealloc() and fdalloc(), close() and exit().  So no file  *)
(* is freed while somebody can still use it, and none is leaked.           *)
(***************************************************************************)
RefsCounted ==
  \A f \in Files : ftable[f].ref =
    Cardinality({x \in Procs \X FDs : ofile[x[1]][x[2]] = f})
    + Cardinality({x \in Procs \X (1..NOFILE) : x[2] \in DOMAIN held[x[1]] /\ held[x[1]][x[2]] = f})

End(q, w) == \E f \in Files : ftable[f].type = "FD_PIPE" /\ ftable[f].pipe = q /\ ftable[f].writable = w
Closing(q, w) == \E p \in Procs : At(p, "pipeclose") /\ closing[p].pipe = q /\ closing[p].writable = w

(***************************************************************************)
(* readopen and writeopen say which ends of a pipe have a file, or one     *)
(* that fileclose() has taken out of the table and pipeclose() has not yet *)
(* closed; a page is in use exactly while an end is open; and whoever is   *)
(* inside piperead() or pipewrite() has a page that is in use.             *)
(***************************************************************************)
PipeOwnership ==
  /\ FilesTypeOK /\ RefsCounted
  /\ \A q \in Pages :
       /\ pipe[q].writeopen <=> End(q, TRUE) \/ Closing(q, TRUE)
       /\ pipe[q].readopen <=> End(q, FALSE) \/ Closing(q, FALSE)
       /\ pipe[q].used <=> pipe[q].readopen \/ pipe[q].writeopen
  /\ \A p \in Procs : using[p] # NoPipe => pipe[using[p]].used


\* The bytes in a pipe, oldest first.
Contents(q) ==
  [i \in 1..(pipe[q].nwrite - pipe[q].nread) % UintRange |->
     pipe[q].data[(pipe[q].nread + i - 1) % PIPESIZE]]

(***************************************************************************)
(* A pipe is a queue of at most PIPESIZE bytes: a step leaves its contents *)
(* alone, takes some from the front, appends the next bytes of one writer, *)
(* or throws away a pipe that has no reader; also when nread and nwrite    *)
(* wrap around and several readers and writers take turns.                 *)
(***************************************************************************)
FirstInFirstOut ==
  [][\A q \in Pages :
       LET old == Contents(q)
           new == Contents(q)'
       IN  /\ Len(new) <= PIPESIZE
           /\ \/ IsSuffix(new, old)
              \/ \E p \in Procs, k \in 1..PIPESIZE :
                   /\ using[p] = q /\ k <= Len(left[p]) /\ new = old \o SubSeq(left[p], 1, k)]_filesVars
=============================================================================
