-------------------------------- MODULE MCFs --------------------------------
(***************************************************************************)
(* A disk with the files f and, removed before the start, t, so that the   *)
(* first free i-node is below the ones in use.                             *)
(***************************************************************************)
EXTENDS FsCalls

Abs(elems) == [abs |-> TRUE, elems |-> elems]
Rel(elems) == [abs |-> FALSE, elems |-> elems]
C(op, path) == [NoCall EXCEPT !.op = op, !.path = path]
O(path, mode) == [NoCall EXCEPT !.op = "open", !.path = path, !.mode = mode]
L(path, to) == [NoCall EXCEPT !.op = "link", !.path = path, !.to = to]
f == Abs(<<"f">>)
t == Abs(<<"t">>)
tx == Abs(<<"t", "x">>)
x == Rel(<<"x">>)

\* What two processes do at the same time, and one process for longer.
BusyCalls == {O(f, "O_RDWR"), O(t, "O_CREATE"), C("mkdir", t), C("chdir", t), L(f, tx), L(f, t),
              L(f, x), C("unlink", f), C("unlink", t), C("unlink", tx)}
LongCalls == {O(tx, "O_CREATE"), O(x, "O_CREATE"), C("mkdir", t), C("mkdir", tx), C("mknod", x),
              C("chdir", t), C("chdir", Rel(<<"..">>)), L(t, x), L(f, x), L(f, Abs(<<>>)),
              C("unlink", f), C("unlink", t), C("unlink", tx), C("unlink", Rel(<<".">>))}
NestedCalls == {C("mkdir", t), C("mkdir", tx), C("chdir", tx), C("chdir", Rel(<<"..">>)),
                C("unlink", t), C("unlink", tx)}
MCLoads == [busy |-> [procs |-> Procs, calls |-> BusyCalls],
            long |-> [procs |-> {CHOOSE p \in Procs : TRUE}, calls |-> LongCalls],
            nested |-> [procs |-> {CHOOSE p \in Procs : TRUE}, calls |-> NestedCalls]]

Without(s, name) ==
  LET look == dirlookup(ilock(iget(s, ROOTINO), ROOTINO), ROOTINO, name)
      i == look.i
      gone == itrunc(ilock(iget(writei(look.s, ROOTINO, look.off, Zero), i), i), i)
  IN  [gone EXCEPT !.dinode[i] = FreeInode]

File(name, size) == [name |-> name, size |-> size]
MCInit ==
  /\ Init
  /\ fs = Booted(Without(mkfs(<<File("t", 0), File("f", 4)>>), "t"))
  /\ budget \in {[load |-> "busy", calls |-> 3, creates |-> 1, boots |-> 1],
                 [load |-> "long", calls |-> 5, creates |-> 3, boots |-> 0]}
\* A file is removed whose i-node is then the first free one.
RaceInit ==
  /\ Init
  /\ fs = Booted(mkfs(<<File("f", 4), File("g", 0)>>))
  /\ budget = [load |-> "busy", calls |-> 2, creates |-> 1, boots |-> 0]

\* A directory in a directory.
NestedInit ==
  /\ Init
  /\ fs = Booted(mkfs(<<File("f", 4), File("g", 0)>>))
  /\ budget = [load |-> "nested", calls |-> 6, creates |-> 2, boots |-> 0]

MCSpec == MCInit /\ [][Next]_fsVars
RaceSpec == RaceInit /\ [][Next]_fsVars
NestedSpec == NestedInit /\ [][Next]_fsVars
=============================================================================
