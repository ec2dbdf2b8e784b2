------------------------------- MODULE MCMem -------------------------------
(***************************************************************************)
(* Pages for two processes and a half, address spaces of six pages in      *)
(* three tables.                                                           *)
(***************************************************************************)
EXTENDS Mem

Seg(to, bad) == [to |-> to, bad |-> bad]
MCPages == 1..15
Slots == Permutations(Procs \ {initp})
MCGrows == {3, -2, -4}
MCPrograms == {
  [segs |-> <<Seg(3, "no"), Seg(2, "no")>>, args |-> 1],
  [segs |-> <<Seg(1, "no")>>, args |-> 5],
  [segs |-> <<Seg(3, "no"), Seg(5, "before")>>, args |-> 1],
  [segs |-> <<Seg(1, "after")>>, args |-> 1]}
=============================================================================
