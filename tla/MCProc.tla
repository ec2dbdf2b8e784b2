------------------------------- MODULE MCProc -------------------------------
(* Proc on two processors and a table of three slots. *)
EXTENDS Proc
=============================================================================
