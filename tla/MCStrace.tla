------------------------------ MODULE MCStrace ------------------------------
(***************************************************************************)
(* The tracer with a ring of three slots.                                  *)
(***************************************************************************)
EXTENDS Strace
=============================================================================
