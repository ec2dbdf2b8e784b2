------------------------------ MODULE MCFiles ------------------------------
(***************************************************************************)
(* Two processes, files for one pipe and a half, a pipe of two bytes.      *)
(***************************************************************************)
EXTENDS Files

CONSTANTS x, y

MCWrites == {<<x, y, x>>}
=============================================================================
