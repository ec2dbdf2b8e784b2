------------------------------- MODULE MCBio -------------------------------
(***************************************************************************)
(* The buffer cache with two buffers.                                      *)
(***************************************************************************)
EXTENDS Bio
=============================================================================
