-------------------------------- MODULE MCPrioLockCalls --------------------------------
(* PrioLockCalls on a table of three slots. *)
EXTENDS PrioLockCalls
=============================================================================
