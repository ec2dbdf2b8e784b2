-------------------------------- MODULE MCPrioLock --------------------------------
(* PrioLock on a table of three slots. *)
EXTENDS PrioLock
=============================================================================
