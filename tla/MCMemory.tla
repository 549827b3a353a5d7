------------------------------ MODULE MCMemory ------------------------------
(* An array of 8 items in which the largest index is EB_NULL, for both     *)
(* builds: dynamic.c grows 2 -> 4 -> 8, static.c has its 8 items at once.  *)
EXTENDS EBMemory

MCSizes == {0, 2, 4, 8}
MCBuilds == {Dynamic, Static}
=============================================================================
