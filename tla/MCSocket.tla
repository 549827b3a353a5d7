------------------------------ MODULE MCSocket ------------------------------
(* EBSocket on small sets of devices and cycles.                            *)
EXTENDS EBSocket, TLC

\* Cycles are interchangeable: which index eb_new_cycle returns is arbitrary.
CycleSymmetry == Permutations(Cycles)
=============================================================================
