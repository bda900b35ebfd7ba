------------------------------ MODULE MCSiloScan ------------------------------
(* A small instance of SiloScan for TLC.                                      *)
EXTENDS SiloScan, TLC
Symmetry == Permutations(Runs)
=============================================================================
