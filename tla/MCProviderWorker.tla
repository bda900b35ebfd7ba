-------------------------- MODULE MCProviderWorker --------------------------
(* Small instances of ProviderWorker for TLC.                                 *)
EXTENDS ProviderWorker, TLC

(* The callers are interchangeable.                                           *)
Symmetry == Permutations(Callers)
==============================================================================
