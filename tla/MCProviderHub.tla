----------------------------- MODULE MCProviderHub -----------------------------
(* Small instances of ProviderHub for TLC.                                    *)
EXTENDS ProviderHub, TLC

Symmetry == Permutations(Jobs)
=============================================================================
