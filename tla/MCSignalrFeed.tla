----------------------------- MODULE MCSignalrFeed -----------------------------
(* A small instance of SignalrFeed for TLC.                                   *)
EXTENDS SignalrFeed, TLC
Symmetry == Permutations(Fanners)
=============================================================================
