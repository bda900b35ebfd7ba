------------------------ MODULE MCRefreshDispatcher ------------------------
(* Small instances of RefreshDispatcher for TLC.                              *)
EXTENDS RefreshDispatcher, TLC

(* Videos, libraries and rescan requests are interchangeable.                 *)
Symmetry == Permutations(Videos) \cup Permutations(Libraries) \cup Permutations(Rescanners)
==============================================================================
