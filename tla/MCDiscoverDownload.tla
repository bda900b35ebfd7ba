------------------------- MODULE MCDiscoverDownload -------------------------
(* A small instance of DiscoverDownload for TLC.                             *)
EXTENDS DiscoverDownload, TLC

(* Previews are interchangeable.                                             *)
Symmetry == Permutations(Requests \ Jobs)
=============================================================================
