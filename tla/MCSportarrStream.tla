--------------------------- MODULE MCSportarrStream ---------------------------
(* Small instances of SportarrStream for TLC.                                 *)
EXTENDS SportarrStream, TLC
Symmetry == Permutations(Leagues)
=============================================================================
