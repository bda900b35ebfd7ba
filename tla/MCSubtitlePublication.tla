------------------------ MODULE MCSubtitlePublication ------------------------
(* Small instances of SubtitlePublication for TLC.                            *)
EXTENDS SubtitlePublication, TLC

(* Sync engines are interchangeable.                                          *)
Symmetry == Permutations(Engines)
==============================================================================
