----------------------------- MODULE MCJobsQueue -----------------------------
(* Small instances of JobsQueue for TLC.                                      *)
EXTENDS JobsQueue, TLC

(* Threads, requests and the translations are interchangeable.                *)
Symmetry ==
  Permutations(Runs) \cup Permutations(Editors) \cup Permutations(TranslationWork)
==============================================================================
