---------------------------- MODULE JobLifecycle ----------------------------
(***************************************************************************)
(* What the jobs manager promises a caller that never edits its queue: a   *)
(* submitted job starts once and ends once, and no two jobs that have not   *)
(* ended do the same work.                                                  *)
(***************************************************************************)
CONSTANTS Jobs, Work, NoWork

VARIABLES
  stage,  \* stage[j]: "unknown", "queued", "active" or "over"
  doing   \* doing[j]: the work job j was submitted with

vars == <<stage, doing>>

Init == stage = [j \in Jobs |-> "unknown"] /\ doing = [j \in Jobs |-> NoWork]

Busy(w) == \E j \in Jobs : stage[j] \in {"queued", "active"} /\ doing[j] = w

Submit(j, w) ==
  /\ stage[j] = "unknown" /\ ~Busy(w)
  /\ stage' = [stage EXCEPT ![j] = "queued"]
  /\ doing' = [doing EXCEPT ![j] = w]

Advance(j, from, to) ==
  /\ stage[j] = from
  /\ stage' = [stage EXCEPT ![j] = to]
  /\ UNCHANGED doing

Start(j) == Advance(j, "queued", "active")
End(j) == Advance(j, "active", "over")

Next == \E j \in Jobs : Start(j) \/ End(j) \/ \E w \in Work : Submit(j, w)

Spec == Init /\ [][Next]_vars
FairSpec == Spec /\ \A j \in Jobs : WF_vars(Start(j)) /\ WF_vars(End(j))
=============================================================================
