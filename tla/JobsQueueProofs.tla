--------------------------- MODULE JobsQueueProofs ---------------------------
(* Machine-checked properties of JobsQueue, for every value of its constants. *)
EXTENDS JobsQueue, SequenceTheorems, FiniteSetTheorems, TLAPS

(* Removing position i leaves every other element, in order
   (deque.remove in force_start, remove and move).                            *)
LEMMA RemoveAtElements ==
  ASSUME NEW S, NEW s \in Seq(S), NEW i \in 1..Len(s)
  PROVE  /\ RemoveAt(s, i) \in Seq(S)
         /\ Len(RemoveAt(s, i)) = Len(s) - 1
         /\ \A k \in 1..Len(s) - 1 : RemoveAt(s, i)[k] = IF k < i THEN s[k] ELSE s[k + 1]
<1> DEFINE a == SubSeq(s, 1, i - 1)
           b == SubSeq(s, i + 1, Len(s))
<1>1. /\ a \in Seq(S) /\ Len(a) = i - 1
      /\ \A k \in 1..(i - 1) : a[k] = s[k]
  BY SubSeqProperties
<1>2. /\ b \in Seq(S) /\ Len(b) = Len(s) - i
      /\ \A k \in 1..(Len(s) - i) : b[k] = s[i + k]
  BY SubSeqProperties
<1> HIDE DEF a, b
<1>3. a \o b \in Seq(S)
  BY <1>1, <1>2, ConcatProperties
<1>4. Len(a \o b) = Len(s) - 1
  <2>1. Len(a \o b) = Len(a) + Len(b)
    BY <1>1, <1>2, ConcatProperties
  <2> QED BY <2>1, <1>1, <1>2
<1>5. \A k \in 1..Len(s) - 1 : (a \o b)[k] = IF k < i THEN s[k] ELSE s[k + 1]
  BY <1>1, <1>2
<1> QED BY <1>3, <1>4, <1>5 DEF RemoveAt, a, b

(* Appending to a deque with maxlen keeps it within maxlen.                   *)
LEMMA FiledWithinLimit ==
  ASSUME NEW s \in Seq(JobIds), Len(s) <= HistoryLimit, NEW j \in JobIds
  PROVE  Filed(s, j) \in Seq(JobIds) /\ Len(Filed(s, j)) <= HistoryLimit
  BY JobsAssumption DEF Filed

(* Changing one field of a thread or of a request keeps its type.             *)
LEMMA PhaseField ==
  ASSUME run \in [Runs -> RunType], NEW r \in Runs, NEW p \in Phases
  PROVE  [run EXCEPT ![r].phase = p] \in [Runs -> RunType]
  BY DEF RunType

LEMMA OutcomeField ==
  ASSUME run \in [Runs -> RunType], NEW r \in Runs, NEW p \in Phases, NEW o \in Outcome
  PROVE  [run EXCEPT ![r].phase = p, ![r].outcome = o] \in [Runs -> RunType]
  BY DEF RunType

LEMMA InlineField ==
  ASSUME run \in [Runs -> RunType], NEW r \in Runs, NEW w \in Work \cup {NoWork}
  PROVE  [run EXCEPT ![r].inline = w] \in [Runs -> RunType]
  BY DEF RunType

LEMMA EditorStage ==
  ASSUME editor \in [Editors -> EditorType], NEW e \in Editors,
         NEW g \in {"idle", "moving", "stopping", "tryRunning", "refused"}
  PROVE  [editor EXCEPT ![e].stage = g] \in [Editors -> EditorType]
  BY DEF EditorType

-----------------------------------------------------------------------------
(* The shape of the queue's state holds initially and every step keeps it.    *)
LEMMA TypingInductive == (Init => TypeOK) /\ (TypeOK /\ [Next]_vars => TypeOK')
<1>1. Init => TypeOK
  BY JobsAssumption
  DEF Init, TypeOK, RunType, ClaimType, SectionType, EditorType, WaiterType, IdleRun,
      FreeLock, AtRest, JobIds, NoJob, Status, Unfinished, Outcome, Phases
<1>2. TypeOK /\ [Next]_vars => TypeOK'
  <2> SUFFICES ASSUME TypeOK, [Next]_vars PROVE TypeOK'
    OBVIOUS
  <2>1. ASSUME NEW w \in Work, Feed(w) PROVE TypeOK'
    <3>1. lastId' \in 0..MaxJobs /\ lastId + 1 \in JobIds
      BY <2>1, JobsAssumption DEF TypeOK, Feed, NewJob, JobIds
    <3>2. work' \in [JobIds -> Work \cup {NoWork}]
      BY <2>1, <3>1 DEF TypeOK, Feed, NewJob, JobIds
    <3>3. pending' \in Seq(JobIds)
      BY <2>1, <3>1 DEF TypeOK, Feed, NewJob, JobIds
    <3> QED BY <2>1, <3>1, <3>2, <3>3 DEF TypeOK, Feed, NewJob, jobVars, historyVars
  <2>2. ASSUME NEW t \in Waiters, NEW w \in Work, FeedAndWait(t, w) PROVE TypeOK'
    <3>1. lastId' \in 0..MaxJobs /\ lastId + 1 \in JobIds
      BY <2>2, JobsAssumption DEF TypeOK, FeedAndWait, NewJob, JobIds
    <3>2. work' \in [JobIds -> Work \cup {NoWork}]
      BY <2>2, <3>1 DEF TypeOK, FeedAndWait, NewJob, JobIds
    <3>3. pending' \in Seq(JobIds)
      BY <2>2, <3>1 DEF TypeOK, FeedAndWait, NewJob, JobIds
    <3>4. waiter' \in [Waiters -> WaiterType]
      BY <2>2, <3>1 DEF TypeOK, FeedAndWait, NewJob, WaiterType, AtRest, NoJob, JobIds
    <3> QED BY <2>2, <3>1, <3>2, <3>3, <3>4 DEF TypeOK, FeedAndWait, NewJob, jobVars, historyVars
  <2>3. ASSUME NEW j \in JobIds, Retry(j) PROVE TypeOK'
    <3>1. lastId' \in 0..MaxJobs /\ lastId + 1 \in JobIds
      BY <2>3, JobsAssumption DEF TypeOK, Retry, NewJob, JobIds
    <3>2. work' \in [JobIds -> Work \cup {NoWork}]
      BY <2>3, <3>1 DEF TypeOK, Retry, NewJob, JobIds
    <3>3. pending' \in Seq(JobIds)
      BY <2>3, <3>1 DEF TypeOK, Retry, NewJob, JobIds
    <3> QED BY <2>3, <3>1, <3>2, <3>3 DEF TypeOK, Retry, NewJob, jobVars, historyVars
  <2>4. ASSUME NEW j \in JobIds, ForceTake(j) PROVE TypeOK'
    <3>1. pending' \in Seq(JobIds)
      BY <2>4, RemoveAtElements DEF TypeOK, ForceTake
    <3>2. section' \in SectionType
      BY <2>4 DEF TypeOK, ForceTake, SectionType, FreeLock, NoJob
    <3>3. section'.stage # "free" => section'.job \in JobIds
      BY <2>4 DEF TypeOK, ForceTake, SectionType, FreeLock
    <3> QED BY <2>4, <3>1, <3>2, <3>3 DEF TypeOK, ForceTake, jobVars, historyVars
  <2>5. ASSUME NEW j \in JobIds, Cancel(j) PROVE TypeOK'
    <3>1. cancelled' \in [JobIds -> BOOLEAN]
      BY <2>5 DEF TypeOK, Cancel
    <3> QED BY <2>5, <3>1 DEF TypeOK, Cancel, jobVars, historyVars
  <2>6. ASSUME NEW t \in Waiters, Poll(t) PROVE TypeOK'
    <3>1. waiter' \in [Waiters -> WaiterType]
      BY <2>6 DEF TypeOK, Poll, WaiterType, AtRest, NoJob, JobIds
    <3> QED BY <2>6, <3>1 DEF TypeOK, Poll, jobVars, historyVars
  <2>7. ASSUME NEW t \in Waiters, WaiterLeaves(t) PROVE TypeOK'
    <3>1. waiter' \in [Waiters -> WaiterType]
      BY <2>7 DEF TypeOK, WaiterLeaves, WaiterType, AtRest, NoJob, JobIds
    <3> QED BY <2>7, <3>1 DEF TypeOK, WaiterLeaves, jobVars, historyVars
  <2>8. ASSUME ConsumerSleeps PROVE TypeOK'
    BY <2>8 DEF TypeOK, ConsumerSleeps, vars
  <2>9. ASSUME ReservePeek PROVE TypeOK'
    <3>1. section' \in SectionType
      BY <2>9 DEF TypeOK, ReservePeek, SectionType, FreeLock, NoJob
    <3>2. section'.stage # "free" => section'.job \in JobIds
      BY <2>9 DEF TypeOK, ReservePeek, SectionType, FreeLock
    <3> QED BY <2>9, <3>1, <3>2 DEF TypeOK, ReservePeek, jobVars, historyVars
  <2>10. ASSUME ReservePop PROVE TypeOK'
    <3>1. Head(pending) \in JobIds /\ section.job \in JobIds
      BY <2>10 DEF TypeOK, ReservePop
    <3>2. pending' \in Seq(JobIds)
      BY <2>10, <3>1 DEF TypeOK, ReservePop
    <3>3. section' \in SectionType
      BY <2>10, <3>1 DEF TypeOK, ReservePop, SectionType, FreeLock, NoJob
    <3>4. section'.stage # "free" => section'.job \in JobIds
      BY <2>10, <3>1 DEF TypeOK, ReservePop, SectionType, FreeLock
    <3>5. disturbed' \subseteq JobIds
      BY <2>10, <3>1 DEF TypeOK, ReservePop
    <3> QED BY <2>10, <3>1, <3>2, <3>3, <3>4, <3>5 DEF TypeOK, ReservePop, jobVars, historyVars
  <2>11. ASSUME ReservePopEmpty PROVE TypeOK'
    <3>1. section' \in SectionType
      BY <2>11 DEF TypeOK, ReservePopEmpty, SectionType, FreeLock, NoJob
    <3>2. section'.stage # "free" => section'.job \in JobIds
      BY <2>11 DEF TypeOK, ReservePopEmpty, SectionType, FreeLock
    <3> QED BY <2>11, <3>1, <3>2 DEF TypeOK, ReservePopEmpty, jobVars, historyVars
  <2>12. ASSUME NEW r \in Runs, Admit(r) PROVE TypeOK'
    <3>1. section.job \in JobIds
      BY <2>12 DEF TypeOK, Admit
    <3>2. run' \in [Runs -> RunType]
      BY <2>12, <3>1 DEF TypeOK, Admit, RunType, Phases, Outcome, IdleRun, NoJob
    <3>3. \A s \in Runs : run'[s].phase # "idle" => run'[s].job \in JobIds
      BY <2>12, <3>1 DEF TypeOK, Admit, RunType, IdleRun
    <3>4. section' \in SectionType
      BY <2>12, <3>1 DEF TypeOK, Admit, SectionType, FreeLock, NoJob
    <3>5. section'.stage # "free" => section'.job \in JobIds
      BY <2>12, <3>1 DEF TypeOK, Admit, SectionType, FreeLock
    <3> QED BY <2>12, <3>1, <3>2, <3>3, <3>4, <3>5 DEF TypeOK, Admit, jobVars, historyVars
  <2>13. ASSUME NEW r \in Runs, StartRun(r) PROVE TypeOK'
    <3>1. "started" \in Phases
      BY <2>13 DEF TypeOK, StartRun, Phases
    <3>2. run' \in [Runs -> RunType]
      BY <2>13, <3>1, PhaseField DEF TypeOK, StartRun
    <3>3. \A s \in Runs : run'[s].phase # "idle" => run'[s].job \in JobIds
      BY <2>13, <3>1 DEF TypeOK, StartRun, RunType, IdleRun
    <3>4. status' \in [JobIds -> Status]
      BY <2>13, <3>1 DEF TypeOK, StartRun, Status, Unfinished
    <3> QED BY <2>13, <3>1, <3>2, <3>3, <3>4 DEF TypeOK, StartRun, jobVars, historyVars
  <2>14. ASSUME NEW r \in Runs, NEW end \in Status \ Unfinished, FinishRun(r, end) PROVE TypeOK'
    <3>1. "finished" \in Phases /\ {"completed", "failed"} = Outcome
      BY <2>14 DEF TypeOK, FinishRun, Phases, Outcome
    <3>2. run' \in [Runs -> RunType]
      BY <2>14, <3>1, OutcomeField DEF TypeOK, FinishRun
    <3>3. \A s \in Runs : run'[s].phase # "idle" => run'[s].job \in JobIds
      BY <2>14, <3>1 DEF TypeOK, FinishRun, RunType, IdleRun
    <3>4. status' \in [JobIds -> Status]
      BY <2>14, <3>1 DEF TypeOK, FinishRun, Status, Unfinished
    <3>5. retryable' \in [JobIds -> BOOLEAN]
      BY <2>14, <3>1 DEF TypeOK, FinishRun
    <3> QED BY <2>14, <3>1, <3>2, <3>3, <3>4, <3>5 DEF TypeOK, FinishRun, jobVars, historyVars
  <2>15. ASSUME NEW r \in Runs, LeaveRunning(r) PROVE TypeOK'
    <3>1. "left" \in Phases
      BY <2>15 DEF TypeOK, LeaveRunning, Phases
    <3>2. run' \in [Runs -> RunType]
      BY <2>15, <3>1, PhaseField DEF TypeOK, LeaveRunning
    <3>3. \A s \in Runs : run'[s].phase # "idle" => run'[s].job \in JobIds
      BY <2>15, <3>1 DEF TypeOK, LeaveRunning, RunType, IdleRun
    <3> QED BY <2>15, <3>1, <3>2, <3>3 DEF TypeOK, LeaveRunning, jobVars, historyVars
  <2>16. ASSUME NEW r \in Runs, FileRun(r) PROVE TypeOK'
    <3>1. failed' \in Seq(JobIds) /\ Len(failed') <= HistoryLimit
      BY <2>16, FiledWithinLimit DEF TypeOK, FileRun
    <3>2. completed' \in Seq(JobIds) /\ Len(completed') <= HistoryLimit
      BY <2>16, FiledWithinLimit DEF TypeOK, FileRun
    <3>3. run' \in [Runs -> RunType]
      BY <2>16 DEF TypeOK, FileRun, RunType, Phases, Outcome, IdleRun, NoJob
    <3>4. \A s \in Runs : run'[s].phase # "idle" => run'[s].job \in JobIds
      BY <2>16 DEF TypeOK, FileRun, RunType, IdleRun
    <3> QED BY <2>16, <3>1, <3>2, <3>3, <3>4 DEF TypeOK, FileRun, jobVars, historyVars
  <2>17. ASSUME NEW r \in Runs, ReleaseInline(r) PROVE TypeOK'
    <3>1. claims' \subseteq ClaimType
      BY <2>17 DEF TypeOK, ReleaseInline, ClaimType
    <3>2. run' \in [Runs -> RunType]
      BY <2>17, InlineField DEF TypeOK, ReleaseInline
    <3>3. \A s \in Runs : run'[s].phase # "idle" => run'[s].job \in JobIds
      BY <2>17 DEF TypeOK, ReleaseInline, RunType, IdleRun
    <3>4. disturbed' \subseteq JobIds
      BY <2>17 DEF TypeOK, ReleaseInline, ClaimType
    <3> QED BY <2>17, <3>1, <3>2, <3>3, <3>4 DEF TypeOK, ReleaseInline, jobVars, historyVars
  <2>18. ASSUME NEW r \in Runs, NEW w \in Work, ClaimInline(r, w) PROVE TypeOK'
    <3>1. claims' \subseteq ClaimType
      BY <2>18 DEF TypeOK, ClaimInline, ClaimType
    <3>2. run' \in [Runs -> RunType]
      BY <2>18, InlineField DEF TypeOK, ClaimInline
    <3>3. \A s \in Runs : run'[s].phase # "idle" => run'[s].job \in JobIds
      BY <2>18 DEF TypeOK, ClaimInline, RunType, IdleRun
    <3> QED BY <2>18, <3>1, <3>2, <3>3 DEF TypeOK, ClaimInline, jobVars, historyVars
  <2>19. ASSUME NEW e \in Editors, NEW j \in JobIds, RemovePending(e, j) PROVE TypeOK'
    <3>1. pending' \in Seq(JobIds)
      BY <2>19, RemoveAtElements DEF TypeOK, RemovePending, TakeOff
    <3> QED BY <2>19, <3>1 DEF TypeOK, RemovePending, TakeOff, jobVars, historyVars
  <2>20. ASSUME NEW e \in Editors, NEW j \in JobIds, MoveTake(e, j) PROVE TypeOK'
    <3>1. pending' \in Seq(JobIds)
      BY <2>20, RemoveAtElements DEF TypeOK, MoveTake, TakeOff
    <3>2. editor' \in [Editors -> EditorType]
      BY <2>20 DEF TypeOK, MoveTake, TakeOff, EditorType, AtRest, NoJob
    <3>3. \A f \in Editors : editor'[f].stage # "idle" => editor'[f].job \in JobIds
      BY <2>20 DEF TypeOK, MoveTake, TakeOff, EditorType, AtRest
    <3> QED BY <2>20, <3>1, <3>2, <3>3 DEF TypeOK, MoveTake, TakeOff, jobVars, historyVars
  <2>21. ASSUME NEW e \in Editors, MoveInsert(e) PROVE TypeOK'
    <3>1. editor[e].job \in JobIds
      BY <2>21 DEF TypeOK, MoveInsert
    <3>2. <<editor[e].job>> \in Seq(JobIds)
      BY <2>21, <3>1 DEF TypeOK, MoveInsert
    <3>3. <<editor[e].job>> \o pending \in Seq(JobIds)
      BY <2>21, <3>1, <3>2, ConcatProperties DEF TypeOK, MoveInsert
    <3>4. Append(pending, editor[e].job) \in Seq(JobIds)
      BY <2>21, <3>1, <3>2, <3>3, AppendProperties DEF TypeOK, MoveInsert
    <3>5. pending' \in Seq(JobIds)
      BY <2>21, <3>1, <3>2, <3>3, <3>4 DEF TypeOK, MoveInsert, Cons
    <3>6. editor' \in [Editors -> EditorType]
      BY <2>21, <3>1, <3>2, <3>3, <3>4 DEF TypeOK, MoveInsert, EditorType, AtRest, NoJob
    <3>7. \A f \in Editors : editor'[f].stage # "idle" => editor'[f].job \in JobIds
      BY <2>21, <3>1, <3>2, <3>3, <3>4 DEF TypeOK, MoveInsert, EditorType, AtRest
    <3> QED BY <2>21, <3>1, <3>2, <3>3, <3>4, <3>5, <3>6, <3>7 DEF TypeOK, MoveInsert, jobVars, historyVars
  <2>22. ASSUME NEW e \in Editors, EmptyPending(e) PROVE TypeOK'
    <3>1. disturbed' \subseteq JobIds
      BY <2>22 DEF TypeOK, EmptyPending, Queued
    <3> QED BY <2>22, <3>1 DEF TypeOK, EmptyPending, jobVars, historyVars
  <2>23. ASSUME NEW e \in Editors, EmptyHistory(e) PROVE TypeOK'
    <3>1. <<>> \in Seq(JobIds) /\ Len(<<>>) <= HistoryLimit
      BY <2>23, JobsAssumption DEF TypeOK, EmptyHistory
    <3> QED BY <2>23, <3>1 DEF TypeOK, EmptyHistory, jobVars, historyVars
  <2>24. ASSUME NEW e \in Editors, NEW j \in JobIds, StopBegins(e, j) PROVE TypeOK'
    <3>1. editor' \in [Editors -> EditorType]
      BY <2>24 DEF TypeOK, StopBegins, EditorType, AtRest, NoJob
    <3>2. \A f \in Editors : editor'[f].stage # "idle" => editor'[f].job \in JobIds
      BY <2>24 DEF TypeOK, StopBegins, EditorType, AtRest
    <3> QED BY <2>24, <3>1, <3>2 DEF TypeOK, StopBegins, jobVars, historyVars
  <2>25. ASSUME NEW e \in Editors, StopTakesPending(e) PROVE TypeOK'
    <3>1. editor[e].job \in JobIds
      BY <2>25 DEF TypeOK, StopTakesPending, TakeOff
    <3>2. pending' \in Seq(JobIds)
      BY <2>25, <3>1, RemoveAtElements DEF TypeOK, StopTakesPending, TakeOff
    <3>3. disturbed' \subseteq JobIds
      BY <2>25, <3>1 DEF TypeOK, StopTakesPending, TakeOff
    <3>4. editor' \in [Editors -> EditorType]
      BY <2>25, <3>1 DEF TypeOK, StopTakesPending, TakeOff, EditorType, AtRest, NoJob
    <3>5. \A f \in Editors : editor'[f].stage # "idle" => editor'[f].job \in JobIds
      BY <2>25, <3>1 DEF TypeOK, StopTakesPending, TakeOff, EditorType, AtRest
    <3> QED BY <2>25, <3>1, <3>2, <3>3, <3>4, <3>5 DEF TypeOK, StopTakesPending, TakeOff, jobVars, historyVars
  <2>26. ASSUME NEW e \in Editors, StopMissesPending(e) PROVE TypeOK'
    <3>1. editor' \in [Editors -> EditorType]
      BY <2>26, EditorStage DEF TypeOK, StopMissesPending
    <3>2. \A f \in Editors : editor'[f].stage # "idle" => editor'[f].job \in JobIds
      BY <2>26 DEF TypeOK, StopMissesPending, EditorType, AtRest
    <3> QED BY <2>26, <3>1, <3>2 DEF TypeOK, StopMissesPending, jobVars, historyVars
  <2>27. ASSUME NEW e \in Editors, StopCancels(e) PROVE TypeOK'
    <3>1. cancelled' \in [JobIds -> BOOLEAN]
      BY <2>27 DEF TypeOK, StopCancels
    <3>2. editor' \in [Editors -> EditorType]
      BY <2>27 DEF TypeOK, StopCancels, EditorType, AtRest, NoJob
    <3>3. \A f \in Editors : editor'[f].stage # "idle" => editor'[f].job \in JobIds
      BY <2>27 DEF TypeOK, StopCancels, EditorType, AtRest
    <3> QED BY <2>27, <3>1, <3>2, <3>3 DEF TypeOK, StopCancels, jobVars, historyVars
  <2>28. ASSUME NEW e \in Editors, StopFindsNothing(e) PROVE TypeOK'
    <3>1. editor' \in [Editors -> EditorType]
      BY <2>28, EditorStage DEF TypeOK, StopFindsNothing
    <3>2. \A f \in Editors : editor'[f].stage # "idle" => editor'[f].job \in JobIds
      BY <2>28 DEF TypeOK, StopFindsNothing, EditorType, AtRest
    <3> QED BY <2>28, <3>1, <3>2 DEF TypeOK, StopFindsNothing, jobVars, historyVars
  <2>29. ASSUME NEW e \in Editors, StopRefused(e) PROVE TypeOK'
    <3>1. editor' \in [Editors -> EditorType]
      BY <2>29 DEF TypeOK, StopRefused, EditorType, AtRest, NoJob
    <3>2. \A f \in Editors : editor'[f].stage # "idle" => editor'[f].job \in JobIds
      BY <2>29 DEF TypeOK, StopRefused, EditorType, AtRest
    <3> QED BY <2>29, <3>1, <3>2 DEF TypeOK, StopRefused, jobVars, historyVars
  <2>30. CASE UNCHANGED vars
    BY <2>30 DEF TypeOK, vars
  <2> QED
    BY <2>1, <2>2, <2>3, <2>4, <2>5, <2>6, <2>7, <2>8, <2>9, <2>10, <2>11, <2>12,
       <2>13, <2>14, <2>15, <2>16, <2>17, <2>18, <2>19, <2>20, <2>21, <2>22, <2>23,
       <2>24, <2>25, <2>26, <2>27, <2>28, <2>29, <2>30
    DEF Next, Producers, Reserve, JobThread, RunEnds, Edit
<1> QED BY <1>1, <1>2

(* Every reachable state has the declared shape, and neither history exceeds
   its maxlen (jobs_failed_queue, jobs_completed_queue).                      *)
THEOREM Typing == Spec => []TypeOK
  BY TypingInductive, PTL DEF Spec

-----------------------------------------------------------------------------
(* What the three ways to change the pending deque do to its elements.        *)

LEMMA QueuedRemove ==
  ASSUME TypeOK, NEW i \in DOMAIN pending, pending' = RemoveAt(pending, i)
  PROVE  /\ Queued' \subseteq Queued
         /\ Queued \subseteq Queued' \cup {pending[i]}
         /\ \A j : Once(j) => Once(j)'
         /\ Once(pending[i]) => pending[i] \notin Queued'
<1>1. /\ pending \in Seq(JobIds) /\ i \in 1..Len(pending) /\ Len(pending) \in Nat
      /\ DOMAIN pending = 1..Len(pending)
  BY DEF TypeOK
<1>2. /\ pending' \in Seq(JobIds)
      /\ Len(pending') = Len(pending) - 1
      /\ \A k \in 1..Len(pending) - 1 : pending'[k] = IF k < i THEN pending[k] ELSE pending[k + 1]
  BY <1>1, RemoveAtElements
<1>3. DOMAIN pending' = 1..Len(pending) - 1
  BY <1>1, <1>2
<1>4. Queued' \subseteq Queued
  BY <1>1, <1>2, <1>3 DEF Queued
<1>5. ASSUME NEW k \in DOMAIN pending, k # i PROVE pending[k] \in Queued'
  <2>1. CASE k < i
    BY <2>1, <1>1, <1>2, <1>3, <1>5 DEF Queued
  <2>2. CASE k > i
    <3>1. k - 1 \in DOMAIN pending' /\ pending'[k - 1] = pending[k]
      BY <2>2, <1>1, <1>2, <1>3, <1>5
    <3> QED BY <3>1 DEF Queued
  <2> QED BY <2>1, <2>2, <1>1, <1>5
<1>6. Queued \subseteq Queued' \cup {pending[i]}
  BY <1>5 DEF Queued
<1>7. ASSUME NEW j, Once(j) PROVE Once(j)'
  BY <1>1, <1>2, <1>3, <1>7 DEF Once
<1>8. ASSUME Once(pending[i]) PROVE pending[i] \notin Queued'
  BY <1>1, <1>2, <1>3, <1>8 DEF Once, Queued
<1> QED BY <1>4, <1>6, <1>7, <1>8

LEMMA QueuedTail ==
  ASSUME TypeOK, pending # <<>>, pending' = Tail(pending)
  PROVE  /\ Head(pending) \in Queued
         /\ Queued' \subseteq Queued
         /\ Queued \subseteq Queued' \cup {Head(pending)}
         /\ \A j : Once(j) => Once(j)'
         /\ Once(Head(pending)) => Head(pending) \notin Queued'
<1>1. /\ pending \in Seq(JobIds) /\ Len(pending) \in Nat /\ Len(pending) > 0
      /\ DOMAIN pending = 1..Len(pending) /\ Head(pending) = pending[1]
  BY DEF TypeOK
<1>2. /\ DOMAIN pending' = 1..Len(pending) - 1
      /\ \A k \in 1..Len(pending) - 1 : pending'[k] = pending[k + 1]
  BY <1>1
<1>3. Head(pending) \in Queued
  BY <1>1 DEF Queued
<1>4. Queued' \subseteq Queued
  BY <1>1, <1>2 DEF Queued
<1>5. ASSUME NEW k \in DOMAIN pending, k # 1 PROVE pending[k] \in Queued'
  <2>1. k - 1 \in DOMAIN pending' /\ pending'[k - 1] = pending[k]
    BY <1>1, <1>2, <1>5
  <2> QED BY <2>1 DEF Queued
<1>6. Queued \subseteq Queued' \cup {Head(pending)}
  BY <1>1, <1>5 DEF Queued
<1>7. ASSUME NEW j, Once(j) PROVE Once(j)'
  BY <1>1, <1>2, <1>7 DEF Once
<1>8. ASSUME Once(Head(pending)) PROVE Head(pending) \notin Queued'
  BY <1>1, <1>2, <1>8 DEF Once, Queued
<1> QED BY <1>3, <1>4, <1>6, <1>7, <1>8

LEMMA QueuedInsert ==
  ASSUME TypeOK, NEW x \in JobIds,
         pending' = Append(pending, x) \/ pending' = Cons(x, pending)
  PROVE  /\ Queued' = Queued \cup {x}
         /\ \A j : j # x /\ Once(j) => Once(j)'
         /\ x \notin Queued => Once(x)'
<1>1. /\ pending \in Seq(JobIds) /\ Len(pending) \in Nat
      /\ DOMAIN pending = 1..Len(pending)
  BY DEF TypeOK
<1>2. CASE pending' = Append(pending, x)
  <2>1. /\ DOMAIN pending' = 1..Len(pending) + 1
        /\ \A k \in 1..Len(pending) : pending'[k] = pending[k]
        /\ pending'[Len(pending) + 1] = x
    BY <1>1, <1>2
  <2>2. Queued' = Queued \cup {x}
    BY <1>1, <2>1 DEF Queued
  <2>3. ASSUME NEW j, j # x, Once(j) PROVE Once(j)'
    BY <1>1, <2>1, <2>3 DEF Once
  <2>4. ASSUME x \notin Queued PROVE Once(x)'
    BY <1>1, <2>1, <2>4 DEF Once, Queued
  <2> QED BY <2>2, <2>3, <2>4
<1>3. CASE pending' = Cons(x, pending)
  <2>1. /\ <<x>> \in Seq(JobIds) /\ pending' = <<x>> \o pending
    BY <1>3 DEF Cons
  <2>2. /\ DOMAIN pending' = 1..Len(pending) + 1
        /\ \A k \in 1..Len(pending) : pending'[k + 1] = pending[k]
        /\ pending'[1] = x
    BY <1>1, <2>1
  <2>3. \A k \in 2..Len(pending) + 1 : k - 1 \in 1..Len(pending) /\ pending'[k] = pending[k - 1]
    BY <1>1, <2>2
  <2>4. Queued' = Queued \cup {x}
    <3>1. ASSUME NEW k \in DOMAIN pending' PROVE pending'[k] \in Queued \cup {x}
      <4>1. CASE k = 1
        BY <4>1, <2>2
      <4>2. CASE k \in 2..Len(pending) + 1
        BY <4>2, <2>3, <1>1 DEF Queued
      <4> QED BY <4>1, <4>2, <2>2, <3>1, <1>1
    <3>2. ASSUME NEW k \in DOMAIN pending PROVE pending[k] \in Queued'
      <4>1. k + 1 \in DOMAIN pending' /\ pending'[k + 1] = pending[k]
        BY <3>2, <1>1, <2>2
      <4> QED BY <4>1 DEF Queued
    <3>3. x \in Queued'
      <4>1. 1 \in DOMAIN pending'
        BY <1>1, <2>2
      <4> QED BY <4>1, <2>2 DEF Queued
    <3> QED BY <3>1, <3>2, <3>3 DEF Queued
  <2>5. ASSUME NEW j, j # x, Once(j) PROVE Once(j)'
    <3>1. SUFFICES ASSUME NEW i \in DOMAIN pending', NEW k \in DOMAIN pending',
                          pending'[i] = j, pending'[k] = j
                   PROVE  i = k
      BY DEF Once
    <3>2. i \in 2..Len(pending) + 1 /\ k \in 2..Len(pending) + 1
      BY <1>1, <2>2, <2>5, <3>1
    <3>3. i - 1 = k - 1
      BY <1>1, <2>3, <2>5, <3>1, <3>2 DEF Once
    <3> QED BY <3>2, <3>3
  <2>6. ASSUME x \notin Queued PROVE Once(x)'
    BY <1>1, <2>2, <2>3, <2>6 DEF Once, Queued
  <2> QED BY <2>4, <2>5, <2>6
<1> QED BY <1>2, <1>3

-----------------------------------------------------------------------------
(* Steps that leave the places, the claims and the ids alone: a thread may     *)
(* leave the running queue, and nothing may enter it.                         *)
LEMMA QuietStep ==
  ASSUME Ownership, TypeOK',
         UNCHANGED <<pending, section, claims, disturbed, lastId, work>>,
         \A e \in Editors : editor'[e].stage = "moving" => editor'[e] = editor[e],
         OnRunning' \subseteq OnRunning,
         \A r \in OnRunning' : run'[r].job = run[r].job,
         \A r \in Runs : run'[r].inline # NoWork =>
           /\ run'[r].phase = "started"
           /\ run'[r].inline = run[r].inline /\ run'[r].job = run[r].job
  PROVE  Ownership'
<1>1. Queued' = Queued /\ HeldIds' = HeldIds /\ \A j : Once(j)' <=> Once(j)
  BY DEF Queued, HeldIds, Once
<1>2. RunningIds' \subseteq RunningIds
  BY DEF RunningIds
<1>3. Active' \subseteq Active
  BY <1>1, <1>2 DEF Active
<1>4. IdsIssued'
  BY <1>1, <1>2 DEF Ownership, IdsIssued
<1>5. OnePlace'
  <2> SUFFICES ASSUME NEW j \in JobIds, j \notin disturbed
               PROVE  /\ Once(j)'
                      /\ \A r, s \in OnRunning' : run'[r].job = j /\ run'[s].job = j => r = s
                      /\ j \in Queued' => j \notin HeldIds' \cup RunningIds'
                      /\ j \in HeldIds' => j \notin RunningIds'
    BY DEF OnePlace
  <2>1. Once(j)'
    BY <1>1 DEF Ownership, OnePlace
  <2>2. \A r, s \in OnRunning' : run'[r].job = j /\ run'[s].job = j => r = s
    BY DEF Ownership, OnePlace
  <2> QED BY <2>1, <2>2, <1>1, <1>2 DEF Ownership, OnePlace
<1>6. PeekedIsQueued'
  BY <1>1 DEF Ownership, PeekedIsQueued
<1>7. OneJobPerWork'
  BY <1>3 DEF Ownership, OneJobPerWork
<1>8. ClaimsExclusive'
  BY <1>3 DEF Ownership, ClaimsExclusive
<1>9. InlineIsClaimed'
  BY DEF Ownership, InlineIsClaimed
<1> QED BY <1>4, <1>5, <1>6, <1>7, <1>8, <1>9 DEF Ownership

(* An unlocked edit takes one job off pending and marks it.                   *)
LEMMA TakeOffStep ==
  ASSUME Ownership, TypeOK', NEW x \in JobIds, TakeOff(x),
         UNCHANGED <<section, claims, run, lastId, work>>,
         \A e \in Editors : editor'[e].stage = "moving" =>
           editor'[e] = editor[e] \/ editor'[e].job = x
  PROVE  Ownership'
<1>1. PICK i \in DOMAIN pending : pending[i] = x /\ pending' = RemoveAt(pending, i)
  BY DEF TakeOff
<1>2. /\ Queued' \subseteq Queued /\ Queued \subseteq Queued' \cup {x}
      /\ \A j : Once(j) => Once(j)'
  BY <1>1, QueuedRemove DEF Ownership
<1>3. x \in Queued
  BY <1>1 DEF Queued
<1>4. disturbed' = disturbed \cup {x}
  BY DEF TakeOff
<1>5. HeldIds' = HeldIds /\ OnRunning' = OnRunning /\ RunningIds' = RunningIds
  BY DEF HeldIds, OnRunning, RunningIds
<1>6. Active' \ disturbed' \subseteq Active \ disturbed
  BY <1>2, <1>4, <1>5 DEF Active
<1>7. IdsIssued'
  BY <1>2, <1>3, <1>4, <1>5 DEF Ownership, IdsIssued
<1>8. OnePlace'
  BY <1>2, <1>4, <1>5 DEF Ownership, OnePlace
<1>9. PeekedIsQueued'
  BY <1>2, <1>4 DEF Ownership, PeekedIsQueued
<1>10. OneJobPerWork'
  BY <1>6 DEF Ownership, OneJobPerWork
<1>11. ClaimsExclusive'
  BY <1>6 DEF Ownership, ClaimsExclusive
<1>12. InlineIsClaimed'
  BY <1>4 DEF Ownership, InlineIsClaimed
<1> QED BY <1>7, <1>8, <1>9, <1>10, <1>11, <1>12 DEF Ownership

(* A new job has a new id and work that nothing unfinished and no claim has.  *)
LEMMA NewJobStep ==
  ASSUME Ownership, TypeOK', NEW w, NewJob(w)
  PROVE  Ownership'
<1> DEFINE n == lastId + 1
<1>1. n \in JobIds /\ lastId \in Nat /\ lastId' = n
  BY JobsAssumption DEF NewJob, Ownership, TypeOK, JobIds
<1>2. /\ n \notin Queued /\ n \notin RunningIds /\ HeldIds = {}
  BY <1>1 DEF Ownership, IdsIssued, NewJob, LockFree, HeldIds
<1>3. /\ Queued' = Queued \cup {n}
      /\ \A j : Once(j) \/ j = n => Once(j)'
  BY <1>1, <1>2, QueuedInsert DEF NewJob, Ownership
<1>4. HeldIds' = {} /\ OnRunning' = OnRunning /\ RunningIds' = RunningIds
  BY <1>2 DEF HeldIds, OnRunning, RunningIds, NewJob
<1>5. Active' = Active \cup {n} /\ n \notin Active
  BY <1>2, <1>3, <1>4 DEF Active
<1>6. /\ \A j \in JobIds : j # n => work'[j] = work[j]
      /\ work'[n] = w
  BY <1>1 DEF NewJob, Ownership, TypeOK
<1>7. /\ \A j \in Active : work[j] # w
      /\ \A c \in claims : c.work # w
  BY <1>2 DEF NewJob, Existing, Claimed, Active
<1>8. Active' \subseteq JobIds
  <2>1. Active \subseteq 1..lastId
    BY <1>2 DEF Ownership, IdsIssued, Active
  <2>2. 1..lastId \subseteq JobIds
    BY <1>1, JobsAssumption DEF NewJob, JobIds
  <2> QED BY <2>1, <2>2, <1>1, <1>5
<1>9. IdsIssued'
  BY <1>1, <1>3, <1>4 DEF Ownership, IdsIssued, NewJob
<1>10. OnePlace'
  BY <1>2, <1>3, <1>4 DEF Ownership, OnePlace, NewJob
<1>11. PeekedIsQueued'
  BY DEF NewJob, LockFree, PeekedIsQueued
<1>12. OneJobPerWork'
  BY <1>5, <1>6, <1>7, <1>8 DEF Ownership, OneJobPerWork, NewJob
<1>13. ClaimsExclusive'
  BY <1>5, <1>6, <1>7, <1>8 DEF Ownership, ClaimsExclusive, NewJob
<1>14. InlineIsClaimed'
  BY DEF Ownership, InlineIsClaimed, NewJob
<1> QED BY <1>9, <1>10, <1>11, <1>12, <1>13, <1>14 DEF Ownership

(* Reserving and force-starting hold the lock: nothing is fed or claimed       *)
(* while a job is between the two queues.                                     *)
LEMMA ReserveStep ==
  ASSUME Ownership, TypeOK', ReservePeek \/ ReservePop \/ ReservePopEmpty
  PROVE  Ownership'
<1>1. CASE ReservePeek
  <2>1. Head(pending) \in Queued
    BY <1>1 DEF ReservePeek, Queued, Ownership, TypeOK
  <2>2. /\ Queued' = Queued /\ HeldIds' = HeldIds /\ HeldIds = {}
        /\ OnRunning' = OnRunning /\ RunningIds' = RunningIds
        /\ Active' = Active /\ \A j : Once(j)' <=> Once(j)
    BY <1>1 DEF ReservePeek, LockFree, Queued, HeldIds, OnRunning, RunningIds, Active, Once
  <2>3. IdsIssued'
    BY <1>1, <2>1, <2>2 DEF Ownership, IdsIssued, ReservePeek, jobVars
  <2>4. OnePlace'
    BY <1>1, <2>2 DEF Ownership, OnePlace, ReservePeek
  <2>5. PeekedIsQueued'
    BY <1>1, <2>1, <2>2 DEF PeekedIsQueued, ReservePeek
  <2>6. OneJobPerWork' /\ ClaimsExclusive' /\ InlineIsClaimed'
    BY <1>1, <2>2
    DEF Ownership, OneJobPerWork, ClaimsExclusive, InlineIsClaimed, ReservePeek, jobVars
  <2> QED BY <2>3, <2>4, <2>5, <2>6 DEF Ownership
<1>2. CASE ReservePop
  <2> DEFINE h == Head(pending)
  <2>1. /\ h \in Queued /\ Queued' \subseteq Queued /\ Queued \subseteq Queued' \cup {h}
        /\ \A j : Once(j) => Once(j)'
        /\ Once(h) => h \notin Queued'
    BY <1>2, QueuedTail DEF ReservePop, Ownership
  <2>2. /\ HeldIds = {} /\ HeldIds' = {section.job}
        /\ section'.stage = "popped" /\ section'.job = section.job
        /\ OnRunning' = OnRunning /\ RunningIds' = RunningIds
    BY <1>2 DEF ReservePop, HeldIds, OnRunning, RunningIds, Ownership, TypeOK, SectionType
  <2>3. /\ disturbed \subseteq disturbed'
        /\ section.job \notin disturbed' => section.job = h
    BY <1>2 DEF ReservePop
  <2>4. section.job \in 1..lastId
    BY <1>2 DEF ReservePop, Ownership, IdsIssued
  <2>5. section.job \notin disturbed' => section.job \in Queued
    BY <2>1, <2>3
  <2>6. Active' \ disturbed' \subseteq Active \ disturbed
    BY <2>1, <2>2, <2>3, <2>5 DEF Active
  <2>7. IdsIssued'
    BY <1>2, <2>1, <2>2, <2>3, <2>4 DEF Ownership, IdsIssued, ReservePop, jobVars
  <2>8. OnePlace'
    <3> SUFFICES ASSUME NEW j \in JobIds, j \notin disturbed'
                 PROVE  /\ Once(j)'
                        /\ \A r, s \in OnRunning' : run'[r].job = j /\ run'[s].job = j => r = s
                        /\ j \in Queued' => j \notin HeldIds' \cup RunningIds'
                        /\ j \in HeldIds' => j \notin RunningIds'
      BY DEF OnePlace
    <3>1. /\ Once(j)
          /\ j \in Queued => j \notin RunningIds
          /\ \A r, s \in OnRunning : run[r].job = j /\ run[s].job = j => r = s
      BY <2>3 DEF Ownership, OnePlace
    <3>2. run' = run
      BY <1>2 DEF ReservePop
    <3>3. j = section.job => j = h
      BY <2>3
    <3> QED BY <2>1, <2>2, <2>5, <3>1, <3>2, <3>3
  <2>9. PeekedIsQueued'
    BY <2>2 DEF PeekedIsQueued
  <2>10. OneJobPerWork' /\ ClaimsExclusive'
    BY <1>2, <2>6 DEF Ownership, OneJobPerWork, ClaimsExclusive, ReservePop, jobVars
  <2>11. InlineIsClaimed'
    BY <1>2, <2>3 DEF Ownership, InlineIsClaimed, ReservePop
  <2> QED BY <2>7, <2>8, <2>9, <2>10, <2>11 DEF Ownership
<1>3. CASE ReservePopEmpty
  <2>1. /\ Queued' = Queued /\ HeldIds' = HeldIds /\ HeldIds = {}
        /\ OnRunning' = OnRunning /\ RunningIds' = RunningIds
        /\ Active' = Active /\ \A j : Once(j)' <=> Once(j)
    BY <1>3 DEF ReservePopEmpty, FreeLock, Queued, HeldIds, OnRunning, RunningIds, Active, Once
  <2>2. IdsIssued' /\ OnePlace' /\ PeekedIsQueued'
    BY <1>3, <2>1
    DEF Ownership, IdsIssued, OnePlace, PeekedIsQueued, ReservePopEmpty, FreeLock, jobVars
  <2>3. OneJobPerWork' /\ ClaimsExclusive' /\ InlineIsClaimed'
    BY <1>3, <2>1
    DEF Ownership, OneJobPerWork, ClaimsExclusive, InlineIsClaimed, ReservePopEmpty, jobVars
  <2> QED BY <2>2, <2>3 DEF Ownership
<1> QED BY <1>1, <1>2, <1>3

LEMMA ForceTakeStep ==
  ASSUME Ownership, TypeOK', NEW x \in JobIds, ForceTake(x)
  PROVE  Ownership'
<1>1. PICK i \in DOMAIN pending : pending[i] = x /\ pending' = RemoveAt(pending, i)
  BY DEF ForceTake
<1>2. /\ Queued' \subseteq Queued /\ Queued \subseteq Queued' \cup {x}
      /\ \A j : Once(j) => Once(j)'
      /\ Once(x) => x \notin Queued'
  BY <1>1, QueuedRemove DEF Ownership
<1>3. x \in Queued
  BY <1>1 DEF Queued
<1>4. /\ HeldIds = {} /\ HeldIds' = {x} /\ section'.stage = "forced" /\ section'.job = x
      /\ OnRunning' = OnRunning /\ RunningIds' = RunningIds
  BY DEF ForceTake, LockFree, HeldIds, OnRunning, RunningIds
<1>5. Active' \subseteq Active
  BY <1>2, <1>3, <1>4 DEF Active
<1>6. IdsIssued'
  BY <1>2, <1>3, <1>4 DEF Ownership, IdsIssued, ForceTake, jobVars
<1>7. OnePlace'
  BY <1>2, <1>3, <1>4 DEF Ownership, OnePlace, ForceTake
<1>8. PeekedIsQueued'
  BY <1>4 DEF PeekedIsQueued
<1>9. OneJobPerWork' /\ ClaimsExclusive' /\ InlineIsClaimed'
  BY <1>5 DEF Ownership, OneJobPerWork, ClaimsExclusive, InlineIsClaimed, ForceTake, jobVars
<1> QED BY <1>6, <1>7, <1>8, <1>9 DEF Ownership

(* The job leaves the lock's hold and enters the running queue.                *)
LEMMA AdmitStep ==
  ASSUME Ownership, TypeOK', NEW r \in Runs, Admit(r)
  PROVE  Ownership'
<1> DEFINE x == section.job
<1>1. /\ Queued' = Queued /\ HeldIds = {x} /\ HeldIds' = {}
      /\ \A j : Once(j)' <=> Once(j)
      /\ section'.stage = "free"
  BY DEF Admit, FreeLock, Queued, HeldIds, Once
<1>2. /\ run'[r].job = x /\ run'[r].phase = "reserved" /\ run'[r].inline = NoWork
      /\ \A s \in Runs : s # r => run'[s] = run[s]
  BY DEF Admit, IdleRun, Ownership, TypeOK
<1>3. OnRunning' = OnRunning \cup {r} /\ r \notin OnRunning
  BY <1>2 DEF Admit, OnRunning
<1>4. RunningIds' = RunningIds \cup {x}
  <2>1. \A q \in OnRunning : run'[q].job = run[q].job
    BY <1>2, <1>3 DEF OnRunning
  <2> QED BY <2>1, <1>2, <1>3 DEF RunningIds
<1>5. Active' = Active
  BY <1>1, <1>4 DEF Active
<1>6. x \in 1..lastId
  BY DEF Admit, Ownership, IdsIssued
<1>7. IdsIssued'
  BY <1>1, <1>4, <1>6 DEF Ownership, IdsIssued, Admit, jobVars
<1>8. OnePlace'
  <2> SUFFICES ASSUME NEW j \in JobIds, j \notin disturbed
               PROVE  /\ Once(j)'
                      /\ \A p, q \in OnRunning' : run'[p].job = j /\ run'[q].job = j => p = q
                      /\ j \in Queued' => j \notin HeldIds' \cup RunningIds'
                      /\ j \in HeldIds' => j \notin RunningIds'
    BY DEF OnePlace, Admit
  <2>1. /\ Once(j)
        /\ \A p, q \in OnRunning : run[p].job = j /\ run[q].job = j => p = q
        /\ j \in Queued => j \notin HeldIds \cup RunningIds
        /\ j \in HeldIds => j \notin RunningIds
    BY DEF Ownership, OnePlace
  <2>2. ASSUME NEW p \in OnRunning', NEW q \in OnRunning', run'[p].job = j, run'[q].job = j
        PROVE  p = q
    <3>1. CASE j = x
      BY <3>1, <2>1, <2>2, <1>1, <1>2, <1>3 DEF RunningIds, OnRunning
    <3>2. CASE j # x
      BY <3>2, <2>1, <2>2, <1>2, <1>3 DEF OnRunning
    <3> QED BY <3>1, <3>2
  <2> QED BY <2>1, <2>2, <1>1, <1>4
<1>9. PeekedIsQueued'
  BY <1>1 DEF PeekedIsQueued
<1>10. OneJobPerWork' /\ ClaimsExclusive'
  BY <1>5 DEF Ownership, OneJobPerWork, ClaimsExclusive, Admit, jobVars
<1>11. InlineIsClaimed'
  BY <1>2 DEF Ownership, InlineIsClaimed, Admit
<1> QED BY <1>7, <1>8, <1>9, <1>10, <1>11 DEF Ownership

(* Claims: granted under the lock, dropped by work whoever holds them.          *)
LEMMA ClaimStep ==
  ASSUME Ownership, TypeOK', NEW r \in Runs, NEW w \in Work, ClaimInline(r, w)
  PROVE  Ownership'
<1> DEFINE mine == [work |-> w, owner |-> run[r].job]
<1>1. /\ Queued' = Queued /\ HeldIds' = {} /\ HeldIds = {}
      /\ \A j : Once(j)' <=> Once(j)
  BY DEF ClaimInline, LockFree, Queued, HeldIds, Once
<1>2. /\ \A s \in Runs : run'[s].job = run[s].job /\ run'[s].phase = run[s].phase
      /\ \A s \in Runs : s # r => run'[s].inline = run[s].inline
      /\ run'[r].inline = w
  BY DEF ClaimInline, Ownership, TypeOK, RunType
<1>3. OnRunning' = OnRunning /\ RunningIds' = RunningIds
  BY <1>2 DEF OnRunning, RunningIds
<1>4. Active' = Active
  BY <1>1, <1>3 DEF Active
<1>5. claims' = claims \cup {mine} /\ (mine \in claims \/ \A c \in claims : c.work # w)
  BY DEF ClaimInline, Claimed
<1>6. \A j \in Active : work[j] # w
  BY <1>1 DEF ClaimInline, Existing, Active
<1>7. IdsIssued' /\ PeekedIsQueued'
  BY <1>1, <1>3 DEF Ownership, IdsIssued, PeekedIsQueued, ClaimInline, jobVars
<1>8. OnePlace'
  BY <1>1, <1>2, <1>3 DEF Ownership, OnePlace, ClaimInline, OnRunning
<1>9. OneJobPerWork'
  BY <1>4 DEF Ownership, OneJobPerWork, ClaimInline, jobVars
<1>10. ClaimsExclusive'
  <2>1. \A c \in claims' : \A j \in Active \ disturbed : work[j] # c.work
    BY <1>5, <1>6 DEF Ownership, ClaimsExclusive
  <2>2. \A c, d \in claims' : c.work = d.work => c = d
    BY <1>5 DEF Ownership, ClaimsExclusive
  <2> QED BY <2>1, <2>2, <1>4 DEF ClaimsExclusive, ClaimInline, jobVars
<1>11. InlineIsClaimed'
  <2>1. run[r].phase = "started" /\ disturbed' = disturbed
    BY DEF ClaimInline
  <2> QED BY <2>1, <1>2, <1>5 DEF Ownership, InlineIsClaimed
<1> QED BY <1>7, <1>8, <1>9, <1>10, <1>11 DEF Ownership

LEMMA ReleaseStep ==
  ASSUME Ownership, TypeOK', NEW r \in Runs, ReleaseInline(r)
  PROVE  Ownership'
<1> DEFINE w == run[r].inline
<1>1. /\ Queued' = Queued /\ HeldIds' = HeldIds
      /\ \A j : Once(j)' <=> Once(j)
  BY DEF ReleaseInline, Queued, HeldIds, Once
<1>2. /\ \A s \in Runs : run'[s].job = run[s].job /\ run'[s].phase = run[s].phase
      /\ \A s \in Runs : s # r => run'[s].inline = run[s].inline
      /\ run'[r].inline = NoWork
  BY DEF ReleaseInline, Ownership, TypeOK, RunType
<1>3. OnRunning' = OnRunning /\ RunningIds' = RunningIds
  BY <1>2 DEF OnRunning, RunningIds
<1>4. Active' = Active
  BY <1>1, <1>3 DEF Active
<1>5. /\ claims' = {c \in claims : c.work # w}
      /\ disturbed \subseteq disturbed'
      /\ \A c \in claims : c.work = w /\ c.owner # run[r].job => c.owner \in disturbed'
  BY DEF ReleaseInline
<1>6. IdsIssued' /\ PeekedIsQueued'
  BY <1>1, <1>3, <1>5 DEF Ownership, IdsIssued, PeekedIsQueued, ReleaseInline, jobVars
<1>7. OnePlace'
  BY <1>1, <1>2, <1>3, <1>5 DEF Ownership, OnePlace, OnRunning
<1>8. OneJobPerWork' /\ ClaimsExclusive'
  BY <1>4, <1>5 DEF Ownership, OneJobPerWork, ClaimsExclusive, ReleaseInline, jobVars
<1>9. InlineIsClaimed'
  <2> SUFFICES ASSUME NEW s \in Runs, run'[s].inline # NoWork
               PROVE  /\ run'[s].phase = "started"
                      /\ run'[s].job \notin disturbed' =>
                           [work |-> run'[s].inline, owner |-> run'[s].job] \in claims'
    BY DEF InlineIsClaimed
  <2>1. s # r /\ run'[s].inline = run[s].inline /\ run[s].phase = "started"
    BY <1>2 DEF Ownership, InlineIsClaimed
  <2>2. ASSUME run[s].job \notin disturbed'
        PROVE  [work |-> run[s].inline, owner |-> run[s].job] \in claims'
    <3> DEFINE c == [work |-> run[s].inline, owner |-> run[s].job]
    <3>1. c \in claims
      BY <2>1, <2>2, <1>2, <1>5 DEF Ownership, InlineIsClaimed
    <3>2. ASSUME run[s].inline = w PROVE FALSE
      <4>1. run[s].job = run[r].job
        BY <3>1, <3>2, <2>2, <1>5
      <4>2. r \in OnRunning /\ s \in OnRunning
        BY <2>1 DEF OnRunning, ReleaseInline, Ownership, InlineIsClaimed
      <4>3. run[s].job \in JobIds \ disturbed
        BY <2>1, <2>2, <1>5 DEF Ownership, TypeOK
      <4> QED BY <4>1, <4>2, <4>3, <2>1 DEF Ownership, OnePlace
    <3> QED BY <3>1, <3>2, <1>5
  <2> QED BY <2>1, <2>2, <1>2
<1> QED BY <1>6, <1>7, <1>8, <1>9 DEF Ownership

LEMMA MoveInsertStep ==
  ASSUME Ownership, TypeOK', NEW e \in Editors, MoveInsert(e)
  PROVE  Ownership'
<1> DEFINE x == editor[e].job
<1>1. x \in 1..lastId /\ x \in disturbed /\ x \in JobIds
  BY DEF MoveInsert, Ownership, IdsIssued, TypeOK
<1>2. /\ Queued' = Queued \cup {x}
      /\ \A j : j # x /\ Once(j) => Once(j)'
  BY <1>1, QueuedInsert DEF MoveInsert, Ownership
<1>3. HeldIds' = HeldIds /\ OnRunning' = OnRunning /\ RunningIds' = RunningIds
  BY DEF MoveInsert, HeldIds, OnRunning, RunningIds
<1>4. Active' \ disturbed' = Active \ disturbed
  BY <1>1, <1>2, <1>3 DEF Active, MoveInsert
<1>5. IdsIssued'
  <2>1. \A f \in Editors : editor'[f].stage = "moving" => editor'[f] = editor[f]
    BY DEF MoveInsert, AtRest, Ownership, TypeOK
  <2> QED BY <2>1, <1>1, <1>2, <1>3 DEF Ownership, IdsIssued, MoveInsert, jobVars
<1>6. OnePlace'
  BY <1>1, <1>2, <1>3 DEF Ownership, OnePlace, MoveInsert
<1>7. PeekedIsQueued'
  BY <1>2 DEF Ownership, PeekedIsQueued, MoveInsert
<1>8. OneJobPerWork' /\ ClaimsExclusive' /\ InlineIsClaimed'
  BY <1>4 DEF Ownership, OneJobPerWork, ClaimsExclusive, InlineIsClaimed, MoveInsert, jobVars
<1> QED BY <1>5, <1>6, <1>7, <1>8 DEF Ownership

LEMMA EmptyPendingStep ==
  ASSUME Ownership, TypeOK', NEW e \in Editors, EmptyPending(e)
  PROVE  Ownership'
<1>1. Queued' = {} /\ \A j : Once(j)'
  BY DEF EmptyPending, Queued, Once
<1>2. HeldIds' = HeldIds /\ OnRunning' = OnRunning /\ RunningIds' = RunningIds
  BY DEF EmptyPending, HeldIds, OnRunning, RunningIds
<1>3. disturbed' = disturbed \cup Queued
  BY DEF EmptyPending
<1>4. Active' \ disturbed' \subseteq Active \ disturbed
  BY <1>1, <1>2, <1>3 DEF Active
<1>5. IdsIssued' /\ OnePlace' /\ PeekedIsQueued'
  BY <1>1, <1>2, <1>3
  DEF Ownership, IdsIssued, OnePlace, PeekedIsQueued, EmptyPending, jobVars
<1>6. OneJobPerWork' /\ ClaimsExclusive' /\ InlineIsClaimed'
  BY <1>3, <1>4
  DEF Ownership, OneJobPerWork, ClaimsExclusive, InlineIsClaimed, EmptyPending, jobVars
<1> QED BY <1>5, <1>6 DEF Ownership

LEMMA OwnershipInit == Init => Ownership
<1> SUFFICES ASSUME Init PROVE Ownership
  OBVIOUS
<1>1. TypeOK
  BY TypingInductive
<1>2. Queued = {} /\ HeldIds = {} /\ OnRunning = {} /\ RunningIds = {} /\ \A j : Once(j)
  BY DEF Init, Queued, HeldIds, OnRunning, RunningIds, Once, IdleRun, FreeLock
<1>3. \A r \in Runs : run[r].inline = NoWork
  BY DEF Init, IdleRun
<1>4. section.stage = "free" /\ \A e \in Editors : editor[e].stage = "idle"
  BY DEF Init, FreeLock, AtRest
<1> QED
  BY <1>1, <1>2, <1>3, <1>4
  DEF Ownership, IdsIssued, OnePlace, PeekedIsQueued, OneJobPerWork, ClaimsExclusive,
      InlineIsClaimed, Active, Init

LEMMA OwnershipStep == Ownership /\ [Next]_vars => Ownership'
<1> SUFFICES ASSUME Ownership, [Next]_vars PROVE Ownership'
  OBVIOUS
<1>0. TypeOK /\ TypeOK'
  BY TypingInductive DEF Ownership
<1>1. ASSUME NEW w \in Work, Feed(w) PROVE Ownership'
  BY <1>0, <1>1, NewJobStep DEF Feed
<1>2. ASSUME NEW t \in Waiters, NEW w \in Work, FeedAndWait(t, w) PROVE Ownership'
  BY <1>0, <1>2, NewJobStep DEF FeedAndWait
<1>3. ASSUME NEW j \in JobIds, Retry(j) PROVE Ownership'
  BY <1>0, <1>3, NewJobStep DEF Retry
<1>4. ASSUME NEW j \in JobIds, ForceTake(j) PROVE Ownership'
  BY <1>0, <1>4, ForceTakeStep
<1>5. ASSUME Reserve, ~ConsumerSleeps PROVE Ownership'
  BY <1>0, <1>5, ReserveStep DEF Reserve
<1>6. ASSUME NEW r \in Runs, Admit(r) PROVE Ownership'
  BY <1>0, <1>6, AdmitStep
<1>7. ASSUME NEW r \in Runs, NEW w \in Work, ClaimInline(r, w) PROVE Ownership'
  BY <1>0, <1>7, ClaimStep
<1>8. ASSUME NEW r \in Runs, ReleaseInline(r) PROVE Ownership'
  BY <1>0, <1>8, ReleaseStep
<1>9. ASSUME NEW e \in Editors, MoveInsert(e) PROVE Ownership'
  BY <1>0, <1>9, MoveInsertStep
<1>10. ASSUME NEW e \in Editors, EmptyPending(e) PROVE Ownership'
  BY <1>0, <1>10, EmptyPendingStep
<1>11. ASSUME NEW e \in Editors, NEW j \in JobIds, RemovePending(e, j) PROVE Ownership'
  BY <1>0, <1>11, TakeOffStep DEF RemovePending, jobVars
<1>12. ASSUME NEW e \in Editors, NEW j \in JobIds, MoveTake(e, j) PROVE Ownership'
  <2>1. \A f \in Editors : editor'[f].stage = "moving" =>
          editor'[f] = editor[f] \/ editor'[f].job = j
    BY <1>0, <1>12 DEF MoveTake, TypeOK
  <2> QED BY <2>1, <1>0, <1>12, TakeOffStep DEF MoveTake, jobVars
<1>13. ASSUME NEW e \in Editors, StopTakesPending(e) PROVE Ownership'
  <2>1. \A f \in Editors : editor'[f].stage = "moving" => editor'[f] = editor[f]
    BY <1>0, <1>13 DEF StopTakesPending, TypeOK, AtRest
  <2>2. editor[e].job \in JobIds
    BY <1>0, <1>13 DEF StopTakesPending, TypeOK
  <2> QED BY <2>1, <2>2, <1>0, <1>13, TakeOffStep DEF StopTakesPending, jobVars
<1>14. ASSUME NEW r \in Runs, StartRun(r) \/ LeaveRunning(r) \/ FileRun(r)
              \/ \E end \in Status \ Unfinished : FinishRun(r, end)
       PROVE  Ownership'
  <2> DEFINE Shrinks ==
        /\ \A s \in Runs : s # r => run'[s] = run[s]
        /\ run'[r].phase \in {"reserved", "started", "finished"} =>
             run[r].phase \in {"reserved", "started", "finished"} /\ run'[r].job = run[r].job
        /\ run'[r].inline = NoWork
  <2>a. run \in [Runs -> RunType] /\ (run[r].phase # "started" => run[r].inline = NoWork)
    BY DEF Ownership, TypeOK, InlineIsClaimed
  <2>b. ASSUME StartRun(r) PROVE Shrinks
    BY <2>a, <2>b DEF StartRun, RunType
  <2>c. ASSUME LeaveRunning(r) PROVE Shrinks
    BY <2>a, <2>c DEF LeaveRunning, RunType
  <2>d. ASSUME FileRun(r) PROVE Shrinks
    BY <2>a, <2>d DEF FileRun, IdleRun
  <2>e. ASSUME \E end \in Status \ Unfinished : FinishRun(r, end) PROVE Shrinks
    BY <2>a, <2>e DEF FinishRun, RunType
  <2>1. Shrinks
    BY <1>14, <2>b, <2>c, <2>d, <2>e
  <2>2. OnRunning' \subseteq OnRunning /\ \A s \in OnRunning' : run'[s].job = run[s].job
    BY <2>1 DEF OnRunning
  <2>3. \A s \in Runs : run'[s].inline # NoWork =>
          /\ run'[s].phase = "started"
          /\ run'[s].inline = run[s].inline /\ run'[s].job = run[s].job
    BY <2>1 DEF Ownership, InlineIsClaimed
  <2>4. UNCHANGED <<pending, section, claims, disturbed, lastId, work, editor>>
    BY <1>14 DEF StartRun, LeaveRunning, FileRun, FinishRun, jobVars
  <2> QED BY <2>2, <2>3, <2>4, <1>0, QuietStep
<1>15. ASSUME UNCHANGED <<pending, section, claims, disturbed, lastId, work, run>>,
              \A f \in Editors : editor'[f].stage = "moving" => editor'[f] = editor[f]
       PROVE  Ownership'
  <2>1. OnRunning' = OnRunning
    BY <1>15 DEF OnRunning
  <2>2. \A s \in Runs : run'[s].inline # NoWork =>
          /\ run'[s].phase = "started"
          /\ run'[s].inline = run[s].inline /\ run'[s].job = run[s].job
    BY <1>15 DEF Ownership, InlineIsClaimed
  <2> QED BY <2>1, <2>2, <1>15, <1>0, QuietStep
<1>16. ASSUME \/ \E j \in JobIds : Cancel(j)
              \/ \E t \in Waiters : Poll(t) \/ WaiterLeaves(t)
              \/ \E e \in Editors : EmptyHistory(e)
              \/ ConsumerSleeps \/ UNCHANGED vars
       PROVE  Ownership'
  BY <1>15, <1>16 DEF Cancel, Poll, WaiterLeaves, EmptyHistory, ConsumerSleeps, vars, jobVars
<1>17. ASSUME NEW e \in Editors,
              \/ \E j \in JobIds : StopBegins(e, j)
              \/ StopMissesPending(e) \/ StopCancels(e) \/ StopFindsNothing(e) \/ StopRefused(e)
       PROVE  Ownership'
  <2>1. /\ UNCHANGED <<pending, section, claims, disturbed, lastId, work, run>>
        /\ \A f \in Editors : f # e => editor'[f] = editor[f]
        /\ editor'[e].stage # "moving"
    BY <1>0, <1>17
    DEF StopBegins, StopMissesPending, StopCancels, StopFindsNothing, StopRefused, TypeOK,
        EditorType, AtRest, jobVars
  <2> QED BY <2>1, <1>15
<1> QED
  BY <1>1, <1>2, <1>3, <1>4, <1>5, <1>6, <1>7, <1>8, <1>9, <1>10, <1>11, <1>12, <1>13,
     <1>14, <1>16, <1>17
  DEF Next, Producers, Reserve, JobThread, RunEnds, Edit

-----------------------------------------------------------------------------
(* Two threads never do the same work at once, as a job of its own or inline   *)
(* in a batch, unless an edit made without the lock touched one of the jobs.   *)
THEOREM NoDoubleWork == Spec => []OneThreadPerWork
<1>1. Ownership => OneThreadPerWork
  <2> SUFFICES ASSUME Ownership, NEW r \in OnRunning, NEW s \in OnRunning, r # s,
                      run[r].job \notin disturbed, run[s].job \notin disturbed,
                      NEW w \in Does(r) \cap Does(s)
               PROVE  FALSE
    BY DEF OneThreadPerWork
  <2>1. run[r].job # run[s].job
    <3>1. run[r].job \in JobIds
      BY DEF Ownership, TypeOK, OnRunning
    <3> QED BY <3>1 DEF Ownership, OnePlace
  <2>2. run[r].job \in Active \ disturbed /\ run[s].job \in Active \ disturbed
    BY DEF Active, RunningIds
  <2>3. CASE work[run[r].job] = w /\ work[run[s].job] = w
    BY <2>1, <2>2, <2>3 DEF Ownership, OneJobPerWork
  <2>4. ASSUME NEW p \in OnRunning, run[p].job \notin disturbed, run[p].inline = w
        PROVE  [work |-> w, owner |-> run[p].job] \in claims
    BY <2>4 DEF Does, Ownership, InlineIsClaimed, OnRunning
  <2>5. CASE run[r].inline = w /\ run[s].inline = w
    BY <2>1, <2>4, <2>5 DEF Ownership, ClaimsExclusive
  <2>6. CASE run[r].inline = w /\ work[run[s].job] = w
    BY <2>2, <2>4, <2>6 DEF Ownership, ClaimsExclusive
  <2>7. CASE work[run[r].job] = w /\ run[s].inline = w
    BY <2>2, <2>4, <2>7 DEF Ownership, ClaimsExclusive
  <2> QED BY <2>3, <2>5, <2>6, <2>7 DEF Does
<1> QED BY <1>1, OwnershipInit, OwnershipStep, PTL DEF Spec

-----------------------------------------------------------------------------
(* The status of a job follows its place in the queue, and a job that has not  *)
(* ended has a place.                                                         *)
StatusFollows ==
  /\ \A j \in JobIds : j > lastId => status[j] = "pending"
  /\ \A j \in (Queued \cup HeldIds) \ disturbed : status[j] = "pending"
  /\ \A r \in OnRunning : run[r].job \notin disturbed =>
       /\ run[r].phase = "reserved" => status[run[r].job] = "pending"
       /\ run[r].phase = "started" => status[run[r].job] = "running"
       /\ run[r].phase = "finished" => status[run[r].job] \notin Unfinished
Placed == \A j \in 1..lastId \ disturbed : status[j] \in Unfinished => j \in Active
InStep == StatusFollows /\ Placed

LEMMA Sets ==
  ASSUME TypeOK
  PROVE  /\ Queued \subseteq JobIds /\ HeldIds \subseteq JobIds /\ RunningIds \subseteq JobIds
         /\ OnRunning \subseteq Runs /\ \A r \in OnRunning : run[r].job \in JobIds
<1>1. Queued \subseteq JobIds
  <2> SUFFICES ASSUME NEW i \in DOMAIN pending PROVE pending[i] \in JobIds
    BY DEF Queued
  <2> QED BY DEF TypeOK
<1>2. OnRunning \subseteq Runs /\ \A r \in OnRunning : run[r].job \in JobIds
  BY DEF OnRunning, TypeOK
<1>3. HeldIds \subseteq JobIds
  BY DEF HeldIds, TypeOK
<1> QED BY <1>1, <1>2, <1>3 DEF RunningIds

(* A step that lets no job begin or end keeps the statuses in step with the    *)
(* places if it keeps the places, or takes a job from the lock to its thread,  *)
(* or an ended job off the running queue.                                     *)
LEMMA InStepKept ==
  ASSUME Ownership, InStep, UNCHANGED <<lastId, status>>, disturbed \subseteq disturbed',
         (Queued' \cup HeldIds') \ disturbed' \subseteq Queued \cup HeldIds,
         \A r \in OnRunning' :
           \/ r \in OnRunning /\ run'[r].job = run[r].job /\ run'[r].phase = run[r].phase
           \/ run'[r].phase = "reserved" /\ run'[r].job \in HeldIds,
         \A j \in Active \ disturbed' : j \in Active' \/ status[j] \notin Unfinished
  PROVE  InStep'
<1>1. \A j \in (Queued' \cup HeldIds') \ disturbed' : status'[j] = "pending"
  BY DEF InStep, StatusFollows
<1>2. ASSUME NEW r \in OnRunning', run'[r].job \notin disturbed'
      PROVE  /\ run'[r].phase = "reserved" => status'[run'[r].job] = "pending"
             /\ run'[r].phase = "started" => status'[run'[r].job] = "running"
             /\ run'[r].phase = "finished" => status'[run'[r].job] \notin Unfinished
  <2>1. run'[r].job \notin disturbed
    BY <1>2
  <2>2. CASE r \in OnRunning /\ run'[r].job = run[r].job /\ run'[r].phase = run[r].phase
    BY <2>1, <2>2 DEF InStep, StatusFollows
  <2>3. CASE run'[r].phase = "reserved" /\ run'[r].job \in HeldIds
    BY <2>1, <2>3 DEF InStep, StatusFollows
  <2> QED BY <2>2, <2>3
<1>3. Placed'
  BY DEF InStep, Placed
<1>4. \A j \in JobIds : j > lastId' => status'[j] = "pending"
  BY DEF InStep, StatusFollows
<1> QED BY <1>1, <1>2, <1>3, <1>4 DEF InStep, StatusFollows

LEMMA InStepNewJob ==
  ASSUME Ownership, Ownership', InStep, NEW w, NewJob(w)
  PROVE  InStep'
<1> DEFINE n == lastId + 1
<1>1. /\ n \in JobIds /\ lastId \in Nat /\ lastId' = n
      /\ status' = status /\ disturbed' = disturbed /\ run' = run
      /\ HeldIds = {} /\ HeldIds' = {} /\ OnRunning' = OnRunning /\ RunningIds' = RunningIds
  BY JobsAssumption DEF NewJob, Ownership, TypeOK, JobIds, LockFree, HeldIds, OnRunning, RunningIds
<1>2. Queued' = Queued \cup {n}
  BY <1>1, QueuedInsert DEF NewJob, Ownership
<1>3. status[n] = "pending"
  BY <1>1 DEF InStep, StatusFollows
<1>4. \A j \in (Queued' \cup HeldIds') \ disturbed' : status'[j] = "pending"
  BY <1>1, <1>2, <1>3 DEF InStep, StatusFollows
<1>5. \A j \in JobIds : j > lastId' => status'[j] = "pending"
  BY <1>1 DEF InStep, StatusFollows, JobIds
<1>6. Placed'
  BY <1>1, <1>2 DEF InStep, Placed, Active
<1> QED BY <1>1, <1>4, <1>5, <1>6 DEF InStep, StatusFollows

(* A job begins, or ends: it is in one place, its thread.                     *)
LEMMA InStepTurns ==
  ASSUME Ownership, InStep, NEW r \in OnRunning, NEW now \in Status, NEW p \in Phases,
         UNCHANGED <<lastId, pending, section, disturbed>>,
         \A s \in Runs : run'[s].job = run[s].job /\ (s # r => run'[s] = run[s]),
         run'[r].phase = p, status' = [status EXCEPT ![run[r].job] = now],
         \/ p = "started" /\ now = "running"
         \/ p = "finished" /\ now \notin Unfinished
  PROVE  InStep'
<1> DEFINE x == run[r].job
<1>1. /\ x \in JobIds /\ x \in RunningIds /\ x <= lastId /\ lastId \in Nat
      /\ OnRunning' = OnRunning /\ RunningIds' = RunningIds
  <2>1. OnRunning' = OnRunning
    BY DEF OnRunning
  <2>2. RunningIds' = RunningIds
    <3>1. \A s \in OnRunning : run'[s].job = run[s].job
      BY DEF OnRunning
    <3> QED BY <2>1, <3>1 DEF RunningIds
  <2>3. x \in RunningIds /\ x \in JobIds
    BY Sets DEF RunningIds, Ownership
  <2> QED BY <2>1, <2>2, <2>3 DEF Ownership, IdsIssued, TypeOK
<1>2. Queued' = Queued /\ HeldIds' = HeldIds /\ Active' = Active
  BY <1>1 DEF Queued, HeldIds, Active
<1>3. \A j \in JobIds : status'[j] = IF j = x THEN now ELSE status[j]
  BY <1>1 DEF Ownership, TypeOK
<1>4. ASSUME NEW j \in (Queued' \cup HeldIds') \ disturbed' PROVE status'[j] = "pending"
  <2>1. j \in JobIds /\ j \in (Queued \cup HeldIds) \ disturbed
    BY <1>2, <1>4, Sets DEF Ownership
  <2>2. j # x
    BY <1>1, <2>1 DEF Ownership, OnePlace
  <2> QED BY <1>3, <2>1, <2>2 DEF InStep, StatusFollows
<1>5. ASSUME NEW s \in OnRunning', run'[s].job \notin disturbed'
      PROVE  /\ run'[s].phase = "reserved" => status'[run'[s].job] = "pending"
             /\ run'[s].phase = "started" => status'[run'[s].job] = "running"
             /\ run'[s].phase = "finished" => status'[run'[s].job] \notin Unfinished
  <2>1. s \in OnRunning /\ run'[s].job = run[s].job /\ run[s].job \in JobIds \ disturbed
    BY <1>1, <1>5, Sets DEF Ownership, OnRunning
  <2>2. CASE s = r
    BY <1>3, <2>1, <2>2
  <2>3. CASE s # r
    <3>1. run[s].job # x
      BY <2>1, <2>3 DEF Ownership, OnePlace
    <3>2. run'[s].phase = run[s].phase /\ status'[run'[s].job] = status[run[s].job]
      BY <1>3, <2>1, <2>3, <3>1 DEF OnRunning
    <3> QED BY <2>1, <3>2 DEF InStep, StatusFollows
  <2> QED BY <2>2, <2>3
<1>6. \A j \in JobIds : j > lastId' => status'[j] = "pending"
  BY <1>1, <1>3 DEF InStep, StatusFollows, JobIds
<1>7. Placed'
  <2> SUFFICES ASSUME NEW j \in 1..lastId, j \notin disturbed, status'[j] \in Unfinished PROVE j \in Active
    BY <1>2 DEF Placed
  <2>1. j \in JobIds
    BY <1>1, JobsAssumption DEF JobIds, Ownership, TypeOK
  <2> QED BY <1>1, <1>3, <2>1 DEF InStep, Placed, Active
<1> QED BY <1>4, <1>5, <1>6, <1>7 DEF InStep, StatusFollows

LEMMA InStepStep == Ownership /\ InStep /\ [Next]_vars => InStep'
<1> SUFFICES ASSUME Ownership, InStep, [Next]_vars PROVE InStep'
  OBVIOUS
<1>0. TypeOK /\ TypeOK' /\ Ownership'
  BY TypingInductive, OwnershipStep DEF Ownership
<1>1. ASSUME NEW w, NewJob(w) PROVE InStep'
  BY <1>0, <1>1, InStepNewJob
<1>2. ASSUME NEW j \in JobIds, ForceTake(j) PROVE InStep'
  <2>1. PICK i \in DOMAIN pending : pending[i] = j /\ pending' = RemoveAt(pending, i)
    BY <1>2 DEF ForceTake
  <2>2. Queued' \subseteq Queued /\ Queued \subseteq Queued' \cup {j} /\ j \in Queued
    BY <1>0, <2>1, QueuedRemove DEF Queued
  <2>3. HeldIds = {} /\ HeldIds' = {j} /\ OnRunning' = OnRunning /\ RunningIds' = RunningIds /\ run' = run
    BY <1>2 DEF ForceTake, LockFree, HeldIds, OnRunning, RunningIds
  <2>4. UNCHANGED <<lastId, status, disturbed>>
    BY <1>2 DEF ForceTake, jobVars
  <2>5. Active \subseteq Active' /\ Queued' \cup HeldIds' \subseteq Queued \cup HeldIds
    BY <2>2, <2>3 DEF Active
  <2> QED BY <2>3, <2>4, <2>5, InStepKept
<1>3. CASE ReservePeek \/ ReservePopEmpty
  <2>1. /\ Queued' = Queued /\ HeldIds' = HeldIds /\ OnRunning' = OnRunning /\ RunningIds' = RunningIds
        /\ UNCHANGED <<lastId, status, disturbed, run>>
    BY <1>3 DEF ReservePeek, ReservePopEmpty, LockFree, FreeLock, Queued, HeldIds, OnRunning, RunningIds,
                jobVars
  <2> QED BY <2>1, InStepKept DEF Active
<1>4. CASE ReservePop
  <2> DEFINE h == Head(pending)
  <2>1. h \in Queued /\ Queued' \subseteq Queued /\ Queued \subseteq Queued' \cup {h}
    BY <1>0, <1>4, QueuedTail DEF ReservePop
  <2>2. /\ HeldIds = {} /\ HeldIds' = {section.job} /\ OnRunning' = OnRunning /\ RunningIds' = RunningIds
        /\ UNCHANGED <<lastId, status, run>> /\ disturbed \subseteq disturbed'
        /\ h = section.job \/ {h, section.job} \subseteq disturbed'
    BY <1>0, <1>4 DEF ReservePop, HeldIds, OnRunning, RunningIds, TypeOK, SectionType, jobVars
  <2>3. (Queued' \cup HeldIds') \ disturbed' \subseteq Queued \cup HeldIds
    BY <2>1, <2>2
  <2>4. Active \ disturbed' \subseteq Active'
    BY <2>1, <2>2 DEF Active
  <2> QED BY <2>2, <2>3, <2>4, InStepKept
<1>5. ASSUME NEW r \in Runs, Admit(r) PROVE InStep'
  <2>1. /\ Queued' = Queued /\ HeldIds = {section.job} /\ HeldIds' = {}
        /\ UNCHANGED <<lastId, status, disturbed>>
    BY <1>5 DEF Admit, FreeLock, Queued, HeldIds, jobVars
  <2>2. /\ run'[r].job = section.job /\ run'[r].phase = "reserved"
        /\ \A s \in Runs : s # r => run'[s] = run[s]
    BY <1>0, <1>5 DEF Admit, IdleRun, TypeOK
  <2>3. \A s \in OnRunning : s # r /\ s \in OnRunning' /\ run'[s].job = run[s].job
    BY <1>5, <2>2 DEF Admit, OnRunning
  <2>4. r \in OnRunning' /\ \A s \in OnRunning' : s = r \/ s \in OnRunning
    BY <2>2 DEF OnRunning
  <2>5. Active \subseteq Active'
    <3>1. RunningIds \subseteq RunningIds' /\ section.job \in RunningIds'
      BY <2>2, <2>3, <2>4 DEF RunningIds
    <3> QED BY <2>1, <3>1 DEF Active
  <2>6. \A s \in OnRunning' :
          \/ s \in OnRunning /\ run'[s].job = run[s].job /\ run'[s].phase = run[s].phase
          \/ run'[s].phase = "reserved" /\ run'[s].job \in HeldIds
    BY <2>1, <2>2, <2>3, <2>4 DEF OnRunning
  <2> QED BY <2>1, <2>5, <2>6, InStepKept
<1>6. ASSUME NEW r \in Runs, StartRun(r) PROVE InStep'
  <2>1. /\ run \in [Runs -> RunType] /\ run' = [run EXCEPT ![r].phase = "started"]
        /\ r \in OnRunning /\ status' = [status EXCEPT ![run[r].job] = "running"]
        /\ UNCHANGED <<lastId, pending, section, disturbed>>
    BY <1>0, <1>6 DEF StartRun, OnRunning, TypeOK
  <2>2. /\ run'[r].phase = "started"
        /\ \A s \in Runs : run'[s].job = run[s].job /\ (s # r => run'[s] = run[s])
    BY <2>1 DEF RunType
  <2>3. "running" \in Status /\ "started" \in Phases
    BY DEF Status, Unfinished, Phases
  <2> QED BY <2>1, <2>2, <2>3, InStepTurns
<1>7. ASSUME NEW r \in Runs, NEW end \in Status \ Unfinished, FinishRun(r, end) PROVE InStep'
  <2>1. /\ run \in [Runs -> RunType]
        /\ run' = [run EXCEPT ![r].phase = "finished",
                              ![r].outcome = IF end = "failed" THEN "failed" ELSE "completed"]
        /\ r \in OnRunning /\ status' = [status EXCEPT ![run[r].job] = end]
        /\ UNCHANGED <<lastId, pending, section, disturbed>>
    BY <1>0, <1>7 DEF FinishRun, OnRunning, TypeOK
  <2>2. /\ run'[r].phase = "finished"
        /\ \A s \in Runs : run'[s].job = run[s].job /\ (s # r => run'[s] = run[s])
    BY <2>1 DEF RunType
  <2> QED BY <2>1, <2>2, InStepTurns DEF Phases
<1>8. ASSUME NEW r \in Runs, LeaveRunning(r) PROVE InStep'
  <2>1. /\ run \in [Runs -> RunType] /\ run' = [run EXCEPT ![r].phase = "left"] /\ r \in OnRunning
        /\ run[r].phase = "finished" /\ UNCHANGED <<lastId, status, pending, section, disturbed>>
    BY <1>0, <1>8 DEF LeaveRunning, OnRunning, TypeOK, jobVars
  <2>2. run'[r].phase = "left" /\ \A s \in Runs : s # r => run'[s] = run[s]
    BY <2>1 DEF RunType
  <2>3. OnRunning' = OnRunning \ {r} /\ \A s \in OnRunning' : run'[s] = run[s]
    BY <2>2 DEF OnRunning
  <2>4. Queued' = Queued /\ HeldIds' = HeldIds
    BY <2>1 DEF Queued, HeldIds
  <2>5. ASSUME NEW j \in Active \ disturbed' PROVE j \in Active' \/ status[j] \notin Unfinished
    <3>1. CASE j = run[r].job
      BY <2>1, <2>5, <3>1 DEF InStep, StatusFollows
    <3>2. CASE j # run[r].job
      BY <2>3, <2>4, <2>5, <3>2 DEF Active, RunningIds
    <3> QED BY <3>1, <3>2
  <2> QED BY <2>1, <2>3, <2>4, <2>5, InStepKept
<1>9. ASSUME UNCHANGED <<lastId, status, section>>, disturbed \subseteq disturbed',
             Queued' \subseteq Queued \cup disturbed', Queued \subseteq Queued' \cup disturbed',
             OnRunning' = OnRunning,
             \A s \in OnRunning : run'[s].job = run[s].job /\ run'[s].phase = run[s].phase
      PROVE  InStep'
  <2>1. HeldIds' = HeldIds
    BY <1>9 DEF HeldIds
  <2>2. RunningIds' = RunningIds
    BY <1>9 DEF RunningIds
  <2> QED BY <1>9, <2>1, <2>2, InStepKept DEF Active
<1>10. ASSUME NEW r \in Runs, FileRun(r) \/ ReleaseInline(r) \/ \E w \in Work : ClaimInline(r, w) PROVE InStep'
  <2>1. run \in [Runs -> RunType]
    BY <1>0 DEF TypeOK
  <2>2. OnRunning' = OnRunning /\ \A s \in OnRunning : run'[s].job = run[s].job /\ run'[s].phase = run[s].phase
    <3>1. CASE FileRun(r)
      <4>1. run[r].phase = "left" /\ run'[r].phase = "idle" /\ \A s \in Runs : s # r => run'[s] = run[s]
        BY <2>1, <3>1 DEF FileRun, IdleRun
      <4> QED BY <4>1 DEF OnRunning
    <3>2. CASE ReleaseInline(r) \/ \E w \in Work : ClaimInline(r, w)
      <4>3. \E w \in Work \cup {NoWork} : run' = [run EXCEPT ![r].inline = w]
        BY <3>2 DEF ReleaseInline, ClaimInline
      <4>1. \A s \in Runs : run'[s].job = run[s].job /\ run'[s].phase = run[s].phase
        BY <2>1, <4>3 DEF RunType
      <4> QED BY <4>1 DEF OnRunning
    <3> QED BY <1>10, <3>1, <3>2
  <2>3. UNCHANGED <<lastId, status, section, pending>> /\ disturbed \subseteq disturbed'
    BY <1>10 DEF FileRun, ReleaseInline, ClaimInline, jobVars
  <2> QED BY <1>9, <2>2, <2>3 DEF Queued
<1>11. ASSUME NEW e \in Editors, MoveInsert(e) PROVE InStep'
  <2>1. editor[e].job \in disturbed /\ editor[e].job \in JobIds
    BY <1>0, <1>11 DEF MoveInsert, Ownership, IdsIssued, TypeOK
  <2>2. Queued' = Queued \cup {editor[e].job}
    BY <1>0, <1>11, <2>1, QueuedInsert DEF MoveInsert
  <2>3. UNCHANGED <<lastId, status, section, disturbed, run>>
    BY <1>11 DEF MoveInsert, jobVars
  <2> QED BY <1>9, <2>1, <2>2, <2>3 DEF OnRunning
<1>12. ASSUME NEW j \in JobIds, TakeOff(j), UNCHANGED <<lastId, status, section, run>> PROVE InStep'
  <2>1. PICK i \in DOMAIN pending : pending[i] = j /\ pending' = RemoveAt(pending, i)
    BY <1>12 DEF TakeOff
  <2>2. Queued' \subseteq Queued /\ Queued \subseteq Queued' \cup {j} /\ disturbed' = disturbed \cup {j}
    BY <1>0, <1>12, <2>1, QueuedRemove DEF TakeOff
  <2> QED BY <1>9, <1>12, <2>2 DEF OnRunning
<1>13. ASSUME NEW e \in Editors,
              (\E j \in JobIds : RemovePending(e, j) \/ MoveTake(e, j)) \/ StopTakesPending(e)
       PROVE  InStep'
  <2>1. \E j \in JobIds : TakeOff(j)
    BY <1>0, <1>13 DEF RemovePending, MoveTake, StopTakesPending, TypeOK
  <2>2. UNCHANGED <<lastId, status, section, run>>
    BY <1>13 DEF RemovePending, MoveTake, StopTakesPending, jobVars
  <2> QED BY <1>12, <2>1, <2>2
<1>14. ASSUME NEW e \in Editors, EmptyPending(e) PROVE InStep'
  <2>1. Queued' = {} /\ disturbed' = disturbed \cup Queued /\ UNCHANGED <<lastId, status, section, run>>
    BY <1>14 DEF EmptyPending, Queued, jobVars
  <2> QED BY <1>9, <2>1 DEF OnRunning
<1>15. ASSUME UNCHANGED <<lastId, status, section, disturbed, pending, run>> PROVE InStep'
  BY <1>9, <1>15 DEF OnRunning, Queued
<1>16. ASSUME \/ \E j \in JobIds : Cancel(j)
              \/ \E t \in Waiters : Poll(t) \/ WaiterLeaves(t)
              \/ \E e \in Editors : EmptyHistory(e) \/ (\E j \in JobIds : StopBegins(e, j))
              \/ \E e \in Editors :
                   StopMissesPending(e) \/ StopCancels(e) \/ StopFindsNothing(e) \/ StopRefused(e)
              \/ ConsumerSleeps \/ UNCHANGED vars
       PROVE  InStep'
  BY <1>15, <1>16
     DEF Cancel, Poll, WaiterLeaves, EmptyHistory, StopBegins, StopMissesPending, StopCancels,
         StopFindsNothing, StopRefused, ConsumerSleeps, vars, jobVars
<1>17. CASE \/ \E w \in Work : Feed(w) \/ \E t \in Waiters : FeedAndWait(t, w)
            \/ \E j \in JobIds : Retry(j)
  BY <1>1, <1>17 DEF Feed, FeedAndWait, Retry
<1> QED
  BY <1>2, <1>3, <1>4, <1>5, <1>6, <1>7, <1>8, <1>10, <1>11, <1>13, <1>14, <1>16, <1>17
  DEF Next, Producers, Reserve, JobThread, RunEnds, Edit

-----------------------------------------------------------------------------
(* Where a job is.                                                            *)

LEMMA AtMostOne ==
  ASSUME NEW S, \A x, y \in S : x = y
  PROVE  Cardinality(S) = IF S = {} THEN 0 ELSE 1
<1>1. CASE S = {}
  BY <1>1, FS_EmptySet
<1>2. CASE S # {}
  <2>1. PICK x \in S : S = {x}
    BY <1>2
  <2> QED BY <1>2, <2>1, FS_Singleton
<1> QED BY <1>1, <1>2

LEMMA InStepAlways == Spec => [](Ownership /\ InStep)
<1>1. Init => InStep
  <2> SUFFICES ASSUME Init PROVE InStep
    OBVIOUS
  <2>1. Queued = {} /\ HeldIds = {} /\ OnRunning = {}
    BY DEF Init, Queued, HeldIds, OnRunning, IdleRun, FreeLock
  <2>2. lastId = 0 /\ \A j \in JobIds : status[j] = "pending"
    BY DEF Init
  <2> QED BY <2>1, <2>2 DEF InStep, StatusFollows, Placed
<1> QED BY <1>1, OwnershipInit, OwnershipStep, InStepStep, PTL DEF Spec

(* Every job that no unlocked edit touched has exactly one place in the queue  *)
(* as long as it is unfinished, and never two: between two deques the lock     *)
(* holds it, and a thread that ends it has marked it ended before it leaves   *)
(* the running queue (_reserve_next_job, force_start_pending_job, _run_job).  *)
THEOREM EveryJobHasItsPlace == Spec => []NothingLost
<1>1. Ownership /\ InStep => NothingLost
  <2> SUFFICES ASSUME Ownership, InStep, NEW j \in 1..lastId, j \notin disturbed
               PROVE  /\ status[j] \in Unfinished => Places(j) = 1
                      /\ Places(j) <= 1
    BY DEF NothingLost
  <2> DEFINE A == {i \in DOMAIN pending : pending[i] = j}
             B == HeldIds \cap {j}
             C == {r \in OnRunning : run[r].job = j}
  <2>1. j \in JobIds
    BY JobsAssumption DEF Ownership, TypeOK, JobIds
  <2>2. /\ Once(j) /\ \A r, s \in OnRunning : run[r].job = j /\ run[s].job = j => r = s
        /\ j \in Queued => j \notin HeldIds \cup RunningIds
        /\ j \in HeldIds => j \notin RunningIds
    BY <2>1 DEF Ownership, OnePlace
  <2>3. Cardinality(A) = IF A = {} THEN 0 ELSE 1
    BY <2>2, AtMostOne DEF Once
  <2>4. Cardinality(B) = IF B = {} THEN 0 ELSE 1
    BY AtMostOne
  <2>5. Cardinality(C) = IF C = {} THEN 0 ELSE 1
    BY <2>2, AtMostOne
  <2>6. (A # {} <=> j \in Queued) /\ (B # {} <=> j \in HeldIds) /\ (C # {} <=> j \in RunningIds)
    BY DEF Queued, RunningIds
  <2>7. Places(j) = Cardinality(A) + Cardinality(B) + Cardinality(C)
    BY DEF Places
  <2>8. status[j] \in Unfinished => j \in Queued \cup HeldIds \cup RunningIds
    BY DEF InStep, Placed, Active
  <2> HIDE DEF A, B, C
  <2> QED BY <2>2, <2>3, <2>4, <2>5, <2>6, <2>7, <2>8
<1> QED BY <1>1, InStepAlways, PTL

(* A job that no unlocked edit touched begins at most once and ends at most    *)
(* once: no step takes its status back (Job.status, _run_job).                *)
THEOREM StartedOnce == Spec => RunsOnce
<1> DEFINE Forward ==
      \A j \in JobIds \ disturbed' :
        status[j] # "pending" =>
          status'[j] # "pending" /\ (status[j] \notin Unfinished => status'[j] = status[j])
<1>1. Ownership /\ InStep /\ [Next]_vars => [Forward]_vars
  <2> SUFFICES ASSUME Ownership, InStep, Next, NEW j \in JobIds \ disturbed', status[j] # "pending"
               PROVE  status'[j] # "pending" /\ (status[j] \notin Unfinished => status'[j] = status[j])
    OBVIOUS
  <2>0. status \in [JobIds -> Status] /\ \A r \in Runs : r \in OnRunning => run[r].job \in JobIds
    BY Sets DEF Ownership, TypeOK
  <2>1. CASE status' = status
    BY <2>1
  <2>2. ASSUME NEW r \in Runs, StartRun(r)
        PROVE  status'[j] # "pending" /\ (status[j] \notin Unfinished => status'[j] = status[j])
    <3>1. r \in OnRunning /\ run[r].phase = "reserved" /\ disturbed' = disturbed
      BY <2>2 DEF StartRun, OnRunning
    <3>2. run[r].job # j
      BY <3>1 DEF InStep, StatusFollows
    <3> QED BY <2>0, <2>2, <3>1, <3>2 DEF StartRun
  <2>3. ASSUME NEW r \in Runs, NEW end \in Status \ Unfinished, FinishRun(r, end)
        PROVE  status'[j] # "pending" /\ (status[j] \notin Unfinished => status'[j] = status[j])
    <3>1. r \in OnRunning /\ run[r].phase = "started" /\ disturbed' = disturbed
      BY <2>3 DEF FinishRun, OnRunning
    <3>2. run[r].job = j => status[j] = "running"
      BY <3>1 DEF InStep, StatusFollows
    <3>3. status'[j] = IF j = run[r].job THEN end ELSE status[j]
      BY <2>0, <2>3, <3>1 DEF FinishRun
    <3> QED BY <3>2, <3>3 DEF Unfinished
  <2> QED
    BY <2>1, <2>2, <2>3
    DEF Next, Producers, Reserve, JobThread, RunEnds, Edit, Feed, FeedAndWait, Retry, NewJob, ForceTake,
        Cancel, Poll, WaiterLeaves, ConsumerSleeps, ReservePeek, ReservePop, ReservePopEmpty, Admit,
        LeaveRunning, FileRun, ClaimInline, ReleaseInline, RemovePending, MoveTake, MoveInsert,
        EmptyPending, EmptyHistory, StopBegins, StopTakesPending, StopMissesPending, StopCancels,
        StopFindsNothing, StopRefused, jobVars, vars
<1>2. Spec => [][Forward]_vars
  BY <1>1, InStepAlways, PTL DEF Spec
<1> QED BY <1>2 DEF RunsOnce

-----------------------------------------------------------------------------
(* Room on the running queue.                                                 *)

UnforcedTranslations == {r \in Unforced : work[run[r].job] \in TranslationWork}
(* What the consumer looked at still fits when it is admitted: nothing enters  *)
(* the running queue while the lock is held.                                  *)
Room ==
  /\ Cardinality(Unforced) <= Concurrent /\ Cardinality(UnforcedTranslations) <= LaneLimit
  /\ section.stage \in {"peeked", "popped"} =>
       /\ Cardinality(Unforced) < Concurrent
       /\ work[section.job] \in TranslationWork => Cardinality(UnforcedTranslations) < LaneLimit

LEMMA Counts ==
  ASSUME NEW S, NEW T \in SUBSET S, IsFiniteSet(S)
  PROVE  /\ IsFiniteSet(T) /\ Cardinality(T) \in Nat /\ Cardinality(S) \in Nat
         /\ Cardinality(T) <= Cardinality(S)
BY FS_Subset, FS_CardinalityType

LEMMA CountUnforced ==
  /\ IsFiniteSet(OnRunning) /\ Unforced \in SUBSET OnRunning
  /\ UnforcedTranslations \in SUBSET Unforced /\ IsFiniteSet(Unforced) /\ IsFiniteSet(UnforcedTranslations)
  /\ Cardinality(Unforced) \in Nat /\ Cardinality(UnforcedTranslations) \in Nat
<1>1. OnRunning \in SUBSET Runs /\ Unforced \in SUBSET OnRunning /\ UnforcedTranslations \in SUBSET Unforced
  BY DEF OnRunning, Unforced, UnforcedTranslations
<1> QED BY <1>1, Counts, JobsAssumption

LEMMA RoomShrinks ==
  ASSUME Ownership, Room,
         \A r \in Unforced' : r \in Unforced /\ work'[run'[r].job] = work[run[r].job],
         section'.stage \in {"peeked", "popped"} =>
           /\ section.stage \in {"peeked", "popped"} /\ section'.job = section.job /\ work' = work
  PROVE  Room'
<1>1. Unforced' \in SUBSET Unforced /\ UnforcedTranslations' \in SUBSET UnforcedTranslations
  BY DEF UnforcedTranslations
<1>2. /\ Cardinality(Unforced') <= Cardinality(Unforced)
      /\ Cardinality(UnforcedTranslations') <= Cardinality(UnforcedTranslations)
      /\ Cardinality(Unforced') \in Nat /\ Cardinality(UnforcedTranslations') \in Nat
      /\ Cardinality(Unforced) \in Nat /\ Cardinality(UnforcedTranslations) \in Nat
  BY <1>1, CountUnforced, Counts
<1>3. Concurrent \in Nat /\ LaneLimit \in Nat
  BY JobsAssumption
<1> QED BY <1>2, <1>3 DEF Room

LEMMA RoomStep == Ownership /\ Room /\ [Next]_vars => Room'
<1> SUFFICES ASSUME Ownership, Room, [Next]_vars PROVE Room'
  OBVIOUS
<1>0. /\ TypeOK /\ TypeOK' /\ Ownership' /\ Concurrent \in Nat /\ LaneLimit \in Nat
      /\ run \in [Runs -> RunType]
  BY TypingInductive, OwnershipStep, JobsAssumption DEF Ownership, TypeOK
<1>1. ASSUME NEW w, NewJob(w) PROVE Room'
  <2>1. lastId + 1 \in JobIds /\ lastId \in Nat
    BY <1>0, <1>1, JobsAssumption DEF NewJob, TypeOK, JobIds
  <2>2. \A r \in OnRunning : run[r].job # lastId + 1 /\ run[r].job \in JobIds
    BY <1>0, <2>1, Sets DEF Ownership, IdsIssued, RunningIds
  <2>3. \A r \in OnRunning : work'[run[r].job] = work[run[r].job]
    BY <1>0, <1>1, <2>1, <2>2 DEF NewJob, TypeOK
  <2>4. Unforced' = Unforced /\ run' = run /\ section' = section /\ section.stage = "free"
    BY <1>1 DEF NewJob, Unforced, OnRunning, LockFree
  <2> QED BY <2>3, <2>4, RoomShrinks DEF Unforced
<1>2. CASE ReservePeek
  <2>1. /\ Unforced' = Unforced /\ UnforcedTranslations' = UnforcedTranslations
        /\ section'.job = Head(pending) /\ work' = work /\ HasCapacityFor(Head(pending))
    BY <1>2 DEF ReservePeek, Unforced, UnforcedTranslations, OnRunning, jobVars
  <2> DEFINE Translating == {r \in OnRunning : work[run[r].job] \in TranslationWork}
  <2>2. Cardinality(OnRunning) < Concurrent
    BY <2>1 DEF HasCapacityFor
  <2>3. work[Head(pending)] \in TranslationWork => Cardinality(Translating) < LaneLimit
    BY <2>1 DEF HasCapacityFor
  <2>4. Cardinality(Unforced) <= Cardinality(OnRunning) /\ Cardinality(OnRunning) \in Nat
    BY CountUnforced, Counts
  <2>5. Cardinality(UnforcedTranslations) <= Cardinality(Translating) /\ Cardinality(Translating) \in Nat
    <3>1. UnforcedTranslations \in SUBSET Translating /\ Translating \in SUBSET OnRunning
      BY CountUnforced DEF UnforcedTranslations
    <3>2. IsFiniteSet(Translating)
      BY <3>1, CountUnforced, Counts
    <3> QED BY <3>1, <3>2, Counts
  <2> HIDE DEF Translating
  <2>6. Cardinality(Unforced) \in Nat /\ Cardinality(UnforcedTranslations) \in Nat
    BY CountUnforced
  <2>7. Cardinality(Unforced) < Concurrent
    BY <1>0, <2>2, <2>4, <2>6
  <2>8. work[Head(pending)] \in TranslationWork => Cardinality(UnforcedTranslations) < LaneLimit
    BY <1>0, <2>3, <2>5, <2>6
  <2> QED BY <2>1, <2>7, <2>8 DEF Room
<1>3. ASSUME NEW r \in Runs, Admit(r) PROVE Room'
  <2>1. /\ section'.stage = "free" /\ work' = work /\ section.stage \in {"popped", "forced"}
        /\ run'[r].job = section.job /\ run'[r].phase = "reserved"
        /\ run'[r].forced = (section.stage = "forced") /\ run[r].phase = "idle"
        /\ \A s \in Runs : s # r => run'[s] = run[s]
    BY <1>0, <1>3 DEF Admit, IdleRun, FreeLock, jobVars
  <2>2. r \notin Unforced /\ r \notin UnforcedTranslations
    BY <2>1 DEF Unforced, UnforcedTranslations, OnRunning
  <2>3. CASE section.stage = "forced"
    <3>1. \A s \in Unforced' : s # r
      BY <2>1, <2>3 DEF Unforced
    <3>2. \A s \in Unforced' : s \in Unforced /\ work'[run'[s].job] = work[run[s].job]
      BY <2>1, <3>1 DEF Unforced, OnRunning
    <3> QED BY <2>1, <3>2, RoomShrinks
  <2>4. CASE section.stage = "popped"
    <3>1. Unforced' = Unforced \cup {r}
      BY <2>1, <2>4 DEF Unforced, OnRunning
    <3>2. UnforcedTranslations' = IF work[section.job] \in TranslationWork
                                  THEN UnforcedTranslations \cup {r} ELSE UnforcedTranslations
      BY <2>1, <2>2, <3>1 DEF UnforcedTranslations, Unforced, OnRunning
    <3>3. /\ Cardinality(Unforced \cup {r}) = Cardinality(Unforced) + 1
          /\ Cardinality(UnforcedTranslations \cup {r}) = Cardinality(UnforcedTranslations) + 1
      BY <2>2, CountUnforced, FS_AddElement
    <3>4. /\ Cardinality(Unforced) < Concurrent
          /\ work[section.job] \in TranslationWork => Cardinality(UnforcedTranslations) < LaneLimit
          /\ Cardinality(UnforcedTranslations) <= LaneLimit
      BY <2>4 DEF Room
    <3>5. Cardinality(Unforced) \in Nat /\ Cardinality(UnforcedTranslations) \in Nat
      BY CountUnforced
    <3>6. Cardinality(Unforced') <= Concurrent
      BY <1>0, <3>1, <3>3, <3>4, <3>5
    <3>7. Cardinality(UnforcedTranslations') <= LaneLimit
      BY <1>0, <3>2, <3>3, <3>4, <3>5
    <3> QED BY <2>1, <3>6, <3>7 DEF Room
  <2> QED BY <2>1, <2>3, <2>4
<1>4. ASSUME work' = work,
             \A r \in OnRunning' : r \in OnRunning /\ run'[r].job = run[r].job /\ run'[r].forced = run[r].forced,
             section'.stage \in {"peeked", "popped"} =>
               section.stage \in {"peeked", "popped"} /\ section'.job = section.job
      PROVE  Room'
  <2>1. \A r \in Unforced' : r \in Unforced /\ work'[run'[r].job] = work[run[r].job]
    BY <1>4 DEF Unforced
  <2> QED BY <1>4, <2>1, RoomShrinks
<1>5. CASE ReservePop \/ ReservePopEmpty \/ \E j \in JobIds : ForceTake(j)
  <2>1. work' = work /\ run' = run
    BY <1>5 DEF ReservePop, ReservePopEmpty, ForceTake, jobVars
  <2>2. section'.stage \in {"peeked", "popped"} =>
          section.stage \in {"peeked", "popped"} /\ section'.job = section.job
    <3>1. CASE ReservePop
      BY <1>0, <3>1 DEF ReservePop, TypeOK, SectionType
    <3>2. CASE ReservePopEmpty
      BY <3>2 DEF ReservePopEmpty, FreeLock
    <3>3. ASSUME NEW j \in JobIds, ForceTake(j) PROVE section'.stage = "forced"
      BY <3>3 DEF ForceTake
    <3> QED BY <1>5, <3>1, <3>2, <3>3
  <2> QED BY <1>4, <2>1, <2>2 DEF OnRunning
<1>6. ASSUME NEW r \in Runs, \/ StartRun(r) \/ RunEnds(r) \/ LeaveRunning(r) \/ FileRun(r)
                             \/ ReleaseInline(r) \/ \E w \in Work : ClaimInline(r, w)
      PROVE  Room'
  <2>1. /\ \A s \in Runs : s # r => run'[s] = run[s]
        /\ run'[r].phase \in {"reserved", "started", "finished"} =>
             /\ run[r].phase \in {"reserved", "started", "finished"}
             /\ run'[r].job = run[r].job /\ run'[r].forced = run[r].forced
    <3>1. CASE StartRun(r)
      BY <1>0, <3>1 DEF StartRun, RunType
    <3>2. CASE RunEnds(r)
      BY <1>0, <3>2 DEF RunEnds, FinishRun, RunType
    <3>3. CASE LeaveRunning(r)
      BY <1>0, <3>3 DEF LeaveRunning, RunType
    <3>4. CASE FileRun(r)
      BY <1>0, <3>4 DEF FileRun, IdleRun
    <3>5. CASE ReleaseInline(r) \/ \E w \in Work : ClaimInline(r, w)
      <4>1. \E w \in Work \cup {NoWork} : run' = [run EXCEPT ![r].inline = w]
        BY <3>5 DEF ReleaseInline, ClaimInline
      <4> QED BY <1>0, <4>1 DEF RunType
    <3> QED BY <1>6, <3>1, <3>2, <3>3, <3>4, <3>5
  <2>2. work' = work /\ section' = section
    BY <1>6 DEF StartRun, RunEnds, FinishRun, LeaveRunning, FileRun, ReleaseInline, ClaimInline, jobVars
  <2>3. \A s \in OnRunning' : s \in OnRunning /\ run'[s].job = run[s].job /\ run'[s].forced = run[s].forced
    BY <2>1 DEF OnRunning
  <2> QED BY <1>4, <2>2, <2>3
<1>7. CASE work' = work /\ run' = run /\ section' = section
  BY <1>4, <1>7 DEF OnRunning
<1>8. CASE \/ \E w \in Work : Feed(w) \/ \E t \in Waiters : FeedAndWait(t, w)
           \/ \E j \in JobIds : Retry(j)
  BY <1>1, <1>8 DEF Feed, FeedAndWait, Retry
<1>9. CASE \/ \E j \in JobIds : Cancel(j)
           \/ \E t \in Waiters : Poll(t) \/ WaiterLeaves(t)
           \/ \E e \in Editors : Edit(e)
           \/ ConsumerSleeps \/ UNCHANGED vars
  BY <1>7, <1>9
     DEF Cancel, Poll, WaiterLeaves, Edit, RemovePending, MoveTake, MoveInsert, EmptyPending, EmptyHistory,
         StopBegins, StopTakesPending, StopMissesPending, StopCancels, StopFindsNothing, StopRefused,
         ConsumerSleeps, vars, jobVars
<1> QED BY <1>2, <1>3, <1>5, <1>6, <1>8, <1>9 DEF Next, Producers, Reserve, JobThread

(* The jobs the consumer started never exceed concurrent_jobs, nor the         *)
(* translations among them the lane, for any limits and any number of threads, *)
(* edits and forced starts (_reserve_next_job, _has_capacity_for).            *)
THEOREM CapacityKept == Spec => []CapacityRespected
<1>1. Ownership /\ Room => CapacityRespected
  BY DEF Room, CapacityRespected, UnforcedTranslations
<1>2. Init => Room
  <2> SUFFICES ASSUME Init PROVE Room
    OBVIOUS
  <2>1. Unforced = {} /\ UnforcedTranslations = {} /\ section.stage = "free"
    BY DEF Init, Unforced, UnforcedTranslations, OnRunning, IdleRun, FreeLock
  <2> QED BY <2>1, FS_EmptySet, JobsAssumption DEF Room
<1> QED BY <1>1, <1>2, OwnershipInit, OwnershipStep, RoomStep, PTL DEF Spec

-----------------------------------------------------------------------------
(* Without the unlocked requests (Editors = {}) the critical sections suffice:  *)
(* what the consumer looked at is what it pops, and no claim is dropped by      *)
(* another batch.                                                               *)
PeekedIsHead ==
  section.stage = "peeked" => pending # <<>> /\ Head(pending) = section.job
KnownWork ==
  /\ \A j \in 1..lastId : work[j] \in Work
  /\ \A r \in Runs : run[r].phase # "idle" => run[r].job \in 1..lastId
  /\ \A i \in DOMAIN failed : failed[i] \in 1..lastId
Locked == disturbed = {} /\ consumer = TRUE /\ PeekedIsHead /\ KnownWork

(* Filing drops old entries and adds the one filed.                            *)
LEMMA FiledElements ==
  ASSUME NEW s \in Seq(JobIds), NEW j \in JobIds, NEW i \in DOMAIN Filed(s, j)
  PROVE  Filed(s, j)[i] = j \/ \E k \in DOMAIN s : Filed(s, j)[i] = s[k]
<1> DEFINE a == Append(s, j)
<1>1. /\ a \in Seq(JobIds) /\ Len(s) \in Nat /\ Len(a) = Len(s) + 1 /\ DOMAIN a = 1..Len(s) + 1
      /\ DOMAIN s = 1..Len(s)
      /\ \A k \in 1..Len(s) : a[k] = s[k]
      /\ a[Len(s) + 1] = j
  OBVIOUS
<1>2. \A k \in DOMAIN a : a[k] = j \/ \E m \in DOMAIN s : a[k] = s[m]
  BY <1>1
<1> HIDE DEF a
<1>3. Filed(s, j) = a \/ Filed(s, j) = Tail(a)
  BY DEF Filed, a
<1>4. CASE Filed(s, j) = a
  BY <1>2, <1>4
<1>5. CASE Filed(s, j) = Tail(a)
  <2>1. i + 1 \in DOMAIN a /\ Filed(s, j)[i] = a[i + 1]
    BY <1>1, <1>5
  <2> QED BY <1>2, <2>1
<1> QED BY <1>3, <1>4, <1>5

(* A step that issues no id keeps what is known of the issued ones if a thread  *)
(* has the job it had, or the one held under the lock.                          *)
LEMMA KnownKept ==
  ASSUME Ownership, KnownWork, UNCHANGED <<lastId, work>>,
         \A r \in Runs : run'[r].phase # "idle" =>
           \/ run[r].phase # "idle" /\ run'[r].job = run[r].job
           \/ section.stage # "free" /\ run'[r].job = section.job,
         \A i \in DOMAIN failed' : failed'[i] \in 1..lastId
  PROVE  KnownWork'
<1>1. \A r \in Runs : run'[r].phase # "idle" => run'[r].job \in 1..lastId
  BY DEF KnownWork, Ownership, IdsIssued
<1> QED BY <1>1 DEF KnownWork

LEMMA KnownNewJob ==
  ASSUME Ownership, KnownWork, NEW w \in Work, NewJob(w)
  PROVE  KnownWork'
<1>1. /\ lastId \in Nat /\ lastId + 1 \in JobIds /\ lastId' = lastId + 1 /\ run' = run /\ failed' = failed
      /\ 1..lastId \subseteq JobIds
  BY JobsAssumption DEF NewJob, Ownership, TypeOK, JobIds, historyVars
<1>2. \A j \in 1..lastId' : work'[j] = IF j = lastId + 1 THEN w ELSE work[j]
  BY <1>1 DEF NewJob, Ownership, TypeOK, JobIds
<1>3. \A j \in 1..lastId' : work'[j] \in Work
  BY <1>1, <1>2 DEF KnownWork
<1>4. 1..lastId \subseteq 1..lastId'
  BY <1>1
<1> QED BY <1>1, <1>3, <1>4 DEF KnownWork

LEMMA LockedStep ==
  ASSUME Editors = {}, Ownership, Locked, [Next]_vars
  PROVE  Locked'
<1>0. TypeOK /\ KnownWork /\ PeekedIsHead /\ disturbed = {} /\ consumer = TRUE
  BY DEF Ownership, Locked
<1>1. ASSUME NEW w \in Work, NewJob(w) PROVE Locked'
  <2>1. KnownWork'
    BY <1>0, <1>1, KnownNewJob
  <2>2. section' = section /\ section.stage = "free" /\ UNCHANGED <<disturbed, consumer>>
    BY <1>1 DEF NewJob, LockFree
  <2> QED BY <1>0, <2>1, <2>2 DEF Locked, PeekedIsHead
<1>2. ASSUME NEW j \in JobIds, Retry(j) PROVE Locked'
  <2>1. work[j] \in Work
    BY <1>0, <1>2 DEF Retry, KnownWork
  <2> QED BY <1>1, <1>2, <2>1 DEF Retry
<1>3. ASSUME UNCHANGED <<lastId, work, failed, disturbed, consumer>>,
             \A r \in Runs : run'[r].phase # "idle" =>
               \/ run[r].phase # "idle" /\ run'[r].job = run[r].job
               \/ section.stage # "free" /\ run'[r].job = section.job,
             section'.stage = "peeked" =>
               pending' = pending /\ pending # <<>> /\ section'.job = Head(pending)
      PROVE  Locked'
  <2>1. KnownWork'
    BY <1>0, <1>3, KnownKept DEF KnownWork
  <2>2. PeekedIsHead'
    BY <1>3 DEF PeekedIsHead
  <2> QED BY <1>0, <1>3, <2>1, <2>2 DEF Locked
<1>4. ASSUME UNCHANGED <<lastId, work, failed, disturbed, consumer, run, section, pending>>
      PROVE  Locked'
  BY <1>0, <1>3, <1>4 DEF PeekedIsHead
<1>5. ASSUME NEW j \in JobIds, ForceTake(j) PROVE Locked'
  BY <1>3, <1>5 DEF ForceTake, jobVars, historyVars
<1>6. CASE ReservePeek
  BY <1>3, <1>6 DEF ReservePeek, jobVars, historyVars
<1>7. CASE ReservePop
  <2>1. Head(pending) = section.job
    BY <1>0, <1>7 DEF ReservePop, PeekedIsHead
  <2>2. section'.stage = "popped"
    BY <1>0, <1>7 DEF ReservePop, TypeOK, SectionType
  <2> QED BY <1>3, <1>7, <2>1, <2>2 DEF ReservePop, jobVars, historyVars
<1>8. CASE ReservePopEmpty
  BY <1>0, <1>8 DEF ReservePopEmpty, PeekedIsHead
<1>9. ASSUME NEW r \in Runs, Admit(r) PROVE Locked'
  <2>1. \A s \in Runs : run'[s].phase # "idle" =>
          \/ run[s].phase # "idle" /\ run'[s].job = run[s].job
          \/ section.stage # "free" /\ run'[s].job = section.job
    BY <1>0, <1>9 DEF Admit, IdleRun, TypeOK
  <2>2. section'.stage = "free"
    BY <1>9 DEF Admit, FreeLock
  <2> QED BY <1>3, <1>9, <2>1, <2>2 DEF Admit, jobVars, historyVars
<1>10. ASSUME NEW r \in Runs, \/ StartRun(r) \/ RunEnds(r) \/ LeaveRunning(r)
                              \/ \E w \in Work : ClaimInline(r, w)
       PROVE  Locked'
  <2>1. /\ \A s \in Runs : run'[s].job = run[s].job
        /\ \A s \in Runs : s # r => run'[s] = run[s]
        /\ run[r].phase # "idle"
    <3>1. CASE StartRun(r)
      BY <1>0, <3>1 DEF StartRun, TypeOK, RunType
    <3>2. CASE RunEnds(r)
      BY <1>0, <3>2 DEF RunEnds, FinishRun, TypeOK, RunType
    <3>3. CASE LeaveRunning(r)
      BY <1>0, <3>3 DEF LeaveRunning, TypeOK, RunType
    <3>4. CASE \E w \in Work : ClaimInline(r, w)
      <4>1. run[r].phase = "started" /\ \E w \in Work : run' = [run EXCEPT ![r].inline = w]
        BY <3>4 DEF ClaimInline
      <4> QED BY <1>0, <4>1 DEF TypeOK, RunType
    <3> QED BY <1>10, <3>1, <3>2, <3>3, <3>4
  <2>2. UNCHANGED <<lastId, work, failed, disturbed, consumer, section, pending>>
    BY <1>10 DEF StartRun, RunEnds, FinishRun, LeaveRunning, ClaimInline, jobVars, historyVars
  <2> QED BY <1>0, <1>3, <2>1, <2>2 DEF PeekedIsHead
<1>11. ASSUME NEW r \in Runs, FileRun(r) PROVE Locked'
  <2>1. \A s \in Runs : run'[s].phase # "idle" => run[s].phase # "idle" /\ run'[s].job = run[s].job
    BY <1>0, <1>11 DEF FileRun, IdleRun, TypeOK
  <2>2. run[r].job \in 1..lastId /\ run[r].job \in JobIds /\ failed \in Seq(JobIds)
    BY <1>0, <1>11 DEF FileRun, KnownWork, TypeOK
  <2>3. \A i \in DOMAIN failed' : failed'[i] \in 1..lastId
    <3>1. CASE failed' = failed
      BY <1>0, <3>1 DEF KnownWork
    <3>2. CASE failed' = Filed(failed, run[r].job)
      BY <1>0, <2>2, <3>2, FiledElements DEF KnownWork
    <3> QED BY <1>11, <3>1, <3>2 DEF FileRun
  <2>4. UNCHANGED <<lastId, work, disturbed, consumer, section, pending>>
    BY <1>11 DEF FileRun, jobVars
  <2>5. KnownWork'
    BY <1>0, <2>1, <2>3, <2>4, KnownKept
  <2> QED BY <1>0, <2>4, <2>5 DEF Locked, PeekedIsHead
<1>12. ASSUME NEW r \in Runs, ReleaseInline(r) PROVE Locked'
  <2>1. \A s \in Runs : run'[s].job = run[s].job /\ run'[s].phase = run[s].phase
    BY <1>0, <1>12 DEF ReleaseInline, TypeOK, RunType
  <2>2. [work |-> run[r].inline, owner |-> run[r].job] \in claims
    BY <1>0, <1>12 DEF ReleaseInline, Ownership, InlineIsClaimed
  <2>3. \A c \in claims : c.work = run[r].inline => c.owner = run[r].job
    BY <2>2 DEF Ownership, ClaimsExclusive
  <2>4. disturbed' = disturbed
    BY <1>12, <2>3 DEF ReleaseInline
  <2>5. UNCHANGED <<lastId, work, failed, consumer, section, pending>>
    BY <1>12 DEF ReleaseInline, jobVars, historyVars
  <2> QED BY <1>0, <1>3, <2>1, <2>4, <2>5 DEF PeekedIsHead
<1>13. CASE \/ \E j \in JobIds : Cancel(j)
            \/ \E t \in Waiters : Poll(t) \/ WaiterLeaves(t)
            \/ ConsumerSleeps \/ UNCHANGED vars
  BY <1>4, <1>13 DEF Cancel, Poll, WaiterLeaves, ConsumerSleeps, jobVars, historyVars, vars
<1>14. CASE \/ \E w \in Work : Feed(w) \/ \E t \in Waiters : FeedAndWait(t, w)
  BY <1>1, <1>14 DEF Feed, FeedAndWait
<1> QED
  BY <1>2, <1>5, <1>6, <1>7, <1>8, <1>9, <1>10, <1>11, <1>12, <1>13, <1>14
  DEF Next, Producers, Reserve, JobThread

LEMMA LockedAlways ==
  ASSUME Editors = {}
  PROVE  Spec => [](Ownership /\ Locked)
<1>1. Init => Ownership /\ Locked
  <2>1. Init => Locked
    <3> SUFFICES ASSUME Init PROVE Locked
      OBVIOUS
    <3>1. 1..lastId = {} /\ DOMAIN failed = {}
      BY DEF Init
    <3>2. section.stage = "free" /\ \A r \in Runs : run[r].phase = "idle"
      BY DEF Init, FreeLock, IdleRun
    <3> QED BY <3>1, <3>2 DEF Init, Locked, PeekedIsHead, KnownWork
  <2> QED BY <2>1, OwnershipInit
<1>2. Ownership /\ Locked /\ [Next]_vars => (Ownership /\ Locked)'
  BY OwnershipStep, LockedStep
<1> QED BY <1>1, <1>2, PTL DEF Spec

(* Where nobody edits the queue without the lock, no job is ever mistaken for    *)
(* another and the consumer never ends: popleft finds the head it looked at      *)
(* (_reserve_next_job, release_inline_job).                                      *)
THEOREM LockSuffices ==
  ASSUME Editors = {}
  PROVE  Spec => [](disturbed = {} /\ ConsumerSurvives)
<1>1. Locked => disturbed = {} /\ ConsumerSurvives
  BY DEF Locked, ConsumerSurvives
<1> QED BY <1>1, LockedAlways, PTL

-----------------------------------------------------------------------------
(* The jobs manager implements the life of a job a caller is promised.           *)
Busying == HeldIds \cup RunningIds
Life == [j \in JobIds |-> Stage(j)]

LEMMA LifeStutters ==
  ASSUME UNCHANGED <<lastId, work>>, Queued' = Queued, Busying' = Busying
  PROVE  UNCHANGED Lifecycle!vars
<1>1. \A j \in JobIds : Stage(j)' = Stage(j)
  BY DEF Stage, Busying
<1>2. Life' = Life
  BY <1>1 DEF Life
<1> QED BY <1>2 DEF Lifecycle!vars, Life

LEMMA LifeInit == Init => Lifecycle!Init
<1> SUFFICES ASSUME Init PROVE Lifecycle!Init
  OBVIOUS
<1>1. \A j \in JobIds : Stage(j) = "unknown"
  BY DEF Init, Stage, JobIds
<1> QED BY <1>1 DEF Init, Lifecycle!Init

LEMMA LifeSubmits ==
  ASSUME Ownership, NEW w \in Work, NewJob(w)
  PROVE  Lifecycle!Next
<1> DEFINE n == lastId + 1
<1>1. /\ n \in JobIds /\ lastId \in Nat /\ lastId' = n /\ HeldIds = {} /\ HeldIds' = {}
      /\ RunningIds' = RunningIds /\ n \notin Queued \cup RunningIds
  <2>1. n \in JobIds /\ lastId \in Nat /\ lastId' = n
    BY JobsAssumption DEF NewJob, Ownership, TypeOK, JobIds
  <2>2. HeldIds = {} /\ HeldIds' = {} /\ RunningIds' = RunningIds
    BY DEF NewJob, LockFree, HeldIds, RunningIds, OnRunning
  <2>3. \A j \in Queued \cup RunningIds : j <= lastId
    BY DEF Ownership, IdsIssued
  <2> QED BY <2>1, <2>2, <2>3
<1>2. Queued' = Queued \cup {n}
  BY <1>1, QueuedInsert DEF NewJob, Ownership
<1>3. Stage(n) = "unknown"
  BY <1>1 DEF Stage
<1>4. \A j \in JobIds : Stage(j)' = IF j = n THEN "queued" ELSE Stage(j)
  BY <1>1, <1>2 DEF Stage, JobIds
<1>5. \A j \in JobIds : Stage(j) \in {"queued", "active"} => work[j] # w
  BY <1>1 DEF Stage, NewJob, Existing
<1>6. Life' = [Life EXCEPT ![n] = "queued"]
  BY <1>1, <1>4 DEF Life
<1>7. Lifecycle!Submit(n, w)
  <2>1. ~Lifecycle!Busy(w)
    BY <1>5 DEF Lifecycle!Busy
  <2> QED BY <1>1, <1>3, <1>6, <2>1 DEF Lifecycle!Submit, Life, NewJob
<1> QED BY <1>1, <1>7 DEF Lifecycle!Next

(* A job leaves pending for the hands of whoever holds the lock.                *)
LEMMA LifeStarts ==
  ASSUME Ownership, disturbed = {}, NEW j \in Queued, UNCHANGED <<lastId, work, run>>,
         HeldIds = {}, HeldIds' = {j}, Queued' \subseteq Queued, Queued \subseteq Queued' \cup {j}
  PROVE  Lifecycle!Next
<1>1. j \in JobIds /\ j \in 1..lastId /\ lastId \in Nat
  BY Sets DEF Ownership, IdsIssued, TypeOK
<1>2. RunningIds' = RunningIds /\ j \notin RunningIds
  BY <1>1 DEF Ownership, OnePlace, RunningIds, OnRunning
<1>3. Stage(j) = "queued"
  BY <1>1, <1>2 DEF Stage
<1>4. \A k \in JobIds : Stage(k)' = IF k = j THEN "active" ELSE Stage(k)
  BY <1>1, <1>2 DEF Stage
<1>5. Life' = [Life EXCEPT ![j] = "active"]
  BY <1>1, <1>4 DEF Life
<1>6. Lifecycle!Start(j)
  BY <1>1, <1>3, <1>5 DEF Lifecycle!Start, Lifecycle!Advance, Life
<1> QED BY <1>1, <1>6 DEF Lifecycle!Next

LEMMA LifeEnds ==
  ASSUME Ownership, disturbed = {}, NEW r \in Runs, LeaveRunning(r)
  PROVE  Lifecycle!Next
<1> DEFINE j == run[r].job
<1>1. /\ r \in OnRunning /\ j \in RunningIds /\ j \in JobIds /\ j \in 1..lastId /\ lastId \in Nat
      /\ HeldIds = {} /\ HeldIds' = {} /\ Queued' = Queued /\ UNCHANGED <<lastId, work>>
  BY Sets
  DEF LeaveRunning, OnRunning, RunningIds, Ownership, IdsIssued, TypeOK, LockFree, HeldIds, Queued, jobVars
<1>2. j \notin Queued /\ \A s \in OnRunning : run[s].job = j => s = r
  BY <1>1 DEF Ownership, OnePlace
<1>3. /\ \A s \in Runs : s # r => run'[s] = run[s]
      /\ run'[r].phase = "left"
  BY DEF LeaveRunning, Ownership, TypeOK, RunType
<1>4. OnRunning' = OnRunning \ {r}
  BY <1>3 DEF OnRunning
<1>5. RunningIds' = RunningIds \ {j}
  <2>1. \A s \in OnRunning' : run'[s].job = run[s].job /\ run[s].job # j
    BY <1>2, <1>3, <1>4 DEF OnRunning
  <2>2. \A s \in OnRunning : s # r => s \in OnRunning' /\ run'[s].job = run[s].job
    BY <1>3, <1>4 DEF OnRunning
  <2> QED BY <1>4, <2>1, <2>2 DEF RunningIds
<1>6. Stage(j) = "active"
  BY <1>1 DEF Stage
<1>7. \A k \in JobIds : Stage(k)' = IF k = j THEN "over" ELSE Stage(k)
  BY <1>1, <1>2, <1>5 DEF Stage
<1>8. Life' = [Life EXCEPT ![j] = "over"]
  BY <1>1, <1>7 DEF Life
<1>9. Lifecycle!End(j)
  BY <1>1, <1>6, <1>8 DEF Lifecycle!End, Lifecycle!Advance, Life
<1> QED BY <1>1, <1>9 DEF Lifecycle!Next

LEMMA LifeStep ==
  ASSUME Editors = {}, Ownership, Locked, [Next]_vars
  PROVE  [Lifecycle!Next]_(Lifecycle!vars)
<1>0. TypeOK /\ TypeOK' /\ disturbed = {} /\ PeekedIsHead /\ KnownWork
  BY TypingInductive DEF Ownership, Locked
<1>1. ASSUME NEW w \in Work, NewJob(w) PROVE Lifecycle!Next
  BY <1>1, LifeSubmits
<1>2. ASSUME NEW j \in JobIds, Retry(j) PROVE Lifecycle!Next
  <2>1. work[j] \in Work
    BY <1>0, <1>2 DEF Retry, KnownWork
  <2> QED BY <1>1, <1>2, <2>1 DEF Retry
<1>3. CASE \/ \E w \in Work : Feed(w) \/ \E t \in Waiters : FeedAndWait(t, w)
  BY <1>1, <1>3 DEF Feed, FeedAndWait
<1>4. ASSUME NEW j \in JobIds, ForceTake(j) PROVE Lifecycle!Next
  <2>1. PICK i \in DOMAIN pending : pending[i] = j /\ pending' = RemoveAt(pending, i)
    BY <1>4 DEF ForceTake
  <2>2. Queued' \subseteq Queued /\ Queued \subseteq Queued' \cup {j} /\ j \in Queued
    BY <1>0, <2>1, QueuedRemove DEF Queued
  <2>3. HeldIds = {} /\ HeldIds' = {j} /\ UNCHANGED <<lastId, work, run>>
    BY <1>4 DEF ForceTake, LockFree, HeldIds, jobVars
  <2> QED BY <1>0, <2>2, <2>3, LifeStarts
<1>5. CASE ReservePop
  <2>1. Head(pending) = section.job /\ pending # <<>> /\ pending' = Tail(pending)
    BY <1>0, <1>5 DEF ReservePop, PeekedIsHead
  <2>2. /\ section.job \in Queued
        /\ Queued' \subseteq Queued /\ Queued \subseteq Queued' \cup {section.job}
    BY <1>0, <2>1, QueuedTail
  <2>3. section'.stage = "popped" /\ section'.job = section.job /\ section.stage = "peeked"
    BY <1>0, <1>5 DEF ReservePop, TypeOK, SectionType
  <2>4. HeldIds = {} /\ HeldIds' = {section.job} /\ UNCHANGED <<lastId, work, run>>
    BY <1>5, <2>3 DEF ReservePop, HeldIds, jobVars
  <2> QED BY <1>0, <2>2, <2>4, LifeStarts
<1>6. ASSUME UNCHANGED <<lastId, work, pending>>, HeldIds' = HeldIds,
             \A s \in Runs : /\ run'[s].job = run[s].job
                             /\ s \in OnRunning' <=> s \in OnRunning
      PROVE  UNCHANGED Lifecycle!vars
  <2>1. OnRunning' = OnRunning
    BY <1>6 DEF OnRunning
  <2>2. RunningIds' = RunningIds /\ Queued' = Queued
    BY <1>6, <2>1 DEF RunningIds, Queued, OnRunning
  <2> QED BY <1>6, <2>2, LifeStutters DEF Busying
<1>7. CASE ReservePeek \/ ReservePopEmpty
  <2>1. HeldIds' = HeldIds
    BY <1>7 DEF ReservePeek, ReservePopEmpty, LockFree, FreeLock, HeldIds
  <2> QED BY <1>6, <1>7, <2>1 DEF ReservePeek, ReservePopEmpty, jobVars, OnRunning
<1>8. ASSUME NEW r \in Runs, Admit(r) PROVE UNCHANGED Lifecycle!vars
  <2> DEFINE x == section.job
  <2>1. /\ Queued' = Queued /\ HeldIds = {x} /\ HeldIds' = {} /\ UNCHANGED <<lastId, work>>
    BY <1>8 DEF Admit, FreeLock, Queued, HeldIds, jobVars
  <2>2. /\ run'[r].job = x /\ run'[r].phase = "reserved"
        /\ \A s \in Runs : s # r => run'[s] = run[s]
    BY <1>0, <1>8 DEF Admit, IdleRun, TypeOK
  <2>3. OnRunning' = OnRunning \cup {r} /\ r \notin OnRunning
    BY <1>8, <2>2 DEF Admit, OnRunning
  <2>4. RunningIds' = RunningIds \cup {x}
    <3>1. \A q \in OnRunning : run'[q].job = run[q].job
      BY <2>2, <2>3 DEF OnRunning
    <3> QED BY <3>1, <2>2, <2>3 DEF RunningIds
  <2> QED BY <2>1, <2>4, LifeStutters DEF Busying
<1>9. ASSUME NEW r \in Runs, LeaveRunning(r) PROVE Lifecycle!Next
  BY <1>0, <1>9, LifeEnds
<1>10. ASSUME NEW r \in Runs, \/ StartRun(r) \/ RunEnds(r) \/ ReleaseInline(r)
                              \/ \E w \in Work : ClaimInline(r, w)
       PROVE  UNCHANGED Lifecycle!vars
  <2>1. /\ \A s \in Runs : run'[s].job = run[s].job
        /\ \A s \in Runs : s # r => run'[s] = run[s]
        /\ r \in OnRunning' <=> r \in OnRunning
    <3>1. CASE StartRun(r)
      BY <1>0, <3>1 DEF StartRun, TypeOK, RunType, OnRunning
    <3>2. CASE RunEnds(r)
      BY <1>0, <3>2 DEF RunEnds, FinishRun, TypeOK, RunType, OnRunning
    <3>3. CASE ReleaseInline(r) \/ \E w \in Work : ClaimInline(r, w)
      <4>1. \E w \in Work \cup {NoWork} : run' = [run EXCEPT ![r].inline = w]
        BY <3>3 DEF ReleaseInline, ClaimInline
      <4> QED BY <1>0, <4>1 DEF TypeOK, RunType, OnRunning
    <3> QED BY <1>10, <3>1, <3>2, <3>3
  <2>2. \A s \in Runs : s \in OnRunning' <=> s \in OnRunning
    BY <2>1 DEF OnRunning
  <2>3. UNCHANGED <<lastId, work, pending, section>>
    BY <1>10 DEF StartRun, RunEnds, FinishRun, ReleaseInline, ClaimInline, jobVars
  <2> QED BY <1>6, <2>1, <2>2, <2>3 DEF HeldIds
<1>11. ASSUME NEW r \in Runs, FileRun(r) PROVE UNCHANGED Lifecycle!vars
  <2>1. /\ \A s \in Runs : s # r => run'[s] = run[s]
        /\ run'[r].phase = "idle" /\ run[r].phase = "left"
    BY <1>0, <1>11 DEF FileRun, IdleRun, TypeOK
  <2>2. OnRunning' = OnRunning /\ \A s \in OnRunning : run'[s].job = run[s].job
    BY <2>1 DEF OnRunning
  <2>3. RunningIds' = RunningIds
    BY <2>2 DEF RunningIds
  <2>4. UNCHANGED <<lastId, work, pending, section>>
    BY <1>11 DEF FileRun, jobVars
  <2> QED BY <2>3, <2>4, LifeStutters DEF Busying, HeldIds, Queued
<1>12. CASE \/ \E j \in JobIds : Cancel(j)
            \/ \E t \in Waiters : Poll(t) \/ WaiterLeaves(t)
            \/ ConsumerSleeps \/ UNCHANGED vars
  <2>1. UNCHANGED <<lastId, work, pending, section, run>>
    BY <1>12 DEF Cancel, Poll, WaiterLeaves, ConsumerSleeps, jobVars, vars
  <2> QED BY <1>6, <2>1 DEF HeldIds, OnRunning
<1> QED
  BY <1>2, <1>3, <1>4, <1>5, <1>7, <1>8, <1>9, <1>10, <1>11, <1>12
  DEF Next, Producers, Reserve, JobThread

(* Without unlocked edits every step of the jobs manager is a step of a job's     *)
(* life or changes nothing of it: a job is submitted only while no unfinished     *)
(* job does its work, starts once and ends once.                                  *)
THEOREM JobsLiveOnce ==
  ASSUME Editors = {}
  PROVE  Spec => Lifecycle!Spec
<1>1. Ownership /\ Locked /\ [Next]_vars => [Lifecycle!Next]_(Lifecycle!vars)
  BY LifeStep
<1> QED BY <1>1, LockedAlways, LifeInit, PTL DEF Spec, Lifecycle!Spec
=============================================================================
