------------------------------ MODULE JobsQueue ------------------------------
(***************************************************************************)
(* The jobs manager of app/jobs_queue.py: one queue object shared by the   *)
(* consumer thread, the thread of every running job, the request and       *)
(* scheduler threads that feed it and the requests that edit it.           *)
(*                                                                         *)
(* Feeding, claiming, reserving and force-starting hold _queue_lock.       *)
(* Removing, moving, emptying, listing and cancelling do not, and neither  *)
(* does the step that files a finished job into its history.  A step of    *)
(* this module is one access to the shared deques, so that the operations  *)
(* without the lock may fall between two accesses made under it.           *)
(***************************************************************************)
EXTENDS Naturals, FiniteSets, Sequences, SequencesExt

CONSTANTS
  Work,           \* what a job does: its (module, func, args, kwargs minus job_id)
  TranslationWork,\* the work whose (module, func) is in TRANSLATION_JOBS
  BatchWork,      \* the mass operations, which may run other work inline
  NoWork,         \* no work
  Concurrent,     \* settings.general.concurrent_jobs
  LaneLimit,      \* settings.translator.openrouter_max_concurrent
  HistoryLimit,   \* maxlen of the failed and the completed deque
  MaxJobs,        \* bound on current_job_id
  Runs,           \* job threads, and the entries they hold on the running queue
  Editors,        \* requests that edit the queue without the lock
  Waiters         \* callers of add_job_from_function(wait_for_completion=True)

ASSUME JobsAssumption ==
  /\ TranslationWork \subseteq Work /\ BatchWork \subseteq Work /\ NoWork \notin Work
  /\ IsFiniteSet(Runs)
  /\ Concurrent \in Nat /\ LaneLimit \in Nat /\ HistoryLimit \in Nat /\ MaxJobs \in Nat

NoJob == 0
JobIds == 1..MaxJobs
Unfinished == {"pending", "running"}
Status == Unfinished \cup {"completed", "stopped", "failed"}
Outcome == {"completed", "failed"}
Phases == {"idle", "reserved", "started", "finished", "left"}

VARIABLES
  lastId,     \* current_job_id
  work,       \* work[j]: the work of job j
  status,     \* status[j]; "stopped" stands for completed with job.stopped set
  cancelled,  \* cancelled[j]: Stop was pressed
  retryable,  \* retryable[j]: as its failure left it
  pending,    \* jobs_pending_queue
  run,        \* run[r]: a job thread and its entry on jobs_running_queue
  failed,     \* jobs_failed_queue
  completed,  \* jobs_completed_queue
  claims,     \* _inline_claims
  section,    \* the critical section of _queue_lock that takes several steps
  consumer,   \* FALSE once the consumer thread has ended
  editor,     \* editor[e]: a request between two of its unlocked accesses
  waiter,     \* waiter[t]: the job a caller is waiting for
  disturbed   \* history: jobs an unlocked edit took off pending, a pop mistook
              \* for one another, or whose claim another job released

vars == <<lastId, work, status, cancelled, retryable, pending, run, failed, completed,
          claims, section, consumer, editor, waiter, disturbed>>
jobVars == <<lastId, work, status, cancelled, retryable>>
historyVars == <<failed, completed>>

IdleRun == [phase |-> "idle", job |-> NoJob, forced |-> FALSE, outcome |-> "completed",
            inline |-> NoWork]
FreeLock == [stage |-> "free", job |-> NoJob, taken |-> NoJob]
AtRest == [stage |-> "idle", job |-> NoJob]

RunType ==
  [phase : Phases, job : JobIds \cup {NoJob}, forced : BOOLEAN, outcome : Outcome,
   inline : Work \cup {NoWork}]
ClaimType == [work : Work, owner : JobIds]
SectionType ==
  [stage : {"free", "peeked", "popped", "forced"}, job : JobIds \cup {NoJob},
   taken : JobIds \cup {NoJob}]
EditorType ==
  [stage : {"idle", "moving", "stopping", "tryRunning", "refused"}, job : JobIds \cup {NoJob}]
WaiterType == [stage : {"idle", "waiting", "returned"}, job : JobIds \cup {NoJob}]

(* The type invariant: the shape of every part of the queue's state, and   *)
(* the maxlen of the two histories.                                        *)
TypeOK ==
  /\ lastId \in 0..MaxJobs
  /\ work \in [JobIds -> Work \cup {NoWork}]
  /\ status \in [JobIds -> Status]
  /\ cancelled \in [JobIds -> BOOLEAN] /\ retryable \in [JobIds -> BOOLEAN]
  /\ pending \in Seq(JobIds) /\ failed \in Seq(JobIds) /\ completed \in Seq(JobIds)
  /\ Len(failed) <= HistoryLimit /\ Len(completed) <= HistoryLimit
  /\ run \in [Runs -> RunType]
  /\ \A r \in Runs : run[r].phase # "idle" => run[r].job \in JobIds
  /\ claims \subseteq ClaimType
  /\ section \in SectionType
  /\ section.stage # "free" => section.job \in JobIds
  /\ consumer \in BOOLEAN
  /\ editor \in [Editors -> EditorType]
  /\ \A e \in Editors : editor[e].stage # "idle" => editor[e].job \in JobIds
  /\ waiter \in [Waiters -> WaiterType]
  /\ disturbed \subseteq JobIds

Init ==
  /\ lastId = 0
  /\ work = [j \in JobIds |-> NoWork]
  /\ status = [j \in JobIds |-> "pending"]
  /\ cancelled = [j \in JobIds |-> FALSE] /\ retryable = [j \in JobIds |-> FALSE]
  /\ pending = <<>> /\ failed = <<>> /\ completed = <<>>
  /\ run = [r \in Runs |-> IdleRun]
  /\ claims = {} /\ section = FreeLock /\ consumer = TRUE
  /\ editor = [e \in Editors |-> AtRest] /\ waiter = [t \in Waiters |-> AtRest]
  /\ disturbed = {}

-----------------------------------------------------------------------------
(* The views of the queue the code takes.                                  *)

LockFree == section.stage = "free"
OnRunning == {r \in Runs : run[r].phase \in {"reserved", "started", "finished"}}
RunningIds == {run[r].job : r \in OnRunning}
Queued == {pending[i] : i \in DOMAIN pending}
HeldIds == IF section.stage \in {"popped", "forced"} THEN {section.job} ELSE {}

(* Mutant: a job that has begun no longer counts as a duplicate.            *)
ExistingPendingOnly(w) == \E j \in Queued : work[j] = w
Existing(w) == \E j \in Queued \cup RunningIds : work[j] = w
Claimed(w) == \E c \in claims : c.work = w

(* Bound: as many job threads at once as there are Runs.                    *)
ThreadToSpare == \E r \in Runs : run[r].phase = "idle"

(* Mutant: a reserved job counts only once its own thread has begun.        *)
HasCapacityForStarted(j) ==
  Cardinality({r \in Runs : run[r].phase \in {"started", "finished"}}) < Concurrent

(* Mutant: the lane is full one translation too early.                      *)
HasCapacityForShortLane(j) ==
  /\ Cardinality(OnRunning) < Concurrent
  /\ work[j] \in TranslationWork =>
       Cardinality({r \in OnRunning : work[run[r].job] \in TranslationWork}) + 1 < LaneLimit

HasCapacityFor(j) ==
  /\ Cardinality(OnRunning) < Concurrent
  /\ work[j] \in TranslationWork =>
       Cardinality({r \in OnRunning : work[run[r].job] \in TranslationWork}) < LaneLimit

-----------------------------------------------------------------------------
(* Feeding: duplicate check, inline-claim check and append, under the lock. *)

NewJob(w) ==
  /\ LockFree /\ lastId < MaxJobs
  /\ ~Existing(w) /\ ~Claimed(w)
  /\ lastId' = lastId + 1
  /\ work' = [work EXCEPT ![lastId + 1] = w]
  /\ pending' = Append(pending, lastId + 1)
  /\ UNCHANGED <<status, cancelled, retryable, run, historyVars, claims, section, consumer,
                 editor, disturbed>>

Feed(w) == NewJob(w) /\ UNCHANGED waiter

(* add_job_from_function with wait_for_completion.                         *)
FeedAndWait(t, w) ==
  /\ waiter[t].stage = "idle"
  /\ NewJob(w)
  /\ waiter' = [waiter EXCEPT ![t] = [stage |-> "waiting", job |-> lastId + 1]]

(* Mutant: the failed job itself is put back on pending.                    *)
RetryInPlace(j) ==
  /\ LockFree /\ \E i \in DOMAIN failed : failed[i] = j
  /\ retryable[j] /\ ~Existing(work[j]) /\ ~Claimed(work[j])
  /\ pending' = Append(pending, j)
  /\ status' = [status EXCEPT ![j] = "pending"]
  /\ UNCHANGED <<lastId, work, cancelled, retryable, run, historyVars, claims, section,
                 consumer, editor, waiter, disturbed>>

(* retry_job reads the failed queue under the lock and feeds the job's work *)
(* again after releasing it; nothing it read can change in between.         *)
Retry(j) ==
  /\ \E i \in DOMAIN failed : failed[i] = j
  /\ retryable[j]
  /\ NewJob(work[j]) /\ UNCHANGED waiter

(* Mutant: only completed ends the wait, not failed or unknown.             *)
SeenNotCompleted(j) == status[j] # "completed"

(* get_job_status lists the queues without the lock.  Pending and running  *)
(* are copied in one step; any later answer is not an unfinished one.      *)
SeenUnfinished(j) == j \in Queued \cup RunningIds /\ status[j] \in Unfinished

Poll(t) ==
  /\ waiter[t].stage = "waiting"
  /\ ~SeenUnfinished(waiter[t].job)
  /\ waiter' = [waiter EXCEPT ![t].stage = "returned"]
  /\ UNCHANGED <<jobVars, pending, run, historyVars, claims, section, consumer, editor, disturbed>>

WaiterLeaves(t) ==
  /\ waiter[t].stage = "returned"
  /\ waiter' = [waiter EXCEPT ![t] = AtRest]
  /\ UNCHANGED <<jobVars, pending, run, historyVars, claims, section, consumer, editor, disturbed>>

-----------------------------------------------------------------------------
(* The consumer: _reserve_next_job looks at the head, decides, pops the     *)
(* left end and appends what it looked at to running, all under the lock.   *)

ConsumerSleeps ==
  /\ consumer /\ LockFree
  /\ pending # <<>> => ~HasCapacityFor(Head(pending))
  /\ UNCHANGED vars

ReservePeek ==
  /\ consumer /\ LockFree /\ ThreadToSpare
  /\ pending # <<>> /\ HasCapacityFor(Head(pending))
  /\ section' = [stage |-> "peeked", job |-> Head(pending), taken |-> NoJob]
  /\ UNCHANGED <<jobVars, pending, run, historyVars, claims, consumer, editor, waiter, disturbed>>

ReservePop ==
  /\ section.stage = "peeked" /\ pending # <<>>
  /\ section' = [section EXCEPT !.stage = "popped", !.taken = Head(pending)]
  /\ pending' = Tail(pending)
  /\ disturbed' = IF Head(pending) = section.job THEN disturbed
                  ELSE disturbed \cup {Head(pending), section.job}
  /\ UNCHANGED <<jobVars, run, historyVars, claims, consumer, editor, waiter>>

(* popleft raises IndexError on a queue emptied since the look at its head. *)
(* The loop catches only KeyboardInterrupt and SystemExit: the thread ends. *)
ReservePopEmpty ==
  /\ section.stage = "peeked" /\ pending = <<>>
  /\ consumer' = FALSE /\ section' = FreeLock
  /\ UNCHANGED <<jobVars, pending, run, historyVars, claims, editor, waiter, disturbed>>

(* Mutant: the forced job is left on pending.                               *)
ForceCopy(j) ==
  /\ LockFree /\ ThreadToSpare /\ status[j] = "pending" /\ j \in Queued
  /\ section' = [stage |-> "forced", job |-> j, taken |-> j]
  /\ UNCHANGED <<jobVars, pending, run, historyVars, claims, consumer, editor, waiter, disturbed>>

(* force_start_pending_job removes the job by its id; no capacity check.    *)
ForceTake(j) ==
  /\ LockFree /\ ThreadToSpare /\ status[j] = "pending"
  /\ \E i \in DOMAIN pending :
       pending[i] = j /\ pending' = RemoveAt(pending, i)
  /\ section' = [stage |-> "forced", job |-> j, taken |-> j]
  /\ UNCHANGED <<jobVars, run, historyVars, claims, consumer, editor, waiter, disturbed>>

(* The append to running that ends either section; a thread is then spawned. *)
Admit(r) ==
  /\ section.stage \in {"popped", "forced"}
  /\ run[r].phase = "idle"
  /\ run' = [run EXCEPT ![r] = [IdleRun EXCEPT !.phase = "reserved", !.job = section.job,
                                               !.forced = section.stage = "forced"]]
  /\ section' = FreeLock
  /\ UNCHANGED <<jobVars, pending, historyVars, claims, consumer, editor, waiter, disturbed>>

-----------------------------------------------------------------------------
(* The thread of a job: _run_job and _mark_failed.                          *)

StartRun(r) ==
  /\ run[r].phase = "reserved"
  /\ run' = [run EXCEPT ![r].phase = "started"]
  /\ status' = [status EXCEPT ![run[r].job] = "running"]
  /\ UNCHANGED <<lastId, work, cancelled, retryable, pending, historyVars, claims, section,
                 consumer, editor, waiter, disturbed>>

(* The function returns, stops at a checkpoint after Stop, or raises.       *)
FinishRun(r, end) ==
  /\ run[r].phase = "started" /\ run[r].inline = NoWork
  /\ end = "stopped" => cancelled[run[r].job]
  /\ run' = [run EXCEPT ![r].phase = "finished",
                        ![r].outcome = IF end = "failed" THEN "failed" ELSE "completed"]
  /\ status' = [status EXCEPT ![run[r].job] = end]
  /\ IF end = "failed"
     THEN \E b \in BOOLEAN : retryable' = [retryable EXCEPT ![run[r].job] = b]
     ELSE UNCHANGED retryable
  /\ UNCHANGED <<lastId, work, cancelled, pending, historyVars, claims, section,
                 consumer, editor, waiter, disturbed>>

LeaveRunning(r) ==
  /\ run[r].phase = "finished" /\ LockFree
  /\ run' = [run EXCEPT ![r].phase = "left"]
  /\ UNCHANGED <<jobVars, pending, historyVars, claims, section, consumer, editor, waiter, disturbed>>


(* A deque with maxlen drops its left end when one more is appended.        *)
Filed(deque, j) ==
  LET longer == Append(deque, j)
  IN  IF Len(longer) > HistoryLimit THEN Tail(longer) ELSE longer

FileRun(r) ==
  /\ run[r].phase = "left"
  /\ IF run[r].outcome = "failed"
     THEN failed' = Filed(failed, run[r].job) /\ UNCHANGED completed
     ELSE completed' = Filed(completed, run[r].job) /\ UNCHANGED failed
  /\ run' = [run EXCEPT ![r] = IdleRun]
  /\ UNCHANGED <<jobVars, pending, claims, section, consumer, editor, waiter, disturbed>>

(* claim_inline_job: a batch runs w inline if no queued or running job and  *)
(* no other batch has it.  A claim of its own job id counts as granted.     *)
ClaimInline(r, w) ==
  /\ LockFree /\ run[r].phase = "started" /\ run[r].inline = NoWork
  /\ work[run[r].job] \in BatchWork /\ w \in Work \ BatchWork
  /\ ~Existing(w)
  /\ IF Claimed(w)
     THEN [work |-> w, owner |-> run[r].job] \in claims /\ UNCHANGED claims
     ELSE claims' = claims \cup {[work |-> w, owner |-> run[r].job]}
  /\ run' = [run EXCEPT ![r].inline = w]
  /\ UNCHANGED <<jobVars, pending, historyVars, section, consumer, editor, waiter, disturbed>>

(* release_inline_job, in the finally of the inline run: by work, not owner. *)
ReleaseInline(r) ==
  /\ LockFree /\ run[r].inline # NoWork
  /\ claims' = {c \in claims : c.work # run[r].inline}
  /\ run' = [run EXCEPT ![r].inline = NoWork]
  /\ disturbed' = disturbed \cup
       ({c.owner : c \in {d \in claims : d.work = run[r].inline}} \ {run[r].job})
  /\ UNCHANGED <<jobVars, pending, historyVars, section, consumer, editor, waiter>>

Cancel(j) ==
  /\ j \in RunningIds
  /\ cancelled' = [cancelled EXCEPT ![j] = TRUE]
  /\ UNCHANGED <<lastId, work, status, retryable, pending, run, historyVars, claims, section,
                 consumer, editor, waiter, disturbed>>

-----------------------------------------------------------------------------
(* Requests that edit the queue without the lock.                           *)

TakeOff(j) ==
  /\ status[j] = "pending"
  /\ \E i \in DOMAIN pending :
       pending[i] = j /\ pending' = RemoveAt(pending, i)
  /\ disturbed' = disturbed \cup {j}

RemovePending(e, j) ==
  /\ editor[e].stage = "idle" /\ TakeOff(j)
  /\ UNCHANGED <<jobVars, run, historyVars, claims, section, consumer, editor, waiter>>

(* move_job_in_pending_queue removes the job and then inserts it again.     *)
MoveTake(e, j) ==
  /\ editor[e].stage = "idle" /\ TakeOff(j)
  /\ editor' = [editor EXCEPT ![e] = [stage |-> "moving", job |-> j]]
  /\ UNCHANGED <<jobVars, run, historyVars, claims, section, consumer, waiter>>

MoveInsert(e) ==
  /\ editor[e].stage = "moving"
  /\ \/ pending' = Cons(editor[e].job, pending)
     \/ pending' = Append(pending, editor[e].job)
  /\ editor' = [editor EXCEPT ![e] = AtRest]
  /\ UNCHANGED <<jobVars, run, historyVars, claims, section, consumer, waiter, disturbed>>

EmptyPending(e) ==
  /\ editor[e].stage = "idle"
  /\ pending' = <<>> /\ disturbed' = disturbed \cup Queued
  /\ UNCHANGED <<jobVars, run, historyVars, claims, section, consumer, editor, waiter>>

EmptyHistory(e) ==
  /\ editor[e].stage = "idle"
  /\ \/ failed' = <<>> /\ UNCHANGED completed
     \/ completed' = <<>> /\ UNCHANGED failed
  /\ UNCHANGED <<jobVars, pending, run, claims, section, consumer, editor, waiter, disturbed>>

(* cancel_editor_translation: listed, then tried on pending, then running.  *)
StopBegins(e, j) ==
  /\ editor[e].stage = "idle" /\ work[j] \in TranslationWork
  /\ j \in Queued \cup RunningIds
  /\ editor' = [editor EXCEPT ![e] = [stage |-> "stopping", job |-> j]]
  /\ UNCHANGED <<jobVars, pending, run, historyVars, claims, section, consumer, waiter, disturbed>>

StopTakesPending(e) ==
  /\ editor[e].stage = "stopping" /\ TakeOff(editor[e].job)
  /\ editor' = [editor EXCEPT ![e] = AtRest]
  /\ UNCHANGED <<jobVars, run, historyVars, claims, section, consumer, waiter>>

StopMissesPending(e) ==
  /\ editor[e].stage = "stopping"
  /\ ~(editor[e].job \in Queued /\ status[editor[e].job] = "pending")
  /\ editor' = [editor EXCEPT ![e].stage = "tryRunning"]
  /\ UNCHANGED <<jobVars, pending, run, historyVars, claims, section, consumer, waiter, disturbed>>

StopCancels(e) ==
  /\ editor[e].stage = "tryRunning" /\ editor[e].job \in RunningIds
  /\ cancelled' = [cancelled EXCEPT ![editor[e].job] = TRUE]
  /\ editor' = [editor EXCEPT ![e] = AtRest]
  /\ UNCHANGED <<lastId, work, status, retryable, pending, run, historyVars, claims, section,
                 consumer, waiter, disturbed>>

StopFindsNothing(e) ==
  /\ editor[e].stage = "tryRunning" /\ editor[e].job \notin RunningIds
  /\ editor' = [editor EXCEPT ![e].stage = "refused"]
  /\ UNCHANGED <<jobVars, pending, run, historyVars, claims, section, consumer, waiter, disturbed>>

StopRefused(e) ==
  /\ editor[e].stage = "refused"
  /\ editor' = [editor EXCEPT ![e] = AtRest]
  /\ UNCHANGED <<jobVars, pending, run, historyVars, claims, section, consumer, waiter, disturbed>>

-----------------------------------------------------------------------------
Producers ==
  \/ \E w \in Work : Feed(w) \/ \E t \in Waiters : FeedAndWait(t, w)
  \/ \E j \in JobIds : Retry(j) \/ ForceTake(j) \/ Cancel(j)
  \/ \E t \in Waiters : Poll(t) \/ WaiterLeaves(t)

Reserve == ConsumerSleeps \/ ReservePeek \/ ReservePop \/ ReservePopEmpty

RunEnds(r) == \E end \in Status \ Unfinished : FinishRun(r, end)

JobThread(r) ==
  \/ Admit(r) \/ StartRun(r) \/ RunEnds(r)
  \/ LeaveRunning(r) \/ FileRun(r) \/ ReleaseInline(r)

Edit(e) ==
  \/ \E j \in JobIds : RemovePending(e, j) \/ MoveTake(e, j) \/ StopBegins(e, j)
  \/ MoveInsert(e) \/ EmptyPending(e) \/ EmptyHistory(e)
  \/ StopTakesPending(e) \/ StopMissesPending(e)
  \/ StopCancels(e) \/ StopFindsNothing(e) \/ StopRefused(e)

Next ==
  \/ Producers
  \/ Reserve
  \/ \E r \in Runs : JobThread(r) \/ \E w \in Work : ClaimInline(r, w)
  \/ \E e \in Editors : Edit(e)

Spec == Init /\ [][Next]_vars

(* The consumer polls every half second, a spawned thread runs, a job's     *)
(* function ends (a batch has finitely many items to run inline, so its own  *)
(* end cannot be put off for ever), and a waiting caller polls each second.  *)
Fairness ==
  /\ WF_vars(ReservePeek) /\ WF_vars(ReservePop)
  /\ \A r \in Runs : /\ WF_vars(JobThread(r))
                     /\ SF_vars(RunEnds(r))
  /\ \A t \in Waiters : WF_vars(Poll(t))

FairSpec == Spec /\ Fairness

-----------------------------------------------------------------------------
(* Properties.                                                              *)

(* The jobs the consumer started never exceed concurrent_jobs, nor the      *)
(* translations among them the lane, whatever is force-started, edited or   *)
(* mistaken beside them (_reserve_next_job, _has_capacity_for).             *)
Unforced == {r \in OnRunning : ~run[r].forced}
CapacityRespected ==
  /\ Cardinality(Unforced) <= Concurrent
  /\ section.stage \in {"peeked", "popped"} => Cardinality(Unforced) < Concurrent
  /\ Cardinality({r \in Unforced : work[run[r].job] \in TranslationWork}) <= LaneLimit

(* Two threads never do the same work at once, as a job of its own or inline *)
(* in a batch, unless an edit without the lock touched one of the jobs       *)
(* (feed_jobs_pending_queue, claim_inline_job).                              *)
Does(r) == {work[run[r].job], run[r].inline} \ {NoWork}
OneThreadPerWork ==
  \A r, s \in OnRunning :
    r # s /\ Does(r) \cap Does(s) # {} => {run[r].job, run[s].job} \cap disturbed # {}

(* Why OneThreadPerWork holds: the parts of its inductive invariant.         *)
Active == Queued \cup HeldIds \cup RunningIds

IdsIssued ==
  /\ Queued \cup RunningIds \subseteq 1..lastId
  /\ section.stage # "free" => section.job \in 1..lastId
  /\ \A e \in Editors : editor[e].stage = "moving" =>
       editor[e].job \in 1..lastId /\ editor[e].job \in disturbed

Once(j) == \A i, k \in DOMAIN pending : pending[i] = j /\ pending[k] = j => i = k

OnePlace ==
  \A j \in JobIds \ disturbed :
    /\ Once(j)
    /\ \A r, s \in OnRunning : run[r].job = j /\ run[s].job = j => r = s
    /\ j \in Queued => j \notin HeldIds \cup RunningIds
    /\ j \in HeldIds => j \notin RunningIds

PeekedIsQueued ==
  section.stage = "peeked" /\ section.job \notin disturbed => section.job \in Queued

OneJobPerWork ==
  \A j, k \in Active \ disturbed : work[j] = work[k] => j = k

ClaimsExclusive ==
  /\ \A c \in claims : \A j \in Active \ disturbed : work[j] # c.work
  /\ \A c, d \in claims : c.work = d.work => c = d

InlineIsClaimed ==
  \A r \in Runs : run[r].inline # NoWork =>
    /\ run[r].phase = "started"
    /\ run[r].job \notin disturbed =>
         [work |-> run[r].inline, owner |-> run[r].job] \in claims

Ownership ==
  /\ TypeOK /\ IdsIssued /\ OnePlace /\ PeekedIsQueued
  /\ OneJobPerWork /\ ClaimsExclusive /\ InlineIsClaimed

(* A job no unlocked edit touched is never lost and never in two places: as  *)
(* long as it is unfinished it has exactly one place in the queue.           *)
Places(j) ==
  Cardinality({i \in DOMAIN pending : pending[i] = j})
  + Cardinality(HeldIds \cap {j})
  + Cardinality({r \in OnRunning : run[r].job = j})
NothingLost ==
  \A j \in 1..lastId \ disturbed :
    /\ status[j] \in Unfinished => Places(j) = 1
    /\ Places(j) <= 1

(* A job is started at most once: no step takes a job whose function has     *)
(* begun back to pending (Job.status only moves forward).                    *)
RunsOnce ==
  [][\A j \in JobIds \ disturbed' : status[j] # "pending" => status'[j] # "pending" /\ 
       (status[j] \notin Unfinished => status'[j] = status[j])]_vars

(* What a caller that never edits the queue sees of it.                      *)
Stage(j) ==
  IF j > lastId THEN "unknown"
  ELSE IF j \in HeldIds \cup RunningIds THEN "active"
  ELSE IF j \in Queued THEN "queued" ELSE "over"
Lifecycle == INSTANCE JobLifecycle WITH
  Jobs <- JobIds, stage <- [j \in JobIds |-> Stage(j)], doing <- work
ImplementsLifecycle == Lifecycle!FairSpec

(* A caller that waits for its job to complete is eventually let go.         *)
EveryWaiterReturns ==
  \A t \in Waiters : waiter[t].stage = "waiting" ~> waiter[t].stage # "waiting"

(* app/jobs_queue.py says the consumer ends only on an interrupt or an exit. *)
ConsumerSurvives == consumer

(* cancel_editor_translation says that it "cannot miss a job that starts in  *)
(* between": when it reports there is nothing to stop, nothing is left.      *)
StopCannotMiss ==
  \A e \in Editors : editor[e].stage = "refused" =>
    ~(editor[e].job \in Queued \cup HeldIds \cup RunningIds /\ status[editor[e].job] \in Unfinished)
=============================================================================
