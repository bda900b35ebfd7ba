---------------------------- MODULE ProviderWorker ----------------------------
(***************************************************************************)
(* One Provider Hub worker client (provider_hub/worker.py) and the threads *)
(* that share it: the calls of a provider pool, gated on the outcome of    *)
(* the call before theirs (HubProxyProvider, custom_libs/subliminal_patch/ *)
(* core.py), the sweep that ends idle workers, and the stop() of a pool    *)
(* that rebuilds the provider.  _lock serialises the requests; the latch,  *)
(* the closed mark and the registry of live clients are used without it.   *)
(***************************************************************************)
EXTENDS Naturals, FiniteSets

CONSTANTS
  Callers,    \* threads of a pool that search with or download from the provider
  Stopper,    \* the thread in stop()
  Reaper,     \* the scheduler thread in stop_if_idle()
  Free,       \* the holder of a lock nobody holds
  MaxSpawns,  \* bound on the processes the client starts
  MaxBehind   \* bound on the requests a process was sent and no one read a reply of

ASSUME WorkerAssumption ==
  /\ MaxSpawns \in Nat /\ MaxBehind \in Nat \ {0}
  /\ Stopper \notin Callers /\ Reaper \notin Callers \cup {Stopper}
  /\ Free \notin Callers \cup {Stopper, Reaper}

Threads == Callers \cup {Stopper}

VARIABLES
  stage,     \* stage[t]: where thread t is in its call or in stop()
  ok,        \* ok[t]: its last request got a valid reply of its own
  selected,  \* selected[t]: its download asked for an archive member
  cleared,   \* cleared[t]: _latch_owner.cleared, of its own thread
  lock,      \* the holder of _lock
  latch,     \* _outcome_latch
  closed,    \* _closed
  process,   \* self.process: its pipes, whether a kill of it failed, and whether
             \* last_used is older than the sweep's idle_seconds
  listed,    \* the client is in _live_clients
  held,      \* the client is in _unreaped_survivors
  excluded,  \* what admit() looks at: a backoff or a discard of the provider
  reaper,    \* the step of stop_if_idle, and the process it looked at
  stopping,  \* the process stop() looked at
  raced      \* history: a deregistration met this process, which its thread never saw

callVars == <<stage, ok, selected, cleared>>
registryVars == <<listed, held, raced>>
sweepVars == <<reaper, stopping>>
vars == <<callVars, lock, latch, closed, process, registryVars, excluded, sweepVars>>

Spawns == 0..MaxSpawns
GatedCall == {"starting", "asking", "answered", "queued"}  \* sent, its outcome open
Stages == GatedCall \cup {"away", "gated", "passed", "turn", "recheck", "recorded",
                          "closing", "leaving", "discard", "done"}
NoProcess == [number |-> 0, alive |-> FALSE, inbox |-> 0, lines |-> 0, output |-> "open",
              survived |-> FALSE, idle |-> FALSE]
Behind == process.inbox + process.lines

ProcessType ==
  [number : Spawns, alive : BOOLEAN, inbox : 0..MaxBehind, lines : 0..MaxBehind,
   output : {"open", "ended", "read"}, survived : BOOLEAN, idle : BOOLEAN]

(* The type invariant; _lock is held exactly in the steps written under it.   *)
TypeOK ==
  /\ stage \in [Threads -> Stages]
  /\ ok \in [Threads -> BOOLEAN] /\ selected \in [Callers -> BOOLEAN]
  /\ cleared \in [Callers -> BOOLEAN]
  /\ latch \in BOOLEAN /\ closed \in BOOLEAN /\ excluded \in BOOLEAN
  /\ listed \in BOOLEAN /\ held \in BOOLEAN /\ raced \in BOOLEAN
  /\ process \in ProcessType
  /\ reaper \in [stage : {"rest", "trying", "turn", "discard", "retain"}, mine : Spawns]
  /\ stopping \in Spawns
  /\ lock \in Threads \cup {Reaper, Free}
  /\ \A t \in Threads : stage[t] \in {"turn", "recheck", "starting", "asking"} <=> lock = t
  /\ reaper.stage = "turn" <=> lock = Reaper

AtRest == [stage |-> "rest", mine |-> 0]

Init ==
  /\ stage = [t \in Threads |-> "away"] /\ ok = [t \in Threads |-> FALSE]
  /\ selected = [t \in Callers |-> FALSE] /\ cleared = [t \in Callers |-> FALSE]
  /\ lock = Free /\ latch = TRUE /\ closed = FALSE
  /\ process = NoProcess
  /\ listed = FALSE /\ held = FALSE /\ raced = FALSE
  /\ excluded = FALSE
  /\ reaper = AtRest /\ stopping = 0

Goto(t, where) == stage' = [stage EXCEPT ![t] = where]
Killed == [process EXCEPT !.alive = FALSE, !.inbox = 0, !.survived = FALSE, !.idle = FALSE]
Survives == [process EXCEPT !.survived = TRUE]

-----------------------------------------------------------------------------
(* A gated call waits for its turn: _acquire_gated.                          *)

(* The pool calls a provider that it may call at this moment: _admits.       *)
Call(t) ==
  /\ stage[t] = "away" /\ ~excluded
  /\ Goto(t, "gated")
  /\ UNCHANGED <<ok, selected, cleared, lock, latch, closed, process, registryVars,
                 excluded, sweepVars>>

(* The latch is waited for without the lock.                                  *)
PassLatch(t) ==
  /\ stage[t] = "gated" /\ latch
  /\ Goto(t, "passed")
  /\ UNCHANGED <<ok, selected, cleared, lock, latch, closed, process, registryVars,
                 excluded, sweepVars>>

(* WorkerBusy: the request's own timeout ran out in front of either.         *)
GiveUp(t) ==
  /\ stage[t] \in {"gated", "passed"}
  /\ Goto(t, "recorded")
  /\ UNCHANGED <<ok, selected, cleared, lock, latch, closed, process, registryVars,
                 excluded, sweepVars>>

TakeLock(t) ==
  /\ stage[t] = "passed" /\ lock = Free
  /\ lock' = t /\ Goto(t, "turn")
  /\ UNCHANGED <<ok, selected, cleared, latch, closed, process, registryVars,
                 excluded, sweepVars>>

(* WorkerBusy of a stopped client, or on to the second look at the latch.     *)
LookClosed(t) ==
  /\ stage[t] = "turn"
  /\ IF closed THEN lock' = Free /\ Goto(t, "recorded")
               ELSE UNCHANGED lock /\ Goto(t, "recheck")
  /\ UNCHANGED <<ok, selected, cleared, latch, closed, process, registryVars,
                 excluded, sweepVars>>

(* Mutant: the latch is not looked at again under the lock.                   *)
GateOpenAsWaited == TRUE

(* Whether another gated request took its turn between the wait and the lock. *)
GateOpen == latch

(* The loop starts again.                                                     *)
TurnTaken(t) ==
  /\ stage[t] = "recheck" /\ ~GateOpen
  /\ lock' = Free /\ Goto(t, "gated")
  /\ UNCHANGED <<ok, selected, cleared, latch, closed, process, registryVars,
                 excluded, sweepVars>>

(* RequestNotAdmitted: the provider was excluded while the request waited.    *)
NotAdmitted(t) ==
  /\ stage[t] = "recheck" /\ GateOpen /\ excluded
  /\ lock' = Free /\ Goto(t, "recorded")
  /\ UNCHANGED <<ok, selected, cleared, latch, closed, process, registryVars,
                 excluded, sweepVars>>

Admit(t) ==
  /\ stage[t] = "recheck" /\ GateOpen /\ ~excluded
  /\ latch' = FALSE /\ cleared' = [cleared EXCEPT ![t] = TRUE]
  /\ Goto(t, "starting")
  /\ UNCHANGED <<ok, selected, lock, closed, process, registryVars, excluded, sweepVars>>

-----------------------------------------------------------------------------
(* A request: request().                                                      *)

(* Without admit the request queues on the lock for as long as it takes.      *)
TakeLockUngated(t) ==
  /\ stage[t] = "queued" /\ lock = Free
  /\ lock' = t /\ Goto(t, "starting")
  /\ UNCHANGED <<ok, selected, cleared, latch, closed, process, registryVars,
                 excluded, sweepVars>>

(* start() spawns and lists a worker, or finds one running; the request is    *)
(* stamped and written.                                                       *)
Begin(t) ==
  /\ stage[t] = "starting"
  /\ \/ /\ process.alive
        /\ process' = [process EXCEPT !.inbox = @ + 1, !.idle = FALSE]
        /\ UNCHANGED <<listed, raced>>
     \/ /\ ~process.alive /\ process.number < MaxSpawns
        /\ process' = [NoProcess EXCEPT !.number = process.number + 1, !.alive = TRUE,
                                        !.inbox = 1]
        /\ listed' = TRUE /\ raced' = FALSE
  /\ Goto(t, "asking")
  /\ UNCHANGED <<ok, selected, cleared, lock, latch, closed, held, excluded, sweepVars>>

(* The lock is given back on every way out of a request.                      *)
Answered(t, valid) ==
  /\ lock' = Free /\ Goto(t, "answered") /\ ok' = [ok EXCEPT ![t] = valid]
  /\ UNCHANGED <<selected, cleared, latch, closed, registryVars, excluded, sweepVars>>


(* Popen raises.                                                              *)
StartFails(t) ==
  /\ stage[t] = "starting" /\ ~process.alive
  /\ Answered(t, FALSE) /\ UNCHANGED process

(* The first line is the request's own when every line before it was read:    *)
(* another one has a mismatched id.  A reply of its own may report an error.  *)
ReadReply(t) ==
  /\ stage[t] = "asking" /\ process.lines > 0
  /\ process' = [process EXCEPT !.lines = @ - 1, !.idle = FALSE]
  /\ \E valid \in BOOLEAN : (valid => Behind = 1) /\ Answered(t, valid)

(* The worker closed its stdout: the mark the reader thread leaves at its end  *)
(* is read once, and whoever asks that process again waits for its deadline.   *)
ReadEnd(t) ==
  /\ stage[t] = "asking" /\ process.lines = 0
  /\ process.output = "ended" \/ (process.output = "open" /\ ~process.alive)
  /\ Behind < MaxBehind \/ ~process.alive
  /\ process' = [process EXCEPT !.output = "read", !.idle = FALSE]
  /\ Answered(t, FALSE)

(* Mutant: a worker that is late is left to finish.                           *)
DeadlineLeaves(t) ==
  /\ stage[t] = "asking"
  /\ (Behind < MaxBehind \/ ~process.alive) /\ UNCHANGED process
  /\ Answered(t, FALSE)

(* _kill_worker, at the deadline or at a line over the cap.  A kill may fail: *)
(* the process goes on, and what it answers later stays in the pipe.          *)
Deadline(t) ==
  /\ stage[t] = "asking"
  /\ \/ process' = Killed
     \/ process.alive /\ Behind < MaxBehind /\ process' = Survives
  /\ Answered(t, FALSE)

-----------------------------------------------------------------------------
(* What the pool does with the outcome of its call.                           *)

(* A download whose reply lists an archive asks for the member, ungated.      *)
SelectMember(t) ==
  /\ t \in Callers /\ stage[t] = "answered" /\ ok[t] /\ ~selected[t]
  /\ selected' = [selected EXCEPT ![t] = TRUE] /\ Goto(t, "queued")
  /\ UNCHANGED <<ok, cleared, lock, latch, closed, process, registryVars, excluded,
                 sweepVars>>

(* The throttle callback and the discard, for the failures that have them.    *)
Record(t) ==
  /\ t \in Callers /\ stage[t] = "answered"
  /\ Goto(t, "recorded")
  /\ \E backoff \in BOOLEAN : excluded' = (excluded \/ (backoff /\ ~ok[t]))
  /\ UNCHANGED <<ok, selected, cleared, lock, latch, closed, process, registryVars,
                 sweepVars>>

(* Mutant: only a call that went well lets the next one in.                   *)
OutcomeRecordedOnSuccess(t) ==
  /\ stage[t] = "recorded"
  /\ latch' = (latch \/ (cleared[t] /\ ok[t]))
  /\ cleared' = [cleared EXCEPT ![t] = FALSE]
  /\ selected' = [selected EXCEPT ![t] = FALSE] /\ ok' = [ok EXCEPT ![t] = FALSE]
  /\ Goto(t, "away")
  /\ UNCHANGED <<lock, closed, process, registryVars, excluded, sweepVars>>

(* outcome_recorded: every call of the pool ends here, refused ones too; only *)
(* the thread that cleared the latch sets it.                                 *)
OutcomeRecorded(t) ==
  /\ stage[t] = "recorded"
  /\ latch' = (latch \/ cleared[t]) /\ cleared' = [cleared EXCEPT ![t] = FALSE]
  /\ selected' = [selected EXCEPT ![t] = FALSE] /\ ok' = [ok EXCEPT ![t] = FALSE]
  /\ Goto(t, "away")
  /\ UNCHANGED <<lock, closed, process, registryVars, excluded, sweepVars>>

-----------------------------------------------------------------------------
(* _deregister, by a thread that looked at process number mine.               *)
Deregister(mine) ==
  /\ listed' = FALSE /\ held' = FALSE
  /\ raced' = (raced \/ (process.alive /\ process.number # mine))

Retain == held' = TRUE /\ UNCHANGED <<listed, raced>>

(* stop() closes the client first ...                                         *)
Close ==
  /\ stage[Stopper] = "away"
  /\ closed' = TRUE /\ Goto(Stopper, "closing")
  /\ UNCHANGED <<ok, selected, cleared, lock, latch, process, registryVars, excluded,
                 sweepVars>>

(* ... then wakes who waits on the latch, and looks at the process.           *)
WakeWaiters ==
  /\ stage[Stopper] = "closing"
  /\ latch' = TRUE /\ stopping' = process.number
  /\ Goto(Stopper, IF process.alive THEN "queued" ELSE "discard")
  /\ UNCHANGED <<ok, selected, cleared, lock, closed, process, registryVars, excluded,
                 reaper>>

(* The shutdown request was answered or not; the process ends, or is killed,  *)
(* or outlives both.                                                          *)
EndStopped ==
  /\ stage[Stopper] = "answered"
  /\ Goto(Stopper, "leaving")
  /\ IF process.number = stopping /\ process.alive
     THEN process' \in {Killed, Survives}
     ELSE UNCHANGED process
  /\ UNCHANGED <<ok, selected, cleared, lock, latch, closed, registryVars, excluded,
                 sweepVars>>

(* Only the process stop() looked at is taken off the registry.               *)
LeaveRegistry ==
  /\ stage[Stopper] = "leaving"
  /\ IF process.number = stopping /\ ~process.alive
     THEN Goto(Stopper, "discard") /\ UNCHANGED registryVars
     ELSE /\ Goto(Stopper, "done")
          /\ IF process.number = stopping THEN Retain ELSE UNCHANGED registryVars
  /\ UNCHANGED <<ok, selected, cleared, lock, latch, closed, process, excluded, sweepVars>>

StopDeregisters ==
  /\ stage[Stopper] = "discard"
  /\ Goto(Stopper, "done") /\ Deregister(stopping)
  /\ UNCHANGED <<ok, selected, cleared, lock, latch, closed, process, excluded, sweepVars>>

-----------------------------------------------------------------------------
(* The sweep: reap_idle_workers calls stop_if_idle of every listed client.    *)

SweepLooks ==
  /\ reaper.stage = "rest" /\ listed
  /\ reaper' = [stage |-> IF process.alive THEN "trying" ELSE "discard", mine |-> process.number]
  /\ UNCHANGED <<callVars, lock, latch, closed, process, registryVars, excluded, stopping>>

(* Mutant: the sweep goes on without the lock.                                *)
SweepTriesAnyway ==
  /\ reaper.stage = "trying"
  /\ IF lock = Free THEN lock' = Reaper ELSE UNCHANGED lock
  /\ reaper' = [reaper EXCEPT !.stage = "turn"]
  /\ UNCHANGED <<callVars, latch, closed, process, registryVars, excluded, stopping>>

(* A worker in a request holds the lock; the sweep never waits for it.        *)
SweepTries ==
  /\ reaper.stage = "trying"
  /\ IF lock = Free THEN lock' = Reaper /\ reaper' = [reaper EXCEPT !.stage = "turn"]
                    ELSE UNCHANGED lock /\ reaper' = AtRest
  /\ UNCHANGED <<callVars, latch, closed, process, registryVars, excluded, stopping>>

EndsIdle == process.idle /\ process.alive /\ process.number = reaper.mine

(* Both are looked at again under the lock.                                   *)
SweepSpares ==
  /\ reaper.stage = "turn" /\ ~EndsIdle
  /\ reaper' = AtRest /\ lock' = Free
  /\ UNCHANGED <<callVars, latch, closed, process, registryVars, excluded, stopping>>

(* Mutant: a worker that outlives the kill is taken off the registry as well. *)
SweepEndsHopefully ==
  /\ reaper.stage = "turn" /\ EndsIdle
  /\ process' \in {Killed, Survives}
  /\ reaper' = [reaper EXCEPT !.stage = "discard"]
  /\ lock' = Free
  /\ UNCHANGED <<callVars, latch, closed, registryVars, excluded, stopping>>

(* _terminate_tree, then _kill_tree; the lock is given back before the client *)
(* leaves the registry.                                                       *)
SweepEnds ==
  /\ reaper.stage = "turn" /\ EndsIdle
  /\ \/ process' = Killed /\ reaper' = [reaper EXCEPT !.stage = "discard"]
     \/ process' = Survives /\ reaper' = [reaper EXCEPT !.stage = "retain"]
  /\ lock' = Free
  /\ UNCHANGED <<callVars, latch, closed, registryVars, excluded, stopping>>

SweepRetains ==
  /\ reaper.stage = "retain"
  /\ reaper' = AtRest /\ Retain
  /\ UNCHANGED <<callVars, lock, latch, closed, process, excluded, stopping>>

SweepDeregisters ==
  /\ reaper.stage = "discard"
  /\ reaper' = AtRest /\ Deregister(reaper.mine)
  /\ UNCHANGED <<callVars, lock, latch, closed, process, excluded, stopping>>

-----------------------------------------------------------------------------
(* The worker process answers in the order it is asked (worker_runner.py), or *)
(* ends by itself; time passes.                                               *)
WorkerAnswers ==
  /\ process.alive /\ process.output = "open" /\ process.inbox > 0
  /\ process' = [process EXCEPT !.inbox = @ - 1, !.lines = @ + 1]
  /\ UNCHANGED <<callVars, lock, latch, closed, registryVars, excluded, sweepVars>>

(* It closes its stdout and lives on, or sent a line over the cap, after which *)
(* the reader thread ends (_enqueue_stdout): nothing more is read of it.       *)
WorkerCloses ==
  /\ process.alive /\ process.output = "open"
  /\ process' = [process EXCEPT !.output = "ended"]
  /\ UNCHANGED <<callVars, lock, latch, closed, registryVars, excluded, sweepVars>>

WorkerDies ==
  /\ process.alive /\ process' = Killed
  /\ UNCHANGED <<callVars, lock, latch, closed, registryVars, excluded, sweepVars>>

GrowIdle ==
  /\ process.alive /\ ~process.idle /\ process' = [process EXCEPT !.idle = TRUE]
  /\ UNCHANGED <<callVars, lock, latch, closed, registryVars, excluded, sweepVars>>

BackoffEnds ==
  /\ excluded /\ excluded' = FALSE
  /\ UNCHANGED <<callVars, lock, latch, closed, process, registryVars, sweepVars>>

-----------------------------------------------------------------------------
Request(t) ==
  \/ TakeLockUngated(t) \/ Begin(t) \/ StartFails(t)
  \/ ReadReply(t) \/ ReadEnd(t) \/ Deadline(t)
GatedStep(t) ==
  \/ Call(t) \/ PassLatch(t) \/ GiveUp(t) \/ TakeLock(t) \/ LookClosed(t)
  \/ TurnTaken(t) \/ NotAdmitted(t) \/ Admit(t)
  \/ SelectMember(t) \/ Record(t) \/ OutcomeRecorded(t)
Stop == Close \/ WakeWaiters \/ EndStopped \/ LeaveRegistry \/ StopDeregisters
Sweep ==
  \/ SweepLooks \/ SweepTries \/ SweepSpares \/ SweepEnds \/ SweepRetains \/ SweepDeregisters
Environment == WorkerAnswers \/ WorkerCloses \/ WorkerDies \/ GrowIdle \/ BackoffEnds

Next ==
  \/ \E t \in Callers : GatedStep(t)
  \/ \E t \in Threads : Request(t)
  \/ Stop \/ Sweep \/ Environment

Spec == Init /\ [][Next]_vars

-----------------------------------------------------------------------------
(* Properties.                                                                *)

(* A gated call: sent, and not yet recorded by its pool.                      *)
Unrecorded == {t \in Callers : stage[t] \in GatedCall}

(* No gated request is sent while the outcome of another one is not recorded: *)
(* a queued request never runs its admission check against the state from     *)
(* before a failure (worker.py:208).                                          *)
OneOutcomeOpen == Cardinality(Unrecorded) <= 1

(* So it is until the client is stopped.                                      *)
OneOutcomeOpenUntilStopped == ~closed => OneOutcomeOpen

(* The sweep never ends a process between the start and the reply of a        *)
(* request on it, however old its stamp is (stop_if_idle).                    *)
SweepSparesRequests ==
  [][reaper # reaper' /\ process.alive /\ ~process'.alive =>
       \A t \in Threads : stage[t] \notin {"starting", "asking"}]_vars

(* Requests and replies stay in step: a process that no kill failed on owes   *)
(* one reply during a request, and none between requests; one that closed its *)
(* stdout may owe more, but leaves no reply in the pipe for a later request.  *)
RepliesInStep ==
  process.alive /\ ~process.survived =>
    LET asking == Cardinality({t \in Threads : stage[t] = "asking"})
    IN process.lines <= asking /\ (process.output = "open" => Behind = asking)

(* A running worker is on the registry, where a sweep can find it, until a    *)
(* deregistration that was meant for an older process of the client; the next *)
(* process is on it again, whatever became of this one.                       *)
EveryLiveWorkerListedUnlessRaced == process.alive => listed \/ held \/ raced

(* A running worker is on the registry: "start() re-registers on the next     *)
(* spawn either way" (worker.py:405), and an early stop() is "the one safe    *)
(* unconditional discard" (worker.py:443).                                    *)
EveryLiveWorkerListed == process.alive => listed \/ held

(* A shut gate has a keeper: a call, somewhere on its way to outcome_recorded,  *)
(* whose thread is the one that may open it.  Without one every later search  *)
(* with the provider would be busy for good.                                  *)
ShutGateHasKeeper ==
  ~latch => \E t \in Callers : cleared[t] /\ stage[t] \in GatedCall \cup {"recorded"}
=============================================================================
