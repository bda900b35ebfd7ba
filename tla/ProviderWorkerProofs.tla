------------------------ MODULE ProviderWorkerProofs ------------------------
(* Machine-checked properties of ProviderWorker, for any number of callers    *)
(* and every value of its bounds.                                             *)
EXTENDS ProviderWorker, FiniteSetTheorems, TLAPS

(* The pipe: a process that nobody asks has room for one more request.        *)
Asking == \E t \in Threads : stage[t] = "asking"
Headroom ==
  /\ Behind <= MaxBehind
  /\ process.alive /\ ~Asking => Behind < MaxBehind

(* The gate: who cleared the latch is the call whose outcome is open; before  *)
(* the client is closed there is one of these at most, and none behind an     *)
(* open gate.                                                                 *)
GateKept ==
  /\ \A t \in Callers : stage[t] \in GatedCall => cleared[t]
  /\ \A t \in Callers : cleared[t] => stage[t] \in GatedCall \cup {"recorded"}
  /\ ~latch => \E t \in Callers : cleared[t]
  /\ stage[Stopper] # "away" => closed
  /\ ~closed => \A s, t \in Callers : cleared[s] /\ cleared[t] => s = t
  /\ ~closed /\ latch => \A t \in Callers : ~cleared[t]

(* The replies: RepliesInStep, without counting.                              *)
InStep ==
  process.alive /\ ~process.survived =>
    /\ Asking => process.lines <= 1 /\ (process.output = "open" => Behind = 1)
    /\ ~Asking => process.lines = 0 /\ (process.output = "open" => Behind = 0)

(* The registry: what a thread is about to take off it was dead when it       *)
(* looked, and a number is never given out again.                             *)
RegistryKept ==
  /\ reaper.mine <= process.number /\ stopping <= process.number
  /\ reaper.stage = "discard" /\ reaper.mine = process.number => ~process.alive
  /\ stage[Stopper] = "discard" /\ stopping = process.number => ~process.alive
  /\ EveryLiveWorkerListedUnlessRaced

-----------------------------------------------------------------------------
LEMMA ProcessFields ==
  ASSUME NEW p \in ProcessType
  PROVE  /\ p.number \in Spawns /\ p.number \in Nat /\ p.alive \in BOOLEAN /\ p.survived \in BOOLEAN
         /\ p.inbox \in Nat /\ p.inbox <= MaxBehind /\ p.lines \in Nat /\ p.lines <= MaxBehind
  BY WorkerAssumption DEF ProcessType, Spawns

(* What the steps do to the process record.                                   *)
LEMMA ProcessEdits ==
  ASSUME process \in ProcessType
  PROVE  /\ Killed \in ProcessType /\ ~Killed.alive /\ Killed.inbox = 0 /\ ~Killed.survived
         /\ Killed.number = process.number /\ Killed.lines = process.lines
         /\ Survives \in ProcessType /\ Survives.alive = process.alive /\ Survives.survived
         /\ Survives.number = process.number /\ Survives.inbox = process.inbox
         /\ Survives.lines = process.lines
<1>1. 0 \in 0..MaxBehind
  BY WorkerAssumption
<1>2. Killed \in ProcessType /\ Survives \in ProcessType
  BY <1>1 DEF Killed, Survives, ProcessType
<1> QED BY <1>2 DEF Killed, Survives, ProcessType

LEMMA SentEdit ==
  ASSUME process \in ProcessType, Behind < MaxBehind,
         NEW q, q = [process EXCEPT !.inbox = @ + 1, !.idle = FALSE]
  PROVE  /\ q \in ProcessType /\ q.inbox = process.inbox + 1 /\ q.lines = process.lines
         /\ q.alive = process.alive /\ q.number = process.number
         /\ q.survived = process.survived /\ q.output = process.output
<1>1. process.inbox + 1 \in 0..MaxBehind
  BY ProcessFields, WorkerAssumption DEF Behind
<1> QED BY <1>1 DEF ProcessType

LEMMA SpawnEdit ==
  ASSUME process \in ProcessType, process.number < MaxSpawns,
         NEW q, q = [NoProcess EXCEPT !.number = process.number + 1, !.alive = TRUE, !.inbox = 1]
  PROVE  /\ q \in ProcessType /\ q.inbox = 1 /\ q.lines = 0 /\ q.alive /\ ~q.survived
         /\ q.number = process.number + 1
<1>1. process.number + 1 \in Spawns /\ 1 \in 0..MaxBehind /\ 0 \in 0..MaxBehind
  BY ProcessFields, WorkerAssumption DEF Spawns
<1> QED BY <1>1 DEF ProcessType, NoProcess

LEMMA ReadEdit ==
  ASSUME process \in ProcessType, process.lines > 0,
         NEW q, q = [process EXCEPT !.lines = @ - 1, !.idle = FALSE]
  PROVE  /\ q \in ProcessType /\ q.inbox = process.inbox /\ q.lines = process.lines - 1
         /\ q.alive = process.alive /\ q.number = process.number
         /\ q.survived = process.survived /\ q.output = process.output
<1>1. process.lines - 1 \in 0..MaxBehind
  BY ProcessFields, WorkerAssumption
<1> QED BY <1>1 DEF ProcessType

LEMMA EndEdit ==
  ASSUME process \in ProcessType, NEW output \in {"ended", "read"}, NEW idle \in BOOLEAN,
         NEW q, q = [process EXCEPT !.output = output, !.idle = idle]
  PROVE  /\ q \in ProcessType /\ q.inbox = process.inbox /\ q.lines = process.lines
         /\ q.alive = process.alive /\ q.number = process.number
         /\ q.survived = process.survived /\ q.output = output
  BY DEF ProcessType

LEMMA AnswerEdit ==
  ASSUME process \in ProcessType, process.inbox > 0, Behind <= MaxBehind,
         NEW q, q = [process EXCEPT !.inbox = @ - 1, !.lines = @ + 1]
  PROVE  /\ q \in ProcessType /\ q.inbox = process.inbox - 1 /\ q.lines = process.lines + 1
         /\ q.alive = process.alive /\ q.number = process.number
         /\ q.survived = process.survived /\ q.output = process.output
<1>1. process.inbox - 1 \in 0..MaxBehind /\ process.lines + 1 \in 0..MaxBehind
  BY ProcessFields, WorkerAssumption DEF Behind
<1> QED BY <1>1 DEF ProcessType

LEMMA InitWorker == Init => TypeOK /\ Headroom /\ GateKept /\ InStep /\ RegistryKept
<1> SUFFICES ASSUME Init PROVE TypeOK /\ Headroom /\ GateKept /\ InStep /\ RegistryKept
  OBVIOUS
<1>1. NoProcess \in ProcessType /\ AtRest \in [stage : {"rest", "trying", "turn", "discard", "retain"}, mine : Spawns]
  BY WorkerAssumption DEF ProcessType, Spawns, NoProcess, AtRest
<1>2. AtRest.stage = "rest" /\ 0 \in Spawns
  BY WorkerAssumption DEF AtRest, Spawns
<1>3. TypeOK
  BY <1>1, <1>2, WorkerAssumption DEF Init, TypeOK, Stages, GatedCall, Threads
<1>4. Headroom /\ InStep
  BY WorkerAssumption DEF Init, Headroom, InStep, Behind, NoProcess
<1>5. GateKept
  BY WorkerAssumption DEF Init, GateKept, GatedCall, Threads
<1>6. RegistryKept
  BY DEF Init, RegistryKept, EveryLiveWorkerListedUnlessRaced, NoProcess, AtRest, Threads
<1> QED BY <1>3, <1>4, <1>5, <1>6

-----------------------------------------------------------------------------
(* Types and the room in the pipe.                                            *)
LEMMA GatedType ==
  ASSUME TypeOK, Headroom, NEW t \in Callers, GatedStep(t)
  PROVE  TypeOK' /\ Headroom'
<1> USE WorkerAssumption
    DEF TypeOK, Headroom, Behind, Asking, Threads, Stages, GatedCall, Goto, callVars,
        registryVars, sweepVars
<1>1. CASE Call(t)
  BY <1>1 DEF Call
<1>2. CASE PassLatch(t)
  BY <1>2 DEF PassLatch
<1>3. CASE GiveUp(t)
  BY <1>3 DEF GiveUp
<1>4. CASE TakeLock(t)
  BY <1>4 DEF TakeLock
<1>5. CASE LookClosed(t)
  BY <1>5 DEF LookClosed
<1>6. CASE TurnTaken(t)
  BY <1>6 DEF TurnTaken
<1>7. CASE NotAdmitted(t)
  BY <1>7 DEF NotAdmitted
<1>8. CASE Admit(t)
  <2>1. TypeOK'
    BY <1>8 DEF Admit
  <2>2. Headroom'
    BY <1>8, ProcessFields DEF Admit
  <2> QED BY <2>1, <2>2
<1>9. CASE SelectMember(t)
  BY <1>9 DEF SelectMember
<1>10. CASE Record(t)
  BY <1>10 DEF Record
<1>11. CASE OutcomeRecorded(t)
  BY <1>11 DEF OutcomeRecorded
<1> QED BY <1>1, <1>2, <1>3, <1>4, <1>5, <1>6, <1>7, <1>8, <1>9, <1>10, <1>11 DEF GatedStep

LEMMA RequestType ==
  ASSUME TypeOK, Headroom, NEW t \in Threads, Request(t)
  PROVE  TypeOK' /\ Headroom'
<1> USE WorkerAssumption
    DEF TypeOK, Headroom, Behind, Asking, Threads, Stages, GatedCall, Goto, callVars,
        registryVars, sweepVars, Spawns
<1>1. CASE TakeLockUngated(t)
  BY <1>1 DEF TakeLockUngated
<1>2. CASE Begin(t)
  <2>1. ~Asking
    BY <1>2 DEF Begin
  <2>2. /\ process' \in ProcessType
        /\ process'.inbox + process'.lines <= MaxBehind
    <3>1. CASE process.alive
      <4>1. process' = [process EXCEPT !.inbox = @ + 1, !.idle = FALSE]
        BY <1>2, <3>1 DEF Begin
      <4>2. process \in ProcessType /\ process.inbox + process.lines < MaxBehind
        BY <2>1, <3>1
      <4> QED BY ONLY <4>1, <4>2, SentEdit, ProcessFields, WorkerAssumption DEF Behind
    <3>2. CASE ~process.alive
      <4>1. /\ process' = [NoProcess EXCEPT !.number = process.number + 1, !.alive = TRUE, !.inbox = 1]
            /\ process.number < MaxSpawns
        BY <1>2, <3>2 DEF Begin
      <4>2. process \in ProcessType
        OBVIOUS
      <4>3. process' \in ProcessType /\ process'.inbox = 1 /\ process'.lines = 0
        BY ONLY <4>1, <4>2, SpawnEdit
      <4> QED BY ONLY <4>3, WorkerAssumption
    <3> QED BY <3>1, <3>2
  <2>3. listed' \in BOOLEAN /\ raced' \in BOOLEAN
    BY <1>2 DEF Begin
  <2>4. stage' = [stage EXCEPT ![t] = "asking"] /\ stage[t] = "starting"
    BY <1>2 DEF Begin
  <2>5. TypeOK'
    BY <1>2, <2>2, <2>3, <2>4 DEF Begin
  <2>6. Headroom'
    BY <2>2, <2>4
  <2> QED BY <2>5, <2>6
<1>3. CASE StartFails(t)
  BY <1>3 DEF StartFails, Answered
<1>4. CASE ReadReply(t)
  <2>0. process' \in ProcessType
    BY <1>4, ReadEdit DEF ReadReply
  <2>1. TypeOK'
    BY <1>4, <2>0 DEF ReadReply, Answered
  <2>2. Headroom'
    BY <1>4, ProcessFields DEF ReadReply, Answered
  <2> QED BY <2>1, <2>2
<1>5. CASE ReadEnd(t)
  <2>0. /\ process' \in ProcessType /\ process'.inbox = process.inbox
        /\ process'.lines = process.lines /\ process'.alive = process.alive
    BY <1>5, EndEdit DEF ReadEnd
  <2>1. TypeOK'
    BY <1>5, <2>0 DEF ReadEnd, Answered
  <2>2. Headroom'
    BY <1>5, <2>0, ProcessFields DEF ReadEnd, Answered
  <2> QED BY <2>1, <2>2
<1>6. CASE Deadline(t)
  <2>1. TypeOK'
    BY <1>6, ProcessEdits DEF Deadline, Answered
  <2>2. Headroom'
    BY <1>6, ProcessFields, ProcessEdits DEF Deadline, Answered
  <2> QED BY <2>1, <2>2
<1> QED BY <1>1, <1>2, <1>3, <1>4, <1>5, <1>6 DEF Request

LEMMA StopType ==
  ASSUME TypeOK, Headroom, Stop
  PROVE  TypeOK' /\ Headroom'
<1> USE WorkerAssumption
    DEF TypeOK, Headroom, Behind, Asking, Threads, Stages, GatedCall, Goto, callVars,
        registryVars, sweepVars, Spawns
<1>1. CASE Close
  BY <1>1 DEF Close
<1>2. CASE WakeWaiters
  BY <1>2, ProcessFields DEF WakeWaiters
<1>3. CASE EndStopped
  <2>1. TypeOK'
    BY <1>3, ProcessEdits DEF EndStopped
  <2>2. Headroom'
    BY <1>3, ProcessFields, ProcessEdits DEF EndStopped
  <2> QED BY <2>1, <2>2
<1>4. CASE LeaveRegistry
  <2>1. TypeOK'
    <3>1. CASE process.number = stopping /\ ~process.alive
      BY <1>4, <3>1 DEF LeaveRegistry
    <3>2. CASE ~(process.number = stopping /\ ~process.alive)
      BY <1>4, <3>2 DEF LeaveRegistry, Retain
    <3> QED BY <3>1, <3>2
  <2>2. Headroom'
    BY <1>4, ProcessFields DEF LeaveRegistry, Retain
  <2> QED BY <2>1, <2>2
<1>5. CASE StopDeregisters
  BY <1>5 DEF StopDeregisters, Deregister
<1> QED BY <1>1, <1>2, <1>3, <1>4, <1>5 DEF Stop

LEMMA SweepType ==
  ASSUME TypeOK, Headroom, Sweep
  PROVE  TypeOK' /\ Headroom'
<1> USE WorkerAssumption
    DEF TypeOK, Headroom, Behind, Asking, Threads, callVars, registryVars, sweepVars, Spawns, AtRest
<1>1. CASE SweepLooks
  BY <1>1, ProcessFields DEF SweepLooks
<1>2. CASE SweepTries
  BY <1>2 DEF SweepTries
<1>3. CASE SweepSpares
  BY <1>3 DEF SweepSpares
<1>4. CASE SweepEnds
  <2>1. TypeOK'
    BY <1>4, ProcessEdits DEF SweepEnds
  <2>2. Headroom'
    BY <1>4, ProcessFields, ProcessEdits DEF SweepEnds
  <2> QED BY <2>1, <2>2
<1>5. CASE SweepRetains
  BY <1>5 DEF SweepRetains, Retain
<1>6. CASE SweepDeregisters
  <2>0. listed' \in BOOLEAN /\ held' \in BOOLEAN /\ raced' \in BOOLEAN
    BY <1>6 DEF SweepDeregisters, Deregister
  <2>1. TypeOK'
    BY <1>6, <2>0 DEF SweepDeregisters
  <2>2. Headroom'
    BY <1>6, ProcessFields DEF SweepDeregisters, Deregister
  <2> QED BY <2>1, <2>2
<1> QED BY <1>1, <1>2, <1>3, <1>4, <1>5, <1>6 DEF Sweep

LEMMA EnvironmentType ==
  ASSUME TypeOK, Headroom, Environment
  PROVE  TypeOK' /\ Headroom'
<1> USE WorkerAssumption
    DEF TypeOK, Headroom, Behind, Asking, Threads, callVars, registryVars, sweepVars
<1>1. CASE WorkerAnswers
  <2>0. process' \in ProcessType
    BY <1>1, AnswerEdit DEF WorkerAnswers
  <2>1. TypeOK'
    BY <1>1, <2>0 DEF WorkerAnswers
  <2>2. Headroom'
    BY <1>1, ProcessFields DEF WorkerAnswers
  <2> QED BY <2>1, <2>2
<1>2. CASE WorkerDies
  <2>1. TypeOK'
    BY <1>2, ProcessEdits DEF WorkerDies
  <2>2. Headroom'
    BY <1>2, ProcessFields, ProcessEdits DEF WorkerDies
  <2> QED BY <2>1, <2>2
<1>3. CASE GrowIdle
  <2>1. /\ process' \in ProcessType /\ process'.inbox = process.inbox
        /\ process'.lines = process.lines /\ process'.alive = process.alive
    BY <1>3 DEF GrowIdle, ProcessType
  <2>2. TypeOK' /\ Headroom'
    BY <1>3, <2>1 DEF GrowIdle
  <2> QED BY <2>2
<1>4. CASE BackoffEnds
  <2>1. TypeOK'
    BY <1>4 DEF BackoffEnds
  <2>2. Headroom'
    BY <1>4, ProcessFields DEF BackoffEnds
  <2> QED BY <2>1, <2>2
<1>5. CASE WorkerCloses
  <2>1. /\ process' \in ProcessType /\ process'.inbox = process.inbox
        /\ process'.lines = process.lines /\ process'.alive = process.alive
    BY <1>5 DEF WorkerCloses, ProcessType
  <2>2. TypeOK' /\ Headroom'
    BY <1>5, <2>1 DEF WorkerCloses
  <2> QED BY <2>2
<1> QED BY <1>1, <1>2, <1>3, <1>4, <1>5 DEF Environment

LEMMA StepType ==
  ASSUME TypeOK, Headroom, [Next]_vars
  PROVE  TypeOK' /\ Headroom'
<1>1. CASE Next
  BY <1>1, GatedType, RequestType, StopType, SweepType, EnvironmentType DEF Next
<1>2. CASE UNCHANGED vars
  BY <1>2 DEF vars, callVars, registryVars, sweepVars, TypeOK, Headroom, Behind, Asking
<1> QED BY <1>1, <1>2

-----------------------------------------------------------------------------
(* The gate.                                                                  *)
LEMMA StepGate ==
  ASSUME TypeOK, GateKept, [Next]_vars
  PROVE  GateKept'
<1> USE WorkerAssumption
    DEF TypeOK, GateKept, Threads, GatedCall, Goto, callVars, registryVars, sweepVars
<1>1. ASSUME NEW t \in Callers, GatedStep(t) PROVE GateKept'
  <2>1. CASE Call(t)
    BY <2>1 DEF Call
  <2>2. CASE PassLatch(t)
    BY <2>2 DEF PassLatch
  <2>3. CASE GiveUp(t)
    BY <2>3 DEF GiveUp
  <2>4. CASE TakeLock(t)
    BY <2>4 DEF TakeLock
  <2>5. CASE LookClosed(t)
    BY <2>5 DEF LookClosed
  <2>6. CASE TurnTaken(t)
    BY <2>6 DEF TurnTaken
  <2>7. CASE NotAdmitted(t)
    BY <2>7 DEF NotAdmitted
  <2>8. CASE Admit(t)
    BY <2>8 DEF Admit, GateOpen
  <2>9. CASE SelectMember(t)
    BY <2>9 DEF SelectMember
  <2>10. CASE Record(t)
    BY <2>10 DEF Record
  <2>11. CASE OutcomeRecorded(t)
    BY <2>11 DEF OutcomeRecorded
  <2> QED
    BY <1>1, <2>1, <2>2, <2>3, <2>4, <2>5, <2>6, <2>7, <2>8, <2>9, <2>10, <2>11 DEF GatedStep
<1>2. ASSUME NEW t \in Threads, Request(t) PROVE GateKept'
  <2>1. CASE TakeLockUngated(t)
    BY <2>1 DEF TakeLockUngated
  <2>2. CASE Begin(t)
    BY <2>2 DEF Begin
  <2>3. CASE StartFails(t) \/ ReadReply(t) \/ ReadEnd(t) \/ Deadline(t)
    <3>1. /\ stage[t] \in {"starting", "asking"} /\ stage' = [stage EXCEPT ![t] = "answered"]
          /\ UNCHANGED <<cleared, latch, closed>>
      BY <2>3 DEF StartFails, ReadReply, ReadEnd, Deadline, Answered
    <3> QED BY <3>1
  <2> QED BY <1>2, <2>1, <2>2, <2>3 DEF Request
<1>3. ASSUME Stop PROVE GateKept'
  <2>1. CASE Close
    BY <2>1 DEF Close
  <2>2. CASE WakeWaiters
    BY <2>2 DEF WakeWaiters
  <2>3. CASE EndStopped \/ LeaveRegistry \/ StopDeregisters
    <3>1. /\ stage[Stopper] # "away" /\ \E s \in Stages : stage' = [stage EXCEPT ![Stopper] = s]
          /\ UNCHANGED <<cleared, latch, closed>>
      BY <2>3 DEF EndStopped, LeaveRegistry, StopDeregisters, Stages
    <3> QED BY <3>1
  <2> QED BY <1>3, <2>1, <2>2, <2>3 DEF Stop
<1>4. ASSUME Sweep \/ Environment \/ UNCHANGED vars PROVE GateKept'
  <2>1. UNCHANGED <<stage, cleared, latch, closed>>
    BY <1>4 DEF Sweep, SweepLooks, SweepTries, SweepSpares, SweepEnds, SweepRetains,
                SweepDeregisters, Environment, WorkerAnswers, WorkerCloses, WorkerDies, GrowIdle,
                BackoffEnds, vars
  <2> QED BY <2>1
<1> QED BY <1>1, <1>2, <1>3, <1>4 DEF Next

(* OneOutcomeOpenUntilStopped, without counting.                              *)
LEMMA GateCounts == TypeOK /\ GateKept => ShutGateHasKeeper /\ OneOutcomeOpenUntilStopped
<1> SUFFICES ASSUME TypeOK, GateKept PROVE ShutGateHasKeeper /\ OneOutcomeOpenUntilStopped
  OBVIOUS
<1>1. ShutGateHasKeeper
  BY DEF GateKept, ShutGateHasKeeper
<1>2. ASSUME ~closed PROVE Cardinality(Unrecorded) <= 1
  <2>1. \A s, t \in Unrecorded : s = t
    BY <1>2 DEF GateKept, Unrecorded
  <2>2. CASE Unrecorded = {}
    BY <2>2, FS_EmptySet
  <2>3. CASE Unrecorded # {}
    <3>1. PICK t : Unrecorded = {t}
      BY <2>1, <2>3
    <3>2. Cardinality({t}) = 1
      BY FS_Singleton
    <3> QED BY <3>1, <3>2
  <2> QED BY <2>2, <2>3
<1> QED BY <1>1, <1>2 DEF OneOutcomeOpenUntilStopped, OneOutcomeOpen

-----------------------------------------------------------------------------
(* The replies.                                                               *)
LEMMA StepReplies ==
  ASSUME TypeOK, Headroom, InStep, [Next]_vars
  PROVE  InStep'
<1> USE WorkerAssumption DEF Threads, callVars, registryVars, sweepVars
<1>0. process \in ProcessType /\ stage \in [Threads -> Stages]
  BY DEF TypeOK
<1>1. ASSUME UNCHANGED process,
             \A t \in Threads : stage[t] = "asking" <=> stage'[t] = "asking"
      PROVE  InStep'
  BY <1>1 DEF InStep, Asking, Behind
<1>2. ASSUME ~process'.alive \/ process'.survived PROVE InStep'
  BY <1>2 DEF InStep
<1>3. ASSUME NEW t \in Callers, GatedStep(t) PROVE InStep'
  <2>1. UNCHANGED process /\ \E s \in Stages \ {"asking"} : stage' = [stage EXCEPT ![t] = s]
    BY <1>3 DEF GatedStep, Call, PassLatch, GiveUp, TakeLock, LookClosed, TurnTaken, NotAdmitted,
                Admit, SelectMember, Record, OutcomeRecorded, Goto, Stages, GatedCall
  <2>2. stage[t] # "asking"
    BY <1>3 DEF GatedStep, Call, PassLatch, GiveUp, TakeLock, LookClosed, TurnTaken, NotAdmitted,
                Admit, SelectMember, Record, OutcomeRecorded
  <2> QED BY <1>0, <1>1, <2>1, <2>2
<1>4. ASSUME NEW t \in Threads, Request(t) PROVE InStep'
  <2>1. CASE TakeLockUngated(t)
    <3>1. UNCHANGED process /\ stage[t] = "queued" /\ stage' = [stage EXCEPT ![t] = "starting"]
      BY <2>1 DEF TakeLockUngated, Goto
    <3> QED BY <1>0, <1>1, <3>1
  <2>2. CASE Begin(t)
    <3>1. stage[t] = "starting" /\ stage' = [stage EXCEPT ![t] = "asking"]
      BY <2>2 DEF Begin, Goto
    <3>2. ~Asking /\ Asking'
      BY <1>0, <3>1 DEF TypeOK, Asking
    <3>3. CASE process.alive
      <4>1. process' = [process EXCEPT !.inbox = @ + 1, !.idle = FALSE]
        BY <2>2, <3>3 DEF Begin
      <4>2. /\ process'.inbox = process.inbox + 1 /\ process'.lines = process.lines
            /\ process'.survived = process.survived /\ process'.alive = process.alive
            /\ process'.output = process.output
        BY <1>0, <3>2, <3>3, <4>1, SentEdit DEF Headroom
      <4> QED BY <1>0, <3>2, <3>3, <4>2, ProcessFields DEF InStep, Behind
    <3>4. CASE ~process.alive
      <4>1. /\ process' = [NoProcess EXCEPT !.number = process.number + 1, !.alive = TRUE, !.inbox = 1]
            /\ process.number < MaxSpawns
        BY <2>2, <3>4 DEF Begin
      <4>2. process'.inbox = 1 /\ process'.lines = 0
        BY <1>0, <4>1, SpawnEdit
      <4> QED BY <3>2, <4>2 DEF InStep, Behind
    <3> QED BY <3>3, <3>4
  <2>3. CASE StartFails(t)
    <3>1. UNCHANGED process /\ stage[t] = "starting" /\ stage' = [stage EXCEPT ![t] = "answered"]
      BY <2>3 DEF StartFails, Answered, Goto
    <3> QED BY <1>0, <1>1, <3>1
  <2>4. CASE ReadReply(t)
    <3>1. /\ stage[t] = "asking" /\ stage' = [stage EXCEPT ![t] = "answered"]
          /\ process.lines > 0 /\ process' = [process EXCEPT !.lines = @ - 1, !.idle = FALSE]
      BY <2>4 DEF ReadReply, Answered, Goto
    <3>2. Asking /\ ~Asking'
      BY <1>0, <3>1 DEF TypeOK, Asking
    <3>3. /\ process'.inbox = process.inbox /\ process'.lines = process.lines - 1
          /\ process'.alive = process.alive /\ process'.survived = process.survived
          /\ process'.output = process.output
      BY <1>0, <3>1, ReadEdit
    <3>4. ASSUME process.alive, ~process.survived
          PROVE  process'.lines = 0 /\ (process'.output = "open" => process'.inbox = 0)
      <4>1. process.lines <= 1 /\ (process.output = "open" => process.inbox + process.lines = 1)
        BY <3>2, <3>4 DEF InStep, Behind
      <4>2. process.lines = 1 /\ process.inbox \in Nat
        BY <1>0, <3>1, <4>1, ProcessFields
      <4> QED BY <3>3, <4>1, <4>2
    <3> QED BY <3>2, <3>3, <3>4 DEF InStep, Behind
  <2>5. CASE ReadEnd(t)
    <3>1. /\ stage[t] = "asking" /\ stage' = [stage EXCEPT ![t] = "answered"]
          /\ process.lines = 0
          /\ process' = [process EXCEPT !.output = "read", !.idle = FALSE]
      BY <2>5 DEF ReadEnd, Answered, Goto
    <3>2. ~Asking'
      BY <1>0, <3>1 DEF TypeOK, Asking
    <3>3. process'.lines = 0 /\ process'.output = "read"
      BY <1>0, <3>1, EndEdit
    <3> QED BY <3>2, <3>3 DEF InStep
  <2>6. CASE Deadline(t)
    BY <1>0, <1>2, <2>6, ProcessEdits DEF Deadline
  <2> QED BY <1>4, <2>1, <2>2, <2>3, <2>4, <2>5, <2>6 DEF Request
<1>5. ASSUME Stop PROVE InStep'
  <2>1. /\ stage[Stopper] # "asking"
        /\ \E s \in Stages \ {"asking"} : stage' = [stage EXCEPT ![Stopper] = s]
    BY <1>5 DEF Stop, Close, WakeWaiters, EndStopped, LeaveRegistry, StopDeregisters, Goto,
                Stages, GatedCall
  <2>2. UNCHANGED process \/ process' \in {Killed, Survives}
    BY <1>5 DEF Stop, Close, WakeWaiters, EndStopped, LeaveRegistry, StopDeregisters
  <2> QED BY <1>0, <1>1, <1>2, <2>1, <2>2, ProcessEdits
<1>6. ASSUME Sweep PROVE InStep'
  <2>1. UNCHANGED stage
    BY <1>6 DEF Sweep, SweepLooks, SweepTries, SweepSpares, SweepEnds, SweepRetains, SweepDeregisters
  <2>2. UNCHANGED process \/ process' \in {Killed, Survives}
    BY <1>6 DEF Sweep, SweepLooks, SweepTries, SweepSpares, SweepEnds, SweepRetains, SweepDeregisters
  <2> QED BY <1>0, <1>1, <1>2, <2>1, <2>2, ProcessEdits
<1>7. ASSUME Environment PROVE InStep'
  <2>1. UNCHANGED stage
    BY <1>7 DEF Environment, WorkerAnswers, WorkerCloses, WorkerDies, GrowIdle, BackoffEnds
  <2>2. CASE WorkerAnswers
    <3>1. process.inbox > 0 /\ process' = [process EXCEPT !.inbox = @ - 1, !.lines = @ + 1]
      BY <2>2 DEF WorkerAnswers
    <3>2. /\ process'.inbox = process.inbox - 1 /\ process'.lines = process.lines + 1
          /\ process'.alive = process.alive /\ process'.survived = process.survived
          /\ process'.output = process.output /\ process.output = "open" /\ process.alive
      BY <1>0, <2>2, <3>1, AnswerEdit DEF Headroom, WorkerAnswers
    <3>3. process.inbox \in Nat /\ process.lines \in Nat /\ process.inbox > 0
      BY <1>0, <3>1, ProcessFields
    <3>4. Asking' = Asking
      BY <2>1 DEF Asking
    <3>5. ASSUME ~process.survived
          PROVE  Asking /\ process'.lines = 1 /\ process'.inbox = 0
      <4>1. /\ Asking => process.inbox + process.lines = 1
            /\ ~Asking => process.inbox + process.lines = 0
        BY <3>2, <3>5 DEF InStep, Behind
      <4> QED BY <3>2, <3>3, <4>1
    <3> QED BY <3>2, <3>4, <3>5 DEF InStep, Behind
  <2>3. CASE WorkerDies
    BY <1>0, <1>2, <2>3, ProcessEdits DEF WorkerDies
  <2>4. CASE GrowIdle
    <3>1. process' = [process EXCEPT !.idle = TRUE]
      BY <2>4 DEF GrowIdle
    <3>2. /\ process'.inbox = process.inbox /\ process'.lines = process.lines
          /\ process'.alive = process.alive /\ process'.survived = process.survived
          /\ process'.output = process.output
      BY <1>0, <3>1 DEF ProcessType
    <3> QED BY <2>1, <3>2 DEF InStep, Behind, Asking
  <2>5. CASE BackoffEnds
    BY <1>1, <2>1, <2>5 DEF BackoffEnds
  <2>6. CASE WorkerCloses
    <3>1. process' = [process EXCEPT !.output = "ended"]
      BY <2>6 DEF WorkerCloses
    <3>2. /\ process'.lines = process.lines /\ process'.output = "ended"
          /\ process'.alive = process.alive /\ process'.survived = process.survived
      BY <1>0, <3>1 DEF ProcessType
    <3> QED BY <2>1, <3>2 DEF InStep, Asking
  <2> QED BY <1>7, <2>2, <2>3, <2>4, <2>5, <2>6 DEF Environment
<1>8. CASE UNCHANGED vars
  BY <1>1, <1>8 DEF vars
<1> QED BY <1>3, <1>4, <1>5, <1>6, <1>7, <1>8 DEF Next

(* RepliesInStep counts who asks; only the holder of _lock does.              *)
LEMMA RepliesCounted == TypeOK /\ InStep => RepliesInStep
<1> DEFINE asking == Cardinality({t \in Threads : stage[t] = "asking"})
<1> SUFFICES ASSUME TypeOK, InStep, process.alive, ~process.survived
             PROVE  process.lines <= asking /\ (process.output = "open" => Behind = asking)
  BY DEF RepliesInStep
<1>1. CASE Asking
  <2>1. PICK t \in Threads : stage[t] = "asking"
    BY <1>1 DEF Asking
  <2>2. {u \in Threads : stage[u] = "asking"} = {t}
    BY <2>1 DEF TypeOK
  <2>3. Cardinality({t}) = 1
    BY FS_Singleton
  <2> QED BY <1>1, <2>2, <2>3 DEF InStep
<1>2. CASE ~Asking
  <2>1. {t \in Threads : stage[t] = "asking"} = {}
    BY <1>2 DEF Asking
  <2>2. asking = 0
    BY <2>1, FS_EmptySet
  <2> QED BY <1>2, <2>2 DEF InStep
<1> QED BY <1>1, <1>2

-----------------------------------------------------------------------------
(* The registry.                                                              *)
LEMMA StepRegistry ==
  ASSUME TypeOK, RegistryKept, [Next]_vars
  PROVE  RegistryKept'
<1> USE WorkerAssumption DEF EveryLiveWorkerListedUnlessRaced, callVars, registryVars, sweepVars
<1>0. /\ process \in ProcessType /\ stage \in [Threads -> Stages] /\ Stopper \in Threads
      /\ reaper.mine \in Nat /\ stopping \in Nat /\ process.number \in Nat
  BY ProcessFields DEF TypeOK, Threads, Spawns
(* A step that spawns nothing and takes nothing off the registry.            *)
<1>1. ASSUME process'.number = process.number, process'.alive => process.alive,
             UNCHANGED <<reaper, stopping, raced>>,
             listed \/ held => listed' \/ held',
             stage'[Stopper] = "discard" => stage[Stopper] = "discard"
      PROVE  RegistryKept'
  BY <1>0, <1>1 DEF RegistryKept
<1>2. ASSUME NEW t \in Callers, GatedStep(t) PROVE RegistryKept'
  <2>1. UNCHANGED <<process, sweepVars, registryVars>> /\ \E s \in Stages : stage' = [stage EXCEPT ![t] = s]
    BY <1>2 DEF GatedStep, Call, PassLatch, GiveUp, TakeLock, LookClosed, TurnTaken, NotAdmitted,
                Admit, SelectMember, Record, OutcomeRecorded, Goto, Stages, GatedCall
  <2> QED BY <1>0, <1>1, <2>1
<1>3. ASSUME NEW t \in Threads, Request(t) PROVE RegistryKept'
  <2>1. UNCHANGED <<sweepVars, held>> /\ \E s \in Stages \ {"discard"} : stage' = [stage EXCEPT ![t] = s]
    BY <1>3 DEF Request, TakeLockUngated, Begin, StartFails, ReadReply, ReadEnd, Deadline,
                Answered, Goto, Stages, GatedCall
  <2>2. stage'[Stopper] = "discard" => stage[Stopper] = "discard"
    BY <1>0, <2>1
  <2>3. CASE Begin(t) /\ ~process.alive
    <3>1. /\ process' = [NoProcess EXCEPT !.number = process.number + 1, !.alive = TRUE, !.inbox = 1]
          /\ process.number < MaxSpawns /\ listed'
      BY <2>3 DEF Begin
    <3>2. process'.number = process.number + 1
      BY <1>0, <3>1, SpawnEdit
    <3> QED BY <1>0, <2>1, <3>1, <3>2 DEF RegistryKept
  <2>4. CASE Begin(t) /\ process.alive
    <3>1. process' = [process EXCEPT !.inbox = @ + 1, !.idle = FALSE] /\ UNCHANGED <<listed, raced>>
      BY <2>4 DEF Begin
    <3>2. process'.number = process.number
      BY <1>0, <3>1 DEF ProcessType
    <3> QED BY <1>1, <2>1, <2>2, <2>4, <3>1, <3>2
  <2>5. CASE ReadReply(t)
    <3>1. /\ process.lines > 0 /\ process' = [process EXCEPT !.lines = @ - 1, !.idle = FALSE]
          /\ UNCHANGED <<listed, raced>>
      BY <2>5 DEF ReadReply, Answered
    <3>2. process'.number = process.number /\ process'.alive = process.alive
      BY <1>0, <3>1, ReadEdit
    <3> QED BY <1>1, <2>1, <2>2, <3>1, <3>2
  <2>6. CASE TakeLockUngated(t) \/ StartFails(t) \/ Deadline(t)
    <3>1. (UNCHANGED process \/ process' \in {Killed, Survives}) /\ UNCHANGED <<listed, raced>>
      BY <2>6 DEF TakeLockUngated, StartFails, Deadline, Answered
    <3>2. process'.number = process.number /\ (process'.alive => process.alive)
      BY <1>0, <3>1, ProcessEdits
    <3> QED BY <1>1, <2>1, <2>2, <3>1, <3>2
  <2>7. CASE ReadEnd(t)
    <3>1. process' = [process EXCEPT !.output = "read", !.idle = FALSE] /\ UNCHANGED <<listed, raced>>
      BY <2>7 DEF ReadEnd, Answered
    <3>2. process'.number = process.number /\ process'.alive = process.alive
      BY <1>0, <3>1, EndEdit
    <3> QED BY <1>1, <2>1, <2>2, <3>1, <3>2
  <2> QED BY <1>3, <2>3, <2>4, <2>5, <2>6, <2>7 DEF Request
<1>4. ASSUME Stop PROVE RegistryKept'
  <2>1. CASE Close
    <3>1. UNCHANGED <<process, sweepVars, registryVars>> /\ stage' = [stage EXCEPT ![Stopper] = "closing"]
      BY <2>1 DEF Close, Goto
    <3> QED BY <1>0, <1>1, <3>1
  <2>2. CASE WakeWaiters
    <3>1. /\ UNCHANGED <<process, registryVars, reaper>> /\ stopping' = process.number
          /\ stage' = [stage EXCEPT ![Stopper] = IF process.alive THEN "queued" ELSE "discard"]
      BY <2>2 DEF WakeWaiters, Goto
    <3> QED BY <1>0, <3>1 DEF RegistryKept
  <2>3. CASE EndStopped
    <3>1. /\ UNCHANGED <<sweepVars, registryVars>> /\ stage' = [stage EXCEPT ![Stopper] = "leaving"]
          /\ UNCHANGED process \/ process' \in {Killed, Survives}
      BY <2>3 DEF EndStopped, Goto
    <3>2. process'.number = process.number /\ (process'.alive => process.alive)
      BY <1>0, <3>1, ProcessEdits
    <3> QED BY <1>0, <1>1, <3>1, <3>2
  <2>4. CASE LeaveRegistry
    <3>1. CASE process.number = stopping /\ ~process.alive
      <4>1. /\ UNCHANGED <<process, sweepVars, registryVars>>
            /\ stage' = [stage EXCEPT ![Stopper] = "discard"]
        BY <2>4, <3>1 DEF LeaveRegistry, Goto
      <4> QED BY <1>0, <3>1, <4>1 DEF RegistryKept
    <3>2. CASE ~(process.number = stopping /\ ~process.alive)
      <4>1. /\ UNCHANGED <<process, sweepVars, listed, raced>> /\ (held => held')
            /\ stage' = [stage EXCEPT ![Stopper] = "done"]
        BY <2>4, <3>2 DEF LeaveRegistry, Retain, Goto
      <4> QED BY <1>0, <1>1, <4>1
    <3> QED BY <3>1, <3>2
  <2>5. CASE StopDeregisters
    <3>1. /\ UNCHANGED <<process, sweepVars>> /\ stage[Stopper] = "discard"
          /\ stage' = [stage EXCEPT ![Stopper] = "done"]
          /\ process.alive /\ process.number # stopping => raced'
      BY <2>5 DEF StopDeregisters, Deregister, Goto
    <3> QED BY <1>0, <3>1 DEF RegistryKept
  <2> QED BY <1>4, <2>1, <2>2, <2>3, <2>4, <2>5 DEF Stop
<1>5. ASSUME Sweep PROVE RegistryKept'
  <2>1. UNCHANGED <<stage, stopping>>
    BY <1>5 DEF Sweep, SweepLooks, SweepTries, SweepSpares, SweepEnds, SweepRetains, SweepDeregisters
  <2>2. CASE SweepLooks
    <3>1. /\ UNCHANGED <<process, registryVars>>
          /\ reaper' = [stage |-> IF process.alive THEN "trying" ELSE "discard", mine |-> process.number]
      BY <2>2 DEF SweepLooks
    <3> QED BY <1>0, <2>1, <3>1 DEF RegistryKept
  <2>3. CASE SweepTries \/ SweepSpares
    <3>1. /\ UNCHANGED <<process, registryVars>>
          /\ reaper' = AtRest \/ reaper' = [reaper EXCEPT !.stage = "turn"]
      BY <2>3 DEF SweepTries, SweepSpares
    <3>2. reaper'.stage # "discard" /\ (reaper'.mine = reaper.mine \/ reaper'.mine = 0)
      BY <3>1 DEF AtRest, TypeOK
    <3> QED BY <1>0, <2>1, <3>1, <3>2 DEF RegistryKept
  <2>4. CASE SweepEnds
    <3>1. /\ UNCHANGED registryVars
          /\ \/ process' = Killed /\ reaper' = [reaper EXCEPT !.stage = "discard"]
             \/ process' = Survives /\ reaper' = [reaper EXCEPT !.stage = "retain"]
      BY <2>4 DEF SweepEnds
    <3>2. reaper'.mine = reaper.mine /\ (reaper'.stage = "discard" => process' = Killed)
      BY <3>1 DEF TypeOK
    <3>3. process'.number = process.number /\ (process'.alive => process.alive)
      BY <1>0, <3>1, ProcessEdits
    <3> QED BY <1>0, <2>1, <3>1, <3>2, <3>3, ProcessEdits DEF RegistryKept
  <2>5. CASE SweepRetains
    <3>1. UNCHANGED <<process, listed, raced>> /\ held' /\ reaper' = AtRest
      BY <2>5 DEF SweepRetains, Retain
    <3> QED BY <1>0, <2>1, <3>1 DEF RegistryKept, AtRest
  <2>6. CASE SweepDeregisters
    <3>1. /\ UNCHANGED process /\ reaper.stage = "discard" /\ reaper' = AtRest
          /\ process.alive /\ process.number # reaper.mine => raced'
      BY <2>6 DEF SweepDeregisters, Deregister
    <3> QED BY <1>0, <2>1, <3>1 DEF RegistryKept, AtRest
  <2> QED BY <1>5, <2>2, <2>3, <2>4, <2>5, <2>6 DEF Sweep
<1>6. ASSUME Environment PROVE RegistryKept'
  <2>1. UNCHANGED <<stage, registryVars, sweepVars>>
    BY <1>6 DEF Environment, WorkerAnswers, WorkerCloses, WorkerDies, GrowIdle, BackoffEnds
  <2>2. process'.number = process.number /\ (process'.alive => process.alive)
    <3>1. \/ process' = [process EXCEPT !.inbox = @ - 1, !.lines = @ + 1]
          \/ process' = [process EXCEPT !.output = "ended"]
          \/ process' = Killed \/ process' = [process EXCEPT !.idle = TRUE]
          \/ UNCHANGED process
      BY <1>6 DEF Environment, WorkerAnswers, WorkerCloses, WorkerDies, GrowIdle, BackoffEnds
    <3> QED BY <1>0, <3>1, ProcessEdits DEF ProcessType
  <2> QED BY <1>1, <2>1, <2>2
<1>7. CASE UNCHANGED vars
  BY <1>1, <1>7 DEF vars
<1> QED BY <1>2, <1>3, <1>4, <1>5, <1>6, <1>7 DEF Next

-----------------------------------------------------------------------------
(* The sweep.                                                                 *)
Sparing ==
  reaper # reaper' /\ process.alive /\ ~process'.alive =>
    \A t \in Threads : stage[t] \notin {"starting", "asking"}

LEMMA StepSpares ==
  ASSUME TypeOK, [Next]_vars
  PROVE  Sparing
<1>1. CASE SweepEnds
  <2>1. lock = Reaper /\ Reaper \notin Threads
    BY <1>1, WorkerAssumption DEF TypeOK, SweepEnds, Threads
  <2> QED BY <2>1 DEF Sparing, TypeOK
<1>2. CASE Sweep /\ ~SweepEnds
  <2>1. UNCHANGED process
    BY <1>2 DEF Sweep, SweepLooks, SweepTries, SweepSpares, SweepRetains, SweepDeregisters
  <2> QED BY <2>1 DEF Sparing
<1>3. CASE ~Sweep
  <2>1. UNCHANGED reaper
    <3>1. ASSUME NEW t \in Callers, GatedStep(t) PROVE UNCHANGED reaper
      BY <3>1 DEF GatedStep, Call, PassLatch, GiveUp, TakeLock, LookClosed, TurnTaken,
                  NotAdmitted, Admit, SelectMember, Record, OutcomeRecorded, sweepVars
    <3>2. ASSUME NEW t \in Threads, Request(t) PROVE UNCHANGED reaper
      BY <3>2 DEF Request, TakeLockUngated, Begin, StartFails, ReadReply, ReadEnd, Deadline,
                  Answered, sweepVars
    <3>3. ASSUME Stop PROVE UNCHANGED reaper
      BY <3>3 DEF Stop, Close, WakeWaiters, EndStopped, LeaveRegistry, StopDeregisters, sweepVars
    <3>4. ASSUME Environment \/ UNCHANGED vars PROVE UNCHANGED reaper
      BY <3>4 DEF Environment, WorkerAnswers, WorkerCloses, WorkerDies, GrowIdle, BackoffEnds, sweepVars, vars
    <3> QED BY <1>3, <3>1, <3>2, <3>3, <3>4 DEF Next
  <2> QED BY <2>1 DEF Sparing
<1> QED BY <1>1, <1>2, <1>3 DEF Sweep

-----------------------------------------------------------------------------
(* The type invariant of the worker client (worker.py: _lock, _outcome_latch, *)
(* the process and its pipes): _lock is held exactly by the thread that is in *)
(* a step written under it, however many threads share the client.            *)
THEOREM Typing == Spec => []TypeOK
<1>1. Init => TypeOK /\ Headroom
  BY InitWorker
<1>2. TypeOK /\ Headroom /\ [Next]_vars => TypeOK' /\ Headroom'
  BY StepType
<1> QED BY <1>1, <1>2, PTL DEF Spec

(* A gated request is sent only when the outcome of the one before it is      *)
(* recorded, until the client is stopped (_acquire_gated, outcome_recorded).  *)
THEOREM OutcomesInTurn == Spec => []OneOutcomeOpenUntilStopped
<1>1. Init => GateKept
  BY InitWorker
<1>2. TypeOK /\ GateKept /\ [Next]_vars => GateKept'
  BY StepGate
<1>3. TypeOK /\ GateKept => OneOutcomeOpenUntilStopped
  BY GateCounts
<1> QED BY <1>1, <1>2, <1>3, Typing, PTL DEF Spec

(* The gate is never shut for good: some call on its way to outcome_recorded  *)
(* is the one that may open it (_acquire_gated, outcome_recorded, stop).      *)
THEOREM GateReopens == Spec => []ShutGateHasKeeper
<1>1. Init => GateKept
  BY InitWorker
<1>2. TypeOK /\ GateKept /\ [Next]_vars => GateKept'
  BY StepGate
<1>3. TypeOK /\ GateKept => ShutGateHasKeeper
  BY GateCounts
<1> QED BY <1>1, <1>2, <1>3, Typing, PTL DEF Spec

(* A process on which no kill failed owes one reply while it is asked, and    *)
(* none otherwise: a late reply is never read as another request's (request,  *)
(* _kill_worker).                                                             *)
THEOREM RepliesMatch == Spec => []RepliesInStep
<1>1. Init => TypeOK /\ Headroom /\ InStep
  BY InitWorker
<1>2. TypeOK /\ Headroom /\ InStep /\ [Next]_vars => TypeOK' /\ Headroom' /\ InStep'
  BY StepType, StepReplies
<1>3. TypeOK /\ InStep => RepliesInStep
  BY RepliesCounted
<1> QED BY <1>1, <1>2, <1>3, PTL DEF Spec

(* A running worker is where a sweep can find it, unless a deregistration was *)
(* meant for an older process (start, _deregister, stop_if_idle, stop).       *)
THEOREM LiveWorkersListed == Spec => []EveryLiveWorkerListedUnlessRaced
<1>1. Init => RegistryKept
  BY InitWorker
<1>2. TypeOK /\ RegistryKept /\ [Next]_vars => RegistryKept'
  BY StepRegistry
<1>3. RegistryKept => EveryLiveWorkerListedUnlessRaced
  BY DEF RegistryKept
<1> QED BY <1>1, <1>2, <1>3, Typing, PTL DEF Spec

(* The sweep never ends a process that a request is about to write to or is   *)
(* waiting for (stop_if_idle).                                                *)
THEOREM SweepsSpare == Spec => SweepSparesRequests
<1>1. TypeOK /\ [Next]_vars => Sparing
  BY StepSpares
<1> QED BY <1>1, Typing, PTL DEF Spec, SweepSparesRequests, Sparing
==============================================================================
