-------------------------- MODULE RefreshDispatcher --------------------------
(***************************************************************************)
(* Native media server refreshes (media_servers/dispatcher.py) for one     *)
(* destination: its saved configuration, the queue of videos whose         *)
(* subtitles changed, the one worker thread that drains it, and the        *)
(* requests that retry the queue or rescan every library                   *)
(* (media_servers/libraries.py).  Destinations share no queue.             *)
(*                                                                         *)
(* The queue is changed under RefreshDispatcher.condition; the worker talks *)
(* to the server outside it.  Each step of the worker between two lock      *)
(* regions is a step of its own.                                            *)
(***************************************************************************)
EXTENDS Naturals, FiniteSets, Sequences, SequencesExt, Functions

CONSTANTS
  Videos,          \* keys of a queue: (media type, video path, arr instance)
  Libraries,       \* the libraries the library rung asks for
  PendingLimit,    \* PENDING_LIMIT
  Rescanners,      \* requests for refresh_libraries
  NoVideo, NoLibrary,
  MaxRevision,     \* bound on the revision of the saved configuration
  MaxPublications, \* bound on the publications a destination has taken
  MaxGeneration,   \* bound on the generation of a target whose subtitle is moved
  MaxDropped       \* bound on the publications its full queue refused

ASSUME RefreshAssumption ==
  /\ NoVideo \notin Videos /\ NoLibrary \notin Libraries
  /\ IsFiniteSet(Libraries) /\ Libraries # {}
  /\ PendingLimit \in Nat /\ MaxPublications \in Nat /\ MaxGeneration \in Nat /\ MaxDropped \in Nat
  /\ MaxRevision \in Nat \ {0}

Revisions == 1..MaxRevision
Counts == 0..MaxPublications
Places == {"beside", "outside"}  \* of a subtitle: beside its video, or where Silo does not look
Shown == {"idle", "pending", "requested", "unconfirmed"}
AtWork == {"picked", "climbing", "library", "asking", "answered", "failed"}

VARIABLES
  config,    \* NativeConfiguration.snapshots[id]
  server,    \* _ServerState without its targets, worker and error code
  order,     \* keys of _ServerState.targets, in the order of insertion
  target,    \* target[v]: its _Target, while v is in order
  worker,    \* the drain thread, with the locals of _run and _refresh
  scanned,   \* _run's memo: publications when the library was recorded, 0 if absent
  rescan,    \* rescan[r]: a request inside refresh_libraries; its overtaken is history:
             \* another request cleared the count of drops since this one read it
  disk,      \* disk[v]: the subtitle of v that was published outside
  asked,     \* history: asked[v][lib], the revision at which lib was last asked for, or
             \* found not to be there, since v last changed, 0 if it was not
  owedFor    \* history: what v's last change was

vars == <<config, server, order, target, worker, scanned, rescan, disk, asked, owedFor>>
historyVars == <<asked, owedFor>>

NewServer(revision) ==
  [known |-> TRUE, revision |-> revision, state |-> "idle", dropped |-> 0, publications |-> 0]
Unknown == [NewServer(1) EXCEPT !.known = FALSE]
NewTarget(place) ==
  [event |-> place, unsupported |-> place = "outside", generation |-> 1, ready |-> TRUE]
NoTargets == [v \in Videos |-> NewTarget("beside")]
NothingScanned == [lib \in Libraries |-> 0]
NoWorker ==
  [phase |-> "none", video |-> NoVideo, event |-> "beside", generation |-> 1, revision |-> 1,
   publications |-> 0, left |-> {}, recorded |-> {}, asking |-> NoLibrary, refused |-> FALSE]
Draining == [NoWorker EXCEPT !.phase = "drain"]
NoRescan ==
  [active |-> FALSE, revision |-> 1, dropped |-> 0, left |-> {}, requested |-> FALSE,
   refused |-> FALSE, overtaken |-> FALSE]

Queued == {order[i] : i \in DOMAIN order}
InQueue(v) == v \in Queued
Owes(v) == \E lib \in Libraries : asked[v][lib] = 0

(* The type invariant; the queue holds a video once, and PendingLimit videos. *)
TypeOK ==
  /\ config \in [exists : BOOLEAN, enabled : BOOLEAN, revision : Revisions]
  /\ server \in [known : BOOLEAN, revision : Revisions, state : Shown,
                 dropped : 0..MaxDropped, publications : Counts]
  /\ order \in Seq(Videos) /\ Len(order) <= PendingLimit /\ IsInjective(order)
  /\ target \in [Videos -> [event : Places, unsupported : BOOLEAN,
                            generation : Nat \ {0}, ready : BOOLEAN]]
  /\ worker \in [phase : {"none", "drain"} \cup AtWork, video : Videos \cup {NoVideo},
                 event : Places, generation : Nat \ {0}, revision : Revisions,
                 publications : Counts, left : SUBSET Libraries, recorded : SUBSET Libraries,
                 asking : Libraries \cup {NoLibrary}, refused : BOOLEAN]
  /\ worker.phase \in AtWork => worker.video \in Videos
  /\ scanned \in [Libraries -> Counts]
  /\ rescan \in [Rescanners -> [active : BOOLEAN, revision : Revisions, dropped : 0..MaxDropped,
                                left : SUBSET Libraries, requested : BOOLEAN,
                                refused : BOOLEAN, overtaken : BOOLEAN]]
  /\ disk \in [Videos -> Places \cup {"moved"}]
  /\ asked \in [Videos -> [Libraries -> 0..MaxRevision]]
  /\ owedFor \in [Videos -> {"publication", "drop", "move"}]

Init ==
  /\ config = [exists |-> TRUE, enabled |-> TRUE, revision |-> 1]
  /\ server = Unknown /\ order = <<>>
  /\ target = NoTargets /\ worker = NoWorker /\ scanned = NothingScanned
  /\ rescan = [r \in Rescanners |-> NoRescan]
  /\ disk = [v \in Videos |-> "beside"]
  /\ asked = [v \in Videos |-> [lib \in Libraries |-> 1]]
  /\ owedFor = [v \in Videos |-> "publication"]

-----------------------------------------------------------------------------
(* The saved configuration: NativeConfiguration.                            *)

(* publish, or publish_masters for the destination's kind.                  *)
Edit(enabled) ==
  /\ config.exists /\ config.revision < MaxRevision
  /\ config' = [config EXCEPT !.enabled = enabled, !.revision = @ + 1]
  /\ UNCHANGED <<server, order, target, worker, scanned, rescan, disk, historyVars>>

(* delete; the identifier of a destination is never used again.             *)
Delete ==
  /\ config.exists
  /\ config' = [config EXCEPT !.exists = FALSE]
  /\ UNCHANGED <<server, order, target, worker, scanned, rescan, disk, historyVars>>

(* ensure_current                                                           *)
Current(revision) == config.exists /\ config.enabled /\ config.revision = revision

-----------------------------------------------------------------------------
(* The queue.                                                               *)

(* _server and _connection: every visit first adopts a new revision.         *)
Synced ==
  IF ~server.known THEN NewServer(config.revision)
  ELSE IF server.revision = config.revision THEN server
  ELSE [server EXCEPT !.revision = config.revision,
                      !.state = IF order = <<>> THEN "idle" ELSE "unconfirmed"]

(* Mutant: only an idle destination gets a worker.                           *)
StartWhenIdle(next, queue, targets) ==
  IF worker.phase = "none" /\ next.state = "idle" /\ queue # <<>>
  THEN server' = [next EXCEPT !.state = "pending"] /\ worker' = Draining
  ELSE server' = next /\ UNCHANGED worker

(* _start, on the server and the targets a visit leaves.                     *)
Start(next, queue, targets) ==
  IF worker.phase = "none" /\ \E i \in DOMAIN queue : targets[queue[i]].ready
  THEN server' = [next EXCEPT !.state = "pending"] /\ worker' = Draining
  ELSE server' = next /\ UNCHANGED worker

Changed(v, why) ==
  /\ asked' = [asked EXCEPT ![v] = [lib \in Libraries |-> 0]]
  /\ owedFor' = [owedFor EXCEPT ![v] = why]

(* notify: what every publication that this destination takes goes through.  *)
Notify == config.exists /\ config.enabled /\ UNCHANGED <<config, scanned, rescan>>

NotifyQueued(v) ==
  /\ Notify /\ InQueue(v) /\ Synced.publications < MaxPublications
  /\ target' = [target EXCEPT ![v].event = "beside", ![v].generation = @ + 1, ![v].ready = TRUE]
  /\ Start([Synced EXCEPT !.publications = @ + 1], order, target')
  /\ Changed(v, "publication")
  /\ UNCHANGED <<order, disk>>

(* One representative of the unsupported publications is kept, and nothing  *)
(* is made ready for it.                                                     *)
NotifyUnsupported(v) ==
  /\ Notify /\ InQueue(v)
  /\ target' = [target EXCEPT ![v].unsupported = TRUE]
  /\ Start(Synced, order, target')
  /\ disk' = [disk EXCEPT ![v] = "outside"]
  /\ UNCHANGED <<order, historyVars>>

(* Mutant: the queue takes one video more than PENDING_LIMIT.                *)
HasRoomForOneMore == Len(order) <= PendingLimit
HasRoom == Len(order) < PendingLimit

NotifyNew(v, place) ==
  /\ Notify /\ ~InQueue(v)
  /\ HasRoom /\ Synced.publications < MaxPublications
  /\ order' = Append(order, v)
  /\ target' = [target EXCEPT ![v] = NewTarget(place)]
  /\ Start([Synced EXCEPT !.publications = @ + 1], order', target')
  /\ IF place = "outside"
     THEN disk' = [disk EXCEPT ![v] = "outside"] /\ UNCHANGED historyVars
     ELSE Changed(v, "publication") /\ UNCHANGED disk

NotifyOverflow(v) ==
  /\ Notify /\ ~InQueue(v)
  /\ ~HasRoom /\ Synced.dropped < MaxDropped
  /\ server' = [Synced EXCEPT !.dropped = @ + 1]
  /\ Changed(v, "drop")
  /\ UNCHANGED <<order, target, worker, disk>>

(* _prune_deleted, by a publication for any destination.                     *)
Prune ==
  /\ ~config.exists /\ server.known
  /\ server' = Unknown /\ order' = <<>> /\ target' = NoTargets
  /\ UNCHANGED <<config, worker, scanned, rescan, disk, historyVars>>

(* status, and a publication this destination does not take.                 *)
Status ==
  /\ config.exists
  /\ server' = Synced
  /\ UNCHANGED <<config, order, target, worker, scanned, rescan, disk, historyVars>>

(* _relocated: the misplaced subtitle now sits beside its video.             *)
Moved(v) == target[v].unsupported /\ disk[v] = "moved"
Requeued(t) == [t EXCEPT !.event = "beside", !.unsupported = FALSE,
                         !.generation = @ + 1, !.ready = TRUE]

Retry ==
  /\ config.exists /\ config.enabled /\ Synced.publications < MaxPublications
  /\ target' = [v \in Videos |->
       IF v \notin Queued THEN target[v]
       ELSE IF Moved(v) THEN Requeued(target[v]) ELSE [target[v] EXCEPT !.ready = TRUE]]
  /\ disk' = [v \in Videos |-> IF v \in Queued /\ Moved(v) THEN "beside" ELSE disk[v]]
  /\ Start([Synced EXCEPT !.publications = @ + 1], order, target')
  /\ UNCHANGED <<config, order, scanned, rescan, historyVars>>

(* The user moves the subtitle of a warning; that publishes nothing.         *)
MoveSubtitle(v) ==
  /\ disk[v] = "outside" /\ target[v].unsupported
  /\ target[v].generation < MaxGeneration
  /\ disk' = [disk EXCEPT ![v] = "moved"]
  /\ IF Owes(v) THEN UNCHANGED historyVars ELSE Changed(v, "move")
  /\ UNCHANGED <<config, server, order, target, worker, scanned, rescan>>

-----------------------------------------------------------------------------
(* The worker: _run, and _refresh with the ladder of one target.             *)

FirstReady(v) ==
  \E i \in DOMAIN order :
    order[i] = v /\ target[v].ready /\ \A k \in 1..(i - 1) : ~target[order[k]].ready
NoneReady == \A v \in Queued : ~target[v].ready

(* Mutant: the worker leaves the state as its last target left it.           *)
LeftStateAsIs == Synced.state
LeftState == IF order = <<>> THEN Synced.state ELSE "unconfirmed"

(* The destination was deleted, or nothing is ready, or it is switched off.  *)
WorkerLeaves ==
  /\ worker.phase = "drain"
  /\ \/ /\ ~config.exists
        /\ server' = Unknown /\ order' = <<>> /\ target' = NoTargets
     \/ /\ config.exists /\ (NoneReady \/ ~config.enabled)
        /\ server' = [Synced EXCEPT !.state = LeftState]
        /\ UNCHANGED <<order, target>>
  /\ worker' = NoWorker /\ scanned' = NothingScanned
  /\ UNCHANGED <<config, rescan, disk, historyVars>>

WorkerPicks ==
  /\ worker.phase = "drain" /\ config.exists /\ config.enabled
  /\ \E v \in Queued :
         /\ FirstReady(v)
         /\ worker' = [NoWorker EXCEPT
              !.phase = "picked", !.video = v, !.event = target[v].event,
              !.generation = target[v].generation, !.revision = config.revision,
              !.publications = Synced.publications, !.left = Libraries]
         /\ target' = [target EXCEPT ![v].ready = FALSE]
  /\ server' = [Synced EXCEPT !.state = "pending"]
  /\ UNCHANGED <<config, order, scanned, rescan, disk, historyVars>>

AtServer(phase) ==
  /\ worker.phase = phase
  /\ UNCHANGED <<config, server, order, target, rescan, disk>>

(* Everything _refresh does before its ladder; a subtitle outside its video's *)
(* folder fails here (sidecar_unsupported).                                   *)
WorkerClimbs ==
  /\ AtServer("picked") /\ worker.event = "beside" /\ Current(worker.revision)
  /\ worker' = [worker EXCEPT !.phase = "climbing"]
  /\ UNCHANGED <<scanned, historyVars>>

(* One of the rungs for a single item is accepted, or they all miss.          *)
ItemAccepted ==
  /\ AtServer("climbing")
  /\ asked' = [asked EXCEPT ![worker.video] = [lib \in Libraries |-> worker.revision]]
  /\ worker' = [worker EXCEPT !.phase = "answered"]
  /\ UNCHANGED <<scanned, owedFor>>

ItemMissed ==
  /\ AtServer("climbing")
  /\ worker' = [worker EXCEPT !.phase = "library"]
  /\ UNCHANGED <<scanned, historyVars>>

(* Mutant: one scan per drain, whatever was published since.                  *)
AlreadyRequestedEver(lib) == scanned[lib] # 0

(* already_requested of _coalescer.                                           *)
AlreadyRequested(lib) == scanned[lib] = worker.publications

ScanSuppressed(lib) ==
  /\ AtServer("library") /\ lib \in worker.left /\ AlreadyRequested(lib)
  /\ worker' = [worker EXCEPT !.left = @ \ {lib}]
  /\ UNCHANGED <<scanned, historyVars>>

(* The library is recorded, and the guard passed, before the request is sent. *)
ScanRecorded(lib) ==
  /\ AtServer("library") /\ lib \in worker.left /\ ~AlreadyRequested(lib)
  /\ Current(worker.revision)
  /\ scanned' = [scanned EXCEPT ![lib] = worker.publications]
  /\ worker' = [worker EXCEPT !.phase = "asking", !.asking = lib, !.recorded = @ \cup {lib}]
  /\ UNCHANGED historyVars

ScanAsked(lib, revision) ==
  asked' = [v \in Videos |-> [asked[v] EXCEPT ![lib] = revision]]

ScanAccepted ==
  /\ AtServer("asking")
  /\ ScanAsked(worker.asking, worker.revision)
  /\ worker' = [worker EXCEPT !.phase = "library", !.asking = NoLibrary,
                              !.left = @ \ {worker.asking}]
  /\ UNCHANGED <<scanned, owedFor>>

(* One library's refusal does not stop the ones after it (Jellyfin, Plex).    *)
ScanRefused ==
  /\ AtServer("asking")
  /\ worker' = [worker EXCEPT !.phase = "library", !.asking = NoLibrary,
                              !.left = @ \ {worker.asking}, !.refused = TRUE]
  /\ UNCHANGED <<scanned, historyVars>>

LibrariesAsked ==
  /\ AtServer("library") /\ worker.left = {} /\ ~worker.refused /\ Current(worker.revision)
  /\ worker' = [worker EXCEPT !.phase = "answered"]
  /\ UNCHANGED <<scanned, historyVars>>

(* forget of _coalescer.                                                      *)
Forget ==
  scanned' = [lib \in Libraries |-> IF lib \in worker.recorded THEN 0 ELSE scanned[lib]]

(* A guard, a refusal, a timeout or a fault ends the refresh.                 *)
RefreshFails ==
  /\ \E phase \in AtWork \ {"failed"} : AtServer(phase)
  /\ Forget
  /\ worker' = [worker EXCEPT !.phase = "failed"]
  /\ UNCHANGED historyVars

TakeOut(v) ==
  /\ \E i \in DOMAIN order : order[i] = v /\ order' = RemoveAt(order, i)
  /\ target' = [target EXCEPT ![v] = NewTarget("beside")]

(* The second lock region of _run.                                            *)
Settle(state) ==
  /\ worker.phase \in {"answered", "failed"} /\ server.known
  /\ server' = [server EXCEPT !.state = state]
  /\ worker' = Draining
  /\ UNCHANGED <<config, scanned, rescan, historyVars>>

Succeeded == worker.phase = "answered" /\ Current(worker.revision)

UnchangedSince == target[worker.video].generation = worker.generation

SettleCovered ==
  /\ Succeeded /\ UnchangedSince /\ ~target[worker.video].unsupported
  /\ TakeOut(worker.video) /\ Settle("requested") /\ UNCHANGED disk

SettleRequeues ==
  /\ Succeeded /\ UnchangedSince /\ Moved(worker.video)
  /\ target' = [target EXCEPT ![worker.video] = Requeued(@)]
  /\ disk' = [disk EXCEPT ![worker.video] = "beside"]
  /\ Settle("requested") /\ UNCHANGED order

(* Mutant: the scan also settles the warning of a misplaced subtitle.         *)
SettleDropsWarning ==
  /\ Succeeded /\ UnchangedSince
  /\ target[worker.video].unsupported /\ ~Moved(worker.video)
  /\ TakeOut(worker.video) /\ Settle("requested") /\ UNCHANGED disk

SettleKeepsWarning ==
  /\ Succeeded /\ UnchangedSince
  /\ target[worker.video].unsupported /\ ~Moved(worker.video)
  /\ target' = [target EXCEPT ![worker.video].event = "outside"]
  /\ Settle("unconfirmed") /\ UNCHANGED <<order, disk>>

SettleRepublished ==
  /\ Succeeded /\ ~UnchangedSince
  /\ Settle("requested") /\ UNCHANGED <<order, target, disk>>

SettleFailed ==
  /\ ~Succeeded
  /\ Settle("unconfirmed") /\ UNCHANGED <<order, target, disk>>

(* The state was pruned while the server was asked.                           *)
SettleGone ==
  /\ worker.phase \in {"answered", "failed"} /\ ~server.known
  /\ worker' = NoWorker /\ scanned' = NothingScanned
  /\ UNCHANGED <<config, server, order, target, rescan, disk, historyVars>>

-----------------------------------------------------------------------------
(* refresh_libraries: every library is asked to rescan, on request.           *)

RescanBegins(r) ==
  /\ ~rescan[r].active /\ config.exists /\ config.enabled
  /\ rescan' = [rescan EXCEPT ![r] =
       [NoRescan EXCEPT !.active = TRUE, !.revision = config.revision,
                        !.dropped = server.dropped, !.left = Libraries]]
  /\ UNCHANGED <<config, server, order, target, worker, scanned, disk, historyVars>>

RescanAccepted(r, lib) ==
  /\ rescan[r].active /\ lib \in rescan[r].left /\ Current(rescan[r].revision)
  /\ ScanAsked(lib, rescan[r].revision)
  /\ rescan' = [rescan EXCEPT ![r].left = @ \ {lib}, ![r].requested = TRUE]
  /\ UNCHANGED <<config, server, order, target, worker, scanned, disk, owedFor>>

(* The server holds no library for this scope (Emby), which is not a refusal.  *)
RescanMisses(r, lib) ==
  /\ rescan[r].active /\ lib \in rescan[r].left /\ Current(rescan[r].revision)
  /\ ScanAsked(lib, rescan[r].revision)
  /\ rescan' = [rescan EXCEPT ![r].left = @ \ {lib}]
  /\ UNCHANGED <<config, server, order, target, worker, scanned, disk, owedFor>>

RescanRefused(r, lib) ==
  /\ rescan[r].active /\ lib \in rescan[r].left
  /\ rescan' = [rescan EXCEPT ![r].left = @ \ {lib}, ![r].refused = TRUE]
  /\ UNCHANGED <<config, server, order, target, worker, scanned, disk, historyVars>>

(* The guard refuses, the server is unreachable, or nothing was accepted.      *)
RescanStops(r) ==
  /\ rescan[r].active
  /\ rescan' = [rescan EXCEPT ![r] = NoRescan]
  /\ UNCHANGED <<config, server, order, target, worker, scanned, disk, historyVars>>

(* Mutant: a finished rescan covers every drop.                                *)
CoveredAlways(r) == 0
(* covered: what remains of the drops.                                         *)
Covered(r) == IF server.dropped = rescan[r].dropped THEN 0 ELSE server.dropped

Clears(r) == server.dropped > 0 /\ ~rescan[r].refused /\ Covered(r) = 0

RescanEnds(r) ==
  /\ rescan[r].active /\ rescan[r].left = {} /\ rescan[r].requested
  /\ server' = [server EXCEPT !.dropped = IF rescan[r].refused THEN @ ELSE Covered(r)]
  /\ rescan' = [q \in Rescanners |->
       IF q = r THEN NoRescan
       ELSE [rescan[q] EXCEPT !.overtaken = @ \/ (rescan[q].active /\ Clears(r))]]
  /\ UNCHANGED <<config, order, target, worker, scanned, disk, historyVars>>

-----------------------------------------------------------------------------
Queue ==
  \/ \E v \in Videos :
       \/ NotifyQueued(v) \/ NotifyUnsupported(v) \/ NotifyOverflow(v)
       \/ \E place \in Places : NotifyNew(v, place)
       \/ MoveSubtitle(v)
  \/ Prune \/ Status \/ Retry

Drain ==
  \/ WorkerLeaves \/ WorkerPicks \/ WorkerClimbs \/ ItemAccepted \/ ItemMissed
  \/ \E lib \in Libraries : ScanSuppressed(lib) \/ ScanRecorded(lib)
  \/ ScanAccepted \/ ScanRefused \/ LibrariesAsked \/ RefreshFails
  \/ SettleCovered \/ SettleRequeues \/ SettleKeepsWarning
  \/ SettleRepublished \/ SettleFailed \/ SettleGone

Rescan(r) ==
  \/ RescanBegins(r) \/ RescanStops(r) \/ RescanEnds(r)
  \/ \E lib \in Libraries :
       RescanAccepted(r, lib) \/ RescanMisses(r, lib) \/ RescanRefused(r, lib)

Next ==
  \/ Delete \/ \E enabled \in BOOLEAN : Edit(enabled)
  \/ Queue \/ Drain
  \/ \E r \in Rescanners : Rescan(r)

Spec == Init /\ [][Next]_vars

(* The worker thread keeps taking steps; what the server answers, and whether  *)
(* anyone asks again, is left open.                                            *)
FairSpec == Spec /\ WF_vars(Drain)

-----------------------------------------------------------------------------
(* Properties.                                                                 *)

(* A subtitle published to this destination stays in its queue until the       *)
(* server was asked, at some revision, for everything that covers it: what is  *)
(* published during a refresh, or after a scan that a later target relies on,  *)
(* is not dropped with it (notify, _coalescer, _run).                          *)
NoPublicationLost ==
  \A v \in Videos : server.known /\ Owes(v) /\ owedFor[v] = "publication" => InQueue(v)

(* A publication refused by a full queue is reported as queue_overflow until   *)
(* every library was asked for since, and no rescan that began before it takes *)
(* the report away; but one rescan may clear the count that another read, and  *)
(* that other one then mistakes a later drop for its own (dropped, covered).   *)
Unreported(v) == server.known /\ Owes(v) /\ owedFor[v] = "drop" /\ server.dropped = 0
OverflowReported ==
  [][\A v \in Videos :
       Unreported(v)' /\ ~Unreported(v) =>
         \E r \in Rescanners : rescan[r].overtaken /\ RescanEnds(r)]_vars

(* covered says of a mutation dropped while a rescan ran that "the warning     *)
(* stays when any arrived in the meantime".                                    *)
DropsStayReported == \A v \in Videos : ~Unreported(v)

(* A queue that nobody is draining never looks refreshed: status answers       *)
(* "unconfirmed" whenever no worker runs and targets are left.                 *)
Quiet == worker.phase = "none" /\ config.exists /\ server.known
Unconfirmed == Synced.state = "unconfirmed"
QuietIsUnconfirmed == Quiet /\ order # <<>> => Unconfirmed

(* The warning of a subtitle published where the server does not read it       *)
(* outlives every refresh of its video, until the subtitle is moved.           *)
WarningKept ==
  \A v \in Videos : server.known /\ disk[v] = "outside" => InQueue(v) /\ target[v].unsupported

(* A publication is asked for, or left as one to retry, or its destination is  *)
(* deleted: it is never just waited for.                                       *)
PublicationSettles ==
  \A v \in Videos :
    Owes(v) /\ owedFor[v] = "publication" /\ InQueue(v) ~>
      ~Owes(v) \/ (Quiet /\ Unconfirmed) \/ ~config.exists

(* _run says of a subtitle moved during a refresh: "Queue that work instead of *)
(* counting it as covered by the scan just finished."                          *)
MovedSubtitleIsAskedFor ==
  \A v \in Videos : server.known /\ Owes(v) /\ owedFor[v] = "move" => InQueue(v)

(* A target counts as refreshed only if what it relies on was asked of the     *)
(* destination as saved now, not of an earlier one (_coalescer errs "towards   *)
(* one scan too many rather than one too few").                                *)
SavedServerAsked ==
  [][\A v \in Videos :
       InQueue(v) /\ ~InQueue(v)' /\ server'.known =>
         \A lib \in Libraries : asked[v][lib] \in {0, config.revision}]_vars
==============================================================================
