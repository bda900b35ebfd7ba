# Formal models of Bazarr's concurrent core

TLA+ modules, TLC configurations and TLAPS proofs for the parts of Bazarr (this
fork: Provider Hub, native media-server refreshes, keep-all subtitle
synchronisation, Discover, Sportarr) in which several threads share state.
Every module is translated from the Python source under `src/bazarr`; the `map`
of `PROJECT.json` gives the lines each definition stands for.

    tlc -workers 2 -config MCJobsQueueEdited.cfg MCJobsQueue   # one run
    tlapm JobsQueueProofs.tla                                  # the proofs

## 1. The system

Bazarr is one Python process: a Waitress server whose threads serve the API, an
APScheduler thread pool, one consumer thread that starts a thread for each job,
event-stream threads for Sonarr, Radarr and Sportarr, and the subprocesses of the
Provider Hub. They share state in memory, a SQL database and the media folders.
About 86 000 lines of Python are under `src/bazarr`; `src/libs` is vendored, and
of `src/custom_libs` only the provider pool (`subliminal_patch/core.py`) takes
part in the protocols below.

| component | state | operations | interacts with | what is hard | what makes it correct | modelled |
|---|---|---|---|---|---|---|
| Jobs manager, `app/jobs_queue.py` | four deques, inline claims, job records, `_queue_lock` | feed, wait, reserve, run, fail, retry, force-start, cancel, claim inline, move, remove, empty | every producer of work; the scheduler; the editor's stop | half the operations take no lock; the head is looked at, then popped; histories drop entries | capacity, no work twice at once, nothing lost, waiters return | `JobsQueue`, `JobLifecycle` |
| Refresh dispatcher, `media_servers/` | per destination: ordered targets with generations, worker, revision, drop count; per drain: memo of scans | notify, retry, drain, settle, rescan, prune | publications of every job; the saved configuration; the servers | publications during a refresh; a memo that suppresses scans; a bounded queue; edits and deletions under the worker | a publication leaves the queue only when covered; loss is reported; the shown state is honest | `RefreshDispatcher` |
| Provider worker client, `provider_hub/worker.py` | process and pipes, `_lock`, outcome latch, registry sets | gated call, request, deadline and kill, outcome recorded, idle sweep, stop | the pool's threads, the scheduler, a pool rebuild | one thread clears the latch and another waits; lock-free looks at registry and `last_used`; late replies | one outcome open at a time; the gate is never shut for good; replies match requests; no worker unlisted | `ProviderWorker` |
| Subtitle publication, `subtitles/tools/subsync_engines.py`, `subsyncer.py`, `delete.py`, `subtitles/upload.py` | files, revisions per path, locks per path and per video, snapshots | mutate, delete, stage and publish, synchronise with several engines, queue a sync with a snapshot | jobs and API requests on the same subtitle; other programs | an engine works for minutes outside the locks; stats can coincide; outputs become stale | no write undone, no stale result published, outputs follow their source | `SubtitlePublication` |
| Sportarr event stream, `sportarr/sse_client.py`, `connection.py`, `sync/` | pending batch, wake flag, cursor, two threads per client; clients per instance; the owner's sync lock | read, merge, repair, retry, stop; refresh of the manager; sync of a job or webhook | the library's tables, the saved connection | batch swapped while events merge; a failed repair owed again; an old client that still runs beside its successor; syncs that overtake each other | nothing received is forgotten; the library never goes back and converges | `SportarrStream` |
| Discover downloads, `discover/download.py` | flights, abandoned threads, byte-bounded cache, tickets | ask, join, wait, fetch, retire, cache, keep, save | providers, jobs manager, API key, result handles | a provider call cannot be interrupted and returns beside its successor; one cache for copies and for finished downloads | threads, slots and bytes bounded; a request in time keeps its flight; fresh bytes; tickets kept | `DiscoverDownload` |
| Silo scan confirmation, `silo/scans.py` | observed runs, watermark, attempts | handshake, remember an event, submit, decide | Silo's event stream and API, dispatcher | late, lost, repeated, reordered events; scans of others; a request answered by a scan that runs already | only a scan begun after the change confirms it; nothing else makes the client give up | `SiloScan` |
| SignalR feeds, `app/signalr_client.py` | client generation, connection and lifecycle lock, list of extras | fan out, start, retry, connect, stop, restart on an error | instance registry, library sync | a stop, or a later start, at any point of a start; requests that fan out at once; callbacks in a thread that the lock's holder joins | no feed without an owner; every feed can be stopped | `SignalrFeed` |
| Provider Hub packages, `provider_hub/service.py`, `state.py`, `jobs.py`, `venv.py` | installation rows, catalogs, bundles and environments on disk, the list of enabled providers | install, install a local package, update, uninstall, edit, enable; add, remove, refresh a source; reconcile and activate at startup | jobs manager, configuration file, the provider registry | a job takes minutes between what it read and what it records; a stopped job removes files; jobs end with the process and files do not | what runs keeps its row and files; what waits is whole; edits and uninstalls stay; a row's source is where its code came from | `ProviderHub` |
| Activity feed, `app/activity.py` | outcome per job, Run Now marks | note, mark, retain | jobs, scheduler | a mark taken by another execution of the task | an outcome is never downgraded | planned |
| Ownership revisions, `app/ownership_revision.py` | trigger-maintained revision, snapshot | read, refresh | database writers | a snapshot between two commits | a snapshot is of one revision | planned |
| Compatibility API stores, `compat/*`, `utilities/locked_lru.py` | file ids, windows, meter, deny list | put, get, expire | API threads | windows and cached sums | limits hold up to the cache lifetime | later |
| Provider pool, `custom_libs/subliminal_patch/core.py` | providers, discards, backoffs | list, download | workers | admission beside a discard | see worker client | admission and outcome only |
| Translation, `subtitles/tools/translate/` | lane, stop | translate, cancel | jobs manager | stop between two deques | see jobs manager | lane and stop only |
| Search, upgrade, library sync, Arr instances, scheduler, Discover search, configuration, API, user interface | database rows, files | sequential job bodies, SQL, request mapping | all of the above | little shared state of their own | unit-test territory | no (the scheduler only as the idle sweep) |

`PROJECT.json` lists the same components with their files, and under `hazards`
each place where the order of steps of several actors, a stale value or a
failure half-way decides whether the code is right.

## 2. Conventions

A step of a model is one access to shared state that another thread can fall
between, or one whole region under a lock when every other access takes the same
lock. Constants starting with `Max` are bounds of the checks, not of the code;
everything else is a value the code has. History variables (`disturbed`, `asked`,
`owedFor`, `raced`, `derived`, `excused`, `touched`, `slipped`, `wanted`, `sees`, `origin`, `overtaken`, `gone`,
`dismissed`) are read by no guard. An operator whose comment begins with "Mutant:" is not part of the model:
it is the plausible error that shows that a property depends on the definition
it would replace.

## 3. The modules

### JobsQueue and JobLifecycle

`pending`, `failed`, `completed` are the deques; `run[r]` is a job thread together
with its entry on the running deque; `claims` is `_inline_claims`. `section` is the
critical section of `_queue_lock` that takes several steps: the reservation looks
(`ReservePeek`), pops (`ReservePop`, or `ReservePopEmpty` where `popleft` raises)
and appends (`Admit`); a forced start removes (`ForceTake`) and appends. The other
locked operations are one step each. Requests that edit the queue without the
lock (`Edit`) fall between any of these. `_run_job` is `StartRun`, `FinishRun`,
`LeaveRunning` (under the lock) and `FileRun` (not under it).

`JobLifecycle` is the promise to a caller who never edits the queue: a submitted
job starts once, ends once, and no work is submitted twice at once. `JobsQueue`
implements it under `Stage`, its fairness included.

Abstractions. `status = "stopped"` is `completed` with `job.stopped` set. Whether
a failure is retryable is chosen when it happens. CPython's `RuntimeError` for a
deque that grows during iteration ends an edit with no effect, which is the edit
not happening. A move to an unknown destination has no caller. Progress, names and
events are left out. `Poll` copies pending and running in one step; the code
copies them one after the other (see section 7).

Fairness. The consumer polls every half second (WF of its two steps); a spawned
thread runs (WF of `JobThread`); a job's function ends (SF of `RunEnds`: a batch may
run inline work in between, but finitely often); a waiting caller polls each
second (WF of `Poll`). Nobody is obliged to feed, stop or edit anything.

### RefreshDispatcher

One destination; destinations share no queue. `config` is the saved row with its
revision; `server`, `order` and `target` are `_ServerState`; `worker` is the drain
thread with the locals of `_run` and `_refresh`; `scanned` is the memo of
`_coalescer`, which lives as long as the drain; `rescan[r]` is a request inside
`refresh_libraries`. The lock regions of `notify`, `retry`, `status`, `_run` are one
step each; asking the server is a step of its own per library, so that edits,
deletions and publications fall between. `disk[v]` is where the user's subtitle
is, for the warnings of a subtitle that Silo does not read where it lies.

Rescans are API requests and may overlap. Each keeps the drop count it read and
whether anything was `requested`: a library whose request the server accepts
(`RescanAccepted`), refuses (`RescanRefused`) or holds nothing for (`RescanMisses`,
the answer None of Emby, which is no refusal and counts as asked, as `covered` takes
it). `overtaken` records that another rescan cleared the count meanwhile.

Abstractions. The rungs for a single item (file, folder, item, per server kind) are
one step that is accepted or missed; error codes are left out; one misplaced
subtitle per video is followed; a misplaced publication refused by a full queue is
not told from another; identifiers are never reused. `asked[v][lib]` records which
revision was asked for what covers `v` since `v` last changed, and `owedFor[v]` why.

Fairness. Only that the drain thread keeps taking steps. What the server answers
is open. That publications do not arrive for ever is the bound `MaxPublications`.

### ProviderWorker

One client. `stage[t]` follows a pool thread through `_acquire_gated` (latch, lock,
closed, latch again, admission), `request` (start, write, read or deadline) and the
pool's recording of the outcome, which sets the latch again. `process` counts the
requests in the pipe (`inbox`) and unread replies (`lines`); a reply belongs to the
request exactly when nothing was left before it. `output` is the stdout as the reader
thread sees it: it ends with the process, or before it when the worker closes it or
sends a line over the cap (`WorkerCloses`), and the end is read once (`ReadEnd`). `Stopper` is `stop()`, `Reaper` the
idle sweep. `listed` and `held` are the two registry sets.

Abstractions. Replies are counted, not named. Spawning and listing are one step
(nothing reads in between). `last_used` is a flag: older than the sweep's limit or
not. `WorkerBusy` and `RequestNotAdmitted` both go to the recording of the outcome.
`stop()` runs once. Weak-reference collection of a dropped client and the
runtime-status generations are left out.

### SubtitlePublication

One subtitle (`Source`) and the outputs of its engines beside it. Contents are
numbers, given out as they are written, and stand for what `os.stat` tells apart.
`revision` is `_SubtitleWriteState.revisions`. `lock` is who is between the checks
and the end of a publication; every other operation under the coordinator is one
step with `lock = Free`. `seen[a]` is the snapshot an actor made, `sync[y]` the job
of `SubsyncEngineRunner.run`, which reads the subtitle long after its snapshot and
long before its checks. `Outside` is another program, under no lock.

Abstractions. One owner per subtitle; every lock order is that of the one
coordinator. Any subset of the outputs may fail to be moved away. Skip reasons are
one. Revisions are kept for ever: the weak dictionary drops one only when no actor
holds a snapshot of it. `queued` stands for a snapshot passed by an upload.

### SportarrStream

One instance. `version[l]` counts the changes of a league in Sportarr and `log` the
events it sent; `stored[l]` is what the library has, as the connection and version it
was fetched with. A client `c` has a reader (`reader`, `at`, `cursor`) and a worker
(`stage`, `batch`, `got`); `pending` and `wake` are the batch both share under
`_lock`. `Refresh` is the manager: it stops a client whose connection changed or
whose thread died, drops it as soon as one of the two threads has ended, and starts
another, so an old client may run on beside the new one. `Job` is any other sync: a
scheduled one, or a webhook. `TakeLock`, `Fetch`, `Apply` are a sync under
`owner_sync_lock`, which is what all of them have in common.

Abstractions. A league's rows are its version; the list of leagues and the root
folders that a full repair also fetches are left out, and the repair applies in one
transaction, as `sync_event_leagues` does. Each league of a smaller batch takes the
lock anew. Whether an event's league is known, so that the batch need not become a
full repair, is a choice. A stop signal of a job counts as a failure of its sync. A
stream may resume after the cursor or begin at the present, as a server that forgot
the cursor does. The master switch, a deleted instance and the shutdown are left out.
`Spare` leaves clients of the bound for the edits to come, so that a bound is never
what keeps the library from converging.

Fairness. Reader, worker, each sync and the manager's half-minute job keep taking
steps (WF); the lock is polled every tenth of a second by whoever waits, so that it
is had in the end if it is free again and again (SF of `TakeLock`).

### DiscoverDownload

A request is a call of `_artifact`, by a preview or a download job, and a flight is
named after the request that started it. Each region under `_lock` is one step:
`Look*` is the one that prunes, hits, retires stale flights, joins, refuses or starts
one; `FetchReturns` reads the flight's deadline before it asks for the lock and
`FetchStores`, `FetchTooLate` and `FetchLockedOut` are what comes of it; `FetchEnds`
is the `finally`. `cache` is the ordered dictionary with the copies and the tickets, a
function from the keys it holds; its order is in `older`, the keys that stand before one.
`_make_room` evicts in a fixed order, one entry at a time until there is room, so it
evicts exactly the entries before which there is none yet (`Evicted`).

Abstractions. The clock has coarse units. A subtitle weighs one or two units.
`FetchLockedOut` is a lock that was not had until the deadline. A job keeps its file
once (the job id is never used again). A caller that came with an API key since
replaced prunes what is cached under the new one; `TicketsKept` excuses exactly this
step. Progress and the classification of failures are left out.

### SiloScan

`run` is Silo's table of scans, `wire` its events under way. Silo answers a request
for a file that is being scanned with that scan; others may ask for scans of the
file or of a tree around it; `Remember` takes an event out of turn, or twice, and
`EventIsLost` and `EventsAreLate` are the other irregularities, all bounded by
`MaxUpsets`. `seen[r]` is a remembered run; `fresh` and `announced` say what the
sequence numbers `first` and `accepted` are compared for, against the baseline of the
last submission. `sees` is a history flag: the scan began after the file changed.

Abstractions. Any end but a completion with zero counters is `unclean`. A timeout, a
refused request, a broken stream and a server edited meanwhile are one failure.
Malformed rows, the limit of observed runs and stamps that are missing are left out.

### SignalrFeed

The instances of one kind, one `Singleton` client and the extras. A fan-out
enumerates, stops every client (`Retire` under the lifecycle lock, `Close` outside
it), forgets the extras and binds and starts anew; each start runs in a thread of its
own. A connection is named by the start that built it. An error of a connection that is
up (`Errs`) is a start too: `exception_handler` runs `restart` in the thread that
receives on the connection (`on`), which stops the client (`StopItself`, `CloseItself`)
and starts it again (`Begin`). `configure` closes the connection before under the
lifecycle lock, and keeps the lock (`holder`) while it joins the thread that receives
on it; `Build` is what follows the join.

`raced` records that two fan-outs were under way at once, or that a client was started
which a fan-out had stopped (`dismissed`) and none had bound since: by a thread that
began late, or by an error of its connection. The names that every specification has
carry "Feed" (`FeedInit`, `FeedNext`, `FeedTypeOK`) because `ListenerProofs` extends
this module and `SiloScan`.

Abstractions. The library's own reconnecting does not change who owns a connection.
The event queues and their consumer, the badge, the synchronisation on connect and
the scalar fallback of a kind without instances are left out.

### ProviderHub

One provider. `row` is its entry in the state file, `enabled` the list in the
configuration, `bundles` and `envs` what is on disk, `listed` the entries of the two
sources, `edition` which catalog the name of the added source stands for. A job goes
through `resolved` (`install_catalog_entry` or `apply_update` found the entry), `Bind`
(`stage_install` binds it to a source and reads the row), `Download`, `Build`, `Check`
and `Record`, and a first install also through `Enable`; `StageFails` comes
instead of a step that fails, `Stop` before a step once the bundle is being fetched. An uninstall is `Disable`, then `Remove` or `RemoveFails`. A
`Restart` may come at any moment and ends the jobs; `Reconcile` and `Activate` are
startup's two stages, between which the configuration and the state file are
both read again. Every write of the state file is under its lock and one step.

Abstractions. Trust, commit ancestry, signatures, hashes, secrets, the runtime
status, the job log and the upload spool are left out; an entry that fails validation
is not listed. The two reads of `apply_update` (the row, then the catalogs) are one
step, and so are a refresh's write and startup's staging of one provider. A verified
bundle or environment that is there is used again, which is what the check of its
contents decides. Uploads are distinct. The added
source is there at first, may be removed, and is added again or replaced at most once.

## 4. What is checked

`Symmetry` permutes only values that no definition tells apart, and is used in no
run with a liveness property.

| run | what it asks | bounds and why they are enough |
|---|---|---|
| `jobs_edited` | `CapacityRespected`, `OneThreadPerWork`, `NothingLost`, `RunsOnce` with requests that edit without the lock | one batch, two translations, two jobs, three threads, two editors: an edit falls between look and pop while a forced job and a batch run; capacity 2 and lane 1 are both reached |
| `jobs_locked` | without such edits the queue implements `JobLifecycle` with fairness, and `EveryWaiterReturns` | two jobs, histories of one: the awaited job may already be dropped |
| `refresh_queue` | `NoPublicationLost`, `QuietIsUnconfirmed`, `WarningKept`, `PublicationSettles` | two videos and two libraries, two publications, two configurations: a scan covers another video's target, and a publication falls between |
| `refresh_overflow` | `OverflowReported` | a queue of one, so the second video overflows; two rescans that overlap, begun before and after it, and a count that comes back to the same number |
| `worker_client` | `OneOutcomeOpenUntilStopped`, `ShutGateHasKeeper`, `RepliesInStep`, `EveryLiveWorkerListedUnlessRaced`, `SweepSparesRequests` | two callers, two processes, two requests behind: one call waits while the other is refused, is late or is swept |
| `subtitle_publication` | `NoWriteUndone`, `NoOutsideChangeUndone`, `OutputsFollowSource` | one staged writer, one sync job with two engines, three writes, one outside change: a write before, between and after snapshot, read and checks |
| `sportarr_library` | `NothingForgotten`, `LibraryNeverGoesBack` | two leagues, a batch of one id before it becomes a full repair, two clients, one edit, two changes, one job: a change falls between the fetches of two leagues, and old and new client and a job contend |
| `sportarr_stream` | with failures: the library converges (`LibraryConverges`) | one league, two clients, one each of edit, change, fault and job: a broken stream, a failed repair, a thread that dies or does not start |
| `discover_download` | `ThreadsCounted`, `InTimeWaiterKept`, `BytesCounted`, `TicketsKept`, `FreshDelivery` | one job and two previews on two results, one slot, two threads, two entries of three units: a flight is retired, replaced and returns; the cache is full of a ticket; one change of key, handle or copy |
| `silo_scan` | `ConfirmedScanSawTheChange`, `IncompleteOnlyWhenDisturbed` | three scans, two submissions, one scan of others, two irregularities: an old scan answers the first request and an irregular event obscures the second |
| `provider_hub` | `LoadedKept`, `StagedWhole`, `UninstallSticks`, `SourceIsOrigin`, `EditsKept` | two jobs, two builds, two refreshes, two restarts, a fault and an edit: one job stages what another is stopped from staging, beside the build that runs; the source goes, or another takes its name, at each step of a job; a restart falls between any two steps of an uninstall, and reconciliation follows |
| `signalr_feed` | `NoFeedWithoutOwner`, `EveryFeedListedUnlessRaced` | two instances, two changes that may overlap, two extras, four starts, by a fan-out or an error: a start is overtaken in each of its stages, and a client that is being stopped reports an error |

`MCProviderHubJobs.cfg` (three jobs) and `MCProviderHubBuiltIn.cfg` (a provider that
is also built in) are larger instances of the same questions. The type invariant of
every component is a theorem; a run of `RefreshDispatcher`, `SportarrStream`,
`SiloScan` and `SignalrFeed` checks it as well.
`CHECK_DEADLOCK FALSE` is set where the system really may come to rest: all
identifiers used and every job over, or a destination deleted.

### Where the code and its comments disagree

Each configuration named ends with its counterexample in seconds; none is in the list
of runs, which are those that pass.

1. `jobs_queue.py:884`: emptying or removing without the lock between the look at
   the head and the pop makes `popleft` raise; the consumer thread ends and no job
   is started again (`MCJobsQueueConsumer.cfg`, `ConsumerSurvives`; the docstring, line
   819, has it end on an interrupt or an exit only).
2. `service.py:1755`: when a stage fails, a row that has an active version loses what
   it had staged but keeps `state`; if an update was waiting for the restart that is
   "staged", nothing is then pending, and neither `activate_staged_installations` nor
   `active_installations` takes the row: the provider that worked is not loaded
   (`MCProviderHubFailed.cfg`, `ActiveIsLoaded`, where the release notes v2.3.0 say that
   it runs until the restart, "then promotes or removes the staged plugin").
3. `service.py:1860`: an install is recorded under the source it was bound to minutes
   before, though that source was removed meanwhile; it then names a removed source,
   which one added later under its name inherits (`MCProviderHubRemoved.cfg`,
   `SourceNotInherited`; line 587 says it "must not").
4. `editor.py:152`: the stop looks at pending and running while a reservation holds
   the job in neither, and reports nothing to stop (`MCJobsQueueStop.cfg`,
   `StopCannotMiss`; line 145 says "cannot miss a job that starts in between").
5. `dispatcher.py:487`: a moved subtitle queued again by the worker does not raise
   the publication count, so a later library scan of the drain can be suppressed
   by one that came before (`MCRefreshMoved.cfg`, `MovedSubtitleIsAskedFor`).
6. `dispatcher.py:432`: the memo of scans outlives a change of the destination
   within a drain, so the new server is not asked (`MCRefreshServer.cfg`,
   `SavedServerAsked`).
7. `worker.py:562`: a request that saw the client open before `stop()` closed it may
   be admitted after `stop()` woke the latch (`MCProviderWorkerStopped.cfg`,
   `OneOutcomeOpen`).
8. `worker.py:406` and `:443`: a client is taken off the registry without the lock
   under which a new process is listed (`MCProviderWorkerUnlisted.cfg`,
   `EveryLiveWorkerListed`).
9. `download.py:475`: a flight is entered before its thread is started; when the
   process can start no thread, the flight is retired at its deadline and then stays
   in `_abandoned` for good, where line 28 counts "Provider calls still alive"
   (`MCDiscoverDeadFlight.cfg`, `CountedIsAlive`).
10. `signalr_client.py:386`: `configure()` joins the receive thread of the connection
   before with the lifecycle lock held, and the error callback of that thread takes the
   lock, in the `stop()` and `start()` of its `restart()`: each waits for the other
   (`MCSignalrFeedJoin.cfg`, `JoinedThreadsNeedNoLock`; line 207 says that "The wrapper
   takes no lock" because "configure() joins that thread, with the lock held", but
   `on_error` is registered without the wrapper).

11. `dispatcher.py:556`: `covered()` compares counts, not drops. Of two overlapping
   rescans the later one clears the count, one more publication is refused and brings
   it back to what the older one had read, and that one clears it too, though it began
   before (`MCRefreshRescans.cfg`, `DropsStayReported`; the docstring, line 551, says
   that "the warning stays when any arrived in the meantime").

Beside each, the property that does hold is checked (`NothingLost`,
`NoPublicationLost`, `OverflowReported`, `OneOutcomeOpenUntilStopped`,
`EveryLiveWorkerListedUnlessRaced`, `ThreadsCounted`, `LoadedKept`,
`SourceIsOrigin`). Three more, in what `SignalrFeed` calls `raced`: a start whose
thread begins only after the next fan-out stopped its client opens a feed that no
list names (`signalr_client.py:300` begins a generation without asking whether a
stop came first); an error of a connection starts its client again after that stop
just as well (line 333); and two overlapping fan-outs can forget each other's extras. And
`_configure_if_current` says that it returns None when `configure()` bailed, but
returns the connection from before, if there is one.

## 5. What is proved

For any number of jobs, threads, editors, waiters, engines, writers, syncs, callers,
requests, builds, videos, libraries, rescans, clients, leagues, scans, instances and
fan-outs, and for every
value of the other constants that satisfies the named assumption of its module
(`JobsAssumption`, `PublicationAssumption`, `WorkerAssumption`, `DiscoverAssumption`,
`HubAssumption`, `RefreshAssumption`, `StreamAssumption`, `ScanAssumption`,
`FeedAssumption`), which say what set or number each constant is. Two theorems have a hypothesis more, named below.

- `JobsQueueProofs`: `Typing` (`Spec => []TypeOK`) and every safety property of the
  queue, in four invariants, each with one lemma per action or group of actions.
  - `NoDoubleWork` (`OneThreadPerWork`) depends on nothing being queued twice, on
    claims excluding both, and on the reservation holding the only copy of a job it
    popped. `Ownership` adds these: ids are issued in order (`IdsIssued`); an
    undisturbed job is in one place (`OnePlace`); what was looked at is still queued
    (`PeekedIsQueued`); no two active jobs have the same work (`OneJobPerWork`); no
    claim covers an active job and no two claims agree (`ClaimsExclusive`); inline
    work is claimed by its own batch (`InlineIsClaimed`).
  - `EveryJobHasItsPlace` (`NothingLost`) and `StartedOnce` (`RunsOnce`) follow from
    `InStep`: the status of a job follows its place, and an unfinished one has a place.
  - `CapacityKept` (`CapacityRespected`) follows from `Room`: what the consumer looked
    at still fits when it is admitted, since nothing enters the running queue while
    it holds the lock. Unlocked edits do not weaken it.
  - `LockSuffices` and `JobsLiveOnce` ask for `Editors = {}`, as the run `jobs_locked`
    does: with an unlocked edit a job can be run twice and the consumer can end (section
    4). Without, no job is disturbed, the consumer lives, and every step of the queue
    is a step of `JobLifecycle` or a stutter (`Spec => Lifecycle!Spec`, its safety part).
    The invariant is `Locked`: the head that was looked at is still the head.
- `SubtitlePublicationProofs`: `Typing`, `WritesStand` (`NoWriteUndone`),
  `OutsideChangesStand` (`NoOutsideChangeUndone`) and `OutputsFollow`
  (`OutputsFollowSource`). For the first two, `PublicationInv` adds that a snapshot's
  revisions are never ahead of the present ones and fall behind at every path touched
  since (`RecordsBehind`), and that who is publishing had a current snapshot when it
  got the lock (`PublishersCurrent`). For the third, `OutputInv` adds that records
  name written contents only (`RecordsWritten`) and that an engine whose recorded
  subtitle is there has read that one (`ReadsCurrent`): a content never comes back.
- `ProviderWorkerProofs`: every safety property of the run `worker_client`, in four
  independent inductive invariants, each with the lemma that every step keeps it.
  `Typing` needs `Headroom`, the room in the pipe of a process nobody asks.
  `OutcomesInTurn` and `GateReopens` follow from `GateKept`: exactly the calls with
  an open outcome have cleared the latch, and there is one at most before `stop()`.
  `RepliesMatch` follows from `InStep`, which is `RepliesInStep` without counting;
  `LiveWorkersListed` from `RegistryKept`: a thread that is about to take the client
  off the registry saw a process that is dead or older than the present one.
  `SweepsSpare` needs only the types: the sweep ends a process under `_lock`.
- `DiscoverDownloadProofs`: `Typing`, `CallsCounted` (`ThreadsCounted`) and `WaiterKept`
  (`InTimeWaiterKept`), from the invariant `DownloadInv`: the fields are typed
  (`TypeOK`); a slot is held by a flight that is loading and not abandoned, for its
  own result (`SlotsKept`); the counted flights are the calls that run, and no more than
  the limits (`SlotsCounted`); and a request waits only for a flight of its result
  whose deadline is not before its own (`WaitersKept`). `DeliveriesAreFresh`
  (`FreshDelivery`) follows from `Looked`: who has not handed over yet last looked at
  its copy before that changed. `BytesAreCounted` (`BytesCounted`) and `TicketsStay`
  (`TicketsKept`) follow, beside `DownloadInv`, from `CacheInv`: the cache is in a transitive order
  within its limits (`Bounded`); an abandoned flight is late, so that only the flight in
  the slot of a key stores there (`AbandonedAreLate`), and what it is to store is not
  there yet (`UnreturnedUnstored`): nothing is put, and counted, twice; and a ticket
  belongs to a request that was served (`TicketsServed`), so a kept file is a new entry.
  Of the operators: the weight of what is evicted is taken off (`WeighsMore`), the more
  is evicted the more there is room (`MoreRoom`), and what `_make_room` leaves for a
  ticket has room for it, because the first entry in its order that is left was spared
  (`RoomMade`).
- `ProviderHubProofs`: `Typing` and every property of the run `provider_hub`. The
  types already say that a pending row has something to activate or to remove.
  `RunningBuildStays` (`LoadedKept`) follows from `ActiveKept`: jobs run only while
  Bazarr is up, so that what a job read of the active build is so still when it
  stops or records. `EditsStay` follows from `ConfigKept`: no job knows a later edit
  than the row has. `UninstallStays` follows from `GoneKept`: nothing runs beside
  the uninstall, and the provider is off the list. `SourceStays` follows from
  `OriginKept`: a job bound to the added source was bound while there was one.
  `StagedStaysWhole` follows from `WholeKept`: a job past its download, or its
  build, has its files, because the only step that removes files is a stop.
- `RefreshDispatcherProofs`: `Typing`, and `PublicationsStay` (`NoPublicationLost`),
  `WarningsStay` (`WarningKept`) and `QuietQueuesShow` (`QuietIsUnconfirmed`) from
  `DispatcherInv`. That a publication stays queued until it was asked for rests on
  the memo: no library is recorded at the present publication count unless it was
  asked for everything due (`MemoBehind`), and for the target at work at the count
  it began with (`MemoBehindTarget`), but for a library just recorded whose request
  is under way or was refused (`Unsettled`); the counts of thread and memo are never
  ahead (`CountsBehind`); and what the ladder has passed it has asked for
  (`LadderAsked`). The rest ties the thread to the queue (`Structure`, `Refreshing`,
  `NothingOwedYet`, `LeftMarked`). `OverflowsShow` (`OverflowReported`), for any
  number of overlapping rescans, from `RescanAsked`: a rescan that no other overtook
  and that has read the present count has asked, for every drop, whatever library is
  no longer left to it. Only an overtaken one can then take a report away too early.
- `SportarrStreamProofs`: `Typing`, `NothingOldIsStored` (`LibraryNeverGoesBack`) and
  `NothingIsForgotten` (`NothingForgotten`). All rest on `Sound`: nothing names a
  change that has not happened, and a client that was not made yet runs no thread
  (`Bounds`); a sync holds pages only under the lock, of the connection it expects
  and no older than what is stored (`Carried`). Beside `Sound`, `NothingForgotten` is
  inductive as it stands, shown apart for the reader, the syncs, the manager and the
  changes on the server.
- `ListenerProofs`, of `SiloScan`: `Typing`, `ConfirmedScansSaw` (`ConfirmedScanSawTheChange`) and
  `OnlyDisturbedGiveUp` (`IncompleteOnlyWhenDisturbed`), from `SiloInv`. What the
  client remembers and what is on the wire was true of the scan when it was said
  (`Evidence`), and a scan that began before the change began before the boundary of
  the submission (`BoundaryOK`), so a completion after it is of a scan that saw the
  change. For the other property the invariant says what an undisturbed course can
  be: one scan, its three events in turn (`Undisturbed`). The bound on Silo's clock
  in `TypeOK` is itself proved, by counting the changes of the scans (`ClockCounted`).
- `ListenerProofs`, of `SignalrFeed`: `FeedTyping` (`FeedTypeOK`), `FeedsAreOwned`
  (`NoFeedWithoutOwner`) and `FeedsAreListed` (`EveryFeedListedUnlessRaced`), all from
  `FeedInv`. A connection that is up is the one its client has, of a client that a
  start was the last to touch, or somebody is about to close it (`Owned`, `Closer`): the
  fan-out or the restart that stopped the client, or the start that used the connection
  and was overtaken. A start that was overtaken stays so, because no two starts of a
  client began the same generation (`Generations`); a start connects with what was built
  for its own client (`Connected`), and one that is current with what the client has
  (`Current`). Over the join the lifecycle lock keeps a start current (`Locked`), and
  what it closed before can only come up again if an overtaken start is about to close
  it (`JoinedClosed`). For the lists: as long as nothing raced, one fan-out at most is
  under way, every client that was made is listed or stopped for good, and those listed
  are still to be stopped or have been (`Listed`). That the list is shorter than the
  instances, in `FeedTypeOK`, holds because it is empty when clients are bound.

Two attempts that failed were about a model, both times `DiscoverDownload`.
`FreshDelivery` could not be proved because the cases of `Deliver` overlapped, where the
code has an order of tests; they are in the order of the code now. The cache was a
sequence, and to reason about an eviction loop over one needs induction over data; as a
function with an order it has the same reachable states, and what is evicted can be
said without a loop.

Only model-checked:

- `PublicationSettles`, `EveryWaiterReturns`, `LibraryConverges` and the fairness half of
  `ImplementsLifecycle`: liveness and `ENABLED` are beyond the prover.

Every other property that a run checks is stated by a theorem. No module declares a
RECURSIVE operator.

## 6. Plan

Modules left: `OwnershipRevision` (triggers that version the owner rows, and the
incremental snapshot), `Activity` (outcome ranks and Run Now marks), the meter of the
compatibility API, the event queues behind `SignalrFeed`.

### Not modelled

Most of the repository is request routing, SQL reconciliation, configuration,
subtitle formats and provider adapters: sequential code whose results depend on data
that a model abstracts away, and which tests reach. What has state that several
threads share is what the table of section 1 lists; the modules cover its control.
The map is therefore a small share of the lines of the repository, and would stay one
if every component planned were modelled.

## 7. What the models do not say

- `get_job_status` lists the deques one after the other without the lock
  (`jobs_queue.py:334`): a waiter can find its job in none while it is reserved, and
  return early. `Poll` does not show this.
- A rescan whose count another one cleared meanwhile can clear a drop that came later
  (`dispatcher.py:548-557`); `OverflowReported` excuses exactly such a rescan
  (`overtaken`), and number 11 of section 4 is the trace.
- A library that a rescan got None for counts as asked (`libraries.py:117`): nothing is
  said of a server that holds no library for a scope and gets one later.
- An upload's queued sync in overwrite mode leaves the keep-all outputs of the
  subtitle it replaces (`subsyncer.py:642`); `OutputsFollowSource` excuses these.
- A change from outside between the checks and the `os.replace` is overwritten
  (`subsync_engines.py:216`); nothing can close that gap, and `slipped` marks it.
- After a kill that failed, replies stay out of step until the process ends;
  `RepliesInStep` says so.
- `source_paths` and `expected_versions` of a staged write, and the second snapshot
  of an upload whose post-processing command ran, are not modelled.
- An endless stream of publications can keep a drain going; `PublicationSettles`
  is checked for finitely many.
- `ProviderHub` follows one provider; what two providers share is the lock of the state
  file. Which entries are trusted is decided elsewhere.
- An update that finds nothing newer writes the row back as it read it
  (`service.py:2372`), over an edit made in between; `EditsKept` excuses this step.
- `bundles` and `envs` hold what was completed. A crash or a failed `pip` may leave half
  an environment at the path that every job of the build shares; the next build runs
  `pip` over it and then `pip check` (`venv.py:86-124`), and that this completes it is
  taken from `pip`. What a failed `pip` does to an environment in use is left out.
- A refresh of the official source also rechecks the trust of installed rows
  (`service.py:1055`), which may demote, restore or rebind one; trust is left out.
- Several properties excuse a race that the code does not exclude, by a history flag:
  `survived` (a process that outlives a kill), `raced` (for one process in
  `ProviderWorker`, for good in `SignalrFeed`), `overtaken`, `gone`, `slipped`,
  `excused`, `disturbed`. What such a property says begins where the flag is not set.
- A stopped job removes the files it staged though another job of the same build uses
  them, or has recorded them since (`service.py:1902`); `StagedWhole` excuses it
  (`overtaken`), and activation finds the files missing and reports it.
- A source added under the name of one that is there replaces it, and its entries and
  installs stay (`service.py:531`); `SourceIsOrigin` excuses this too.
