---------------------------- MODULE SportarrStream ----------------------------
(***************************************************************************)
(* The live library of one Sportarr instance: the clients that read its     *)
(* event stream and repair the stored library (sportarr/sse_client.py), the *)
(* manager that replaces them, and the syncs that fetch and apply a library *)
(* under the lock of its owner (sportarr/connection.py, sportarr/sync/).    *)
(*                                                                         *)
(* A client has two threads.  The reader merges events into a pending batch *)
(* and owes a full repair whenever it may have missed one; the worker takes *)
(* the batch and synchronises what it names.  Stopping a client waits for   *)
(* its threads only so long, so that an old one may still run beside its    *)
(* successor.  Other syncs, a scheduled job or a webhook, run at any time.  *)
(***************************************************************************)
EXTENDS Naturals, FiniteSets, Sequences

CONSTANTS
  Leagues,       \* the leagues of the library
  Job,           \* a sync that is not a client's: scheduled, requested, or a webhook
  Free,          \* the holder of a lock nobody holds
  PendingLimit,  \* how many ids a batch names before it becomes a full repair
  MaxClients,    \* bound on the clients made for the instance
  MaxEdits,      \* bound on changes of its connection
  MaxChanges,    \* bound on changes in Sportarr
  MaxFaults,     \* bound on failed requests, broken streams and dead threads
  MaxJobs        \* bound on syncs that are not a client's

Clients == 1..MaxClients
Workers == Clients \cup {Job}

ASSUME StreamAssumption ==
  /\ MaxClients \in Nat \ {0} /\ PendingLimit \in Nat
  /\ MaxEdits \in Nat /\ MaxChanges \in Nat /\ MaxFaults \in Nat /\ MaxJobs \in Nat
  /\ Job \notin Nat /\ Free \notin Nat /\ Job # Free

VARIABLES
  connection, \* the saved connection of the instance
  version,    \* version[l]: how often league l changed in Sportarr
  log,        \* the events Sportarr emitted, of this and of earlier connections
  stored,     \* stored[l]: the content of l in the library
  current,    \* the client in the manager's map, or 0
  made,       \* the clients made so far
  identity,   \* identity[c]: the connection client c was made with
  stopped,    \* stopped[c]: _stop
  wake,       \* wake[c]: _wake
  pending,    \* pending[c]: _pending
  reader,     \* reader[c]: where its reader thread is
  at,         \* at[c]: how much of the log its stream delivered
  cursor,     \* cursor[c]: last_event_id
  lock,       \* the holder of the owner's sync lock
  stage,      \* stage[w]: where a worker thread, or the job, is
  batch,      \* batch[w]: what it synchronises
  expected,   \* expected[w]: the connection the sync under the lock began with
  got,        \* got[w]: what it fetched under the lock so far
  faults,     \* requests, streams and threads that failed
  jobs        \* syncs that are not a client's

libraryVars == <<connection, version, log, stored>>
managerVars == <<current, made, identity>>
clientVars == <<stopped, wake, pending>>
readerVars == <<reader, at, cursor>>
syncVars == <<lock, stage, batch, expected, got>>
boundVars == <<faults, jobs>>
vars == <<libraryVars, managerVars, clientVars, readerVars, syncVars, boundVars>>

Connections == 0..MaxEdits
Versions == 0..MaxChanges
Content == [connection : Connections, version : Versions]
Unread == [connection |-> 0, version |-> MaxChanges + 1]
(* An event names its league, or an event of it, or nothing that is known.    *)
Forms == {"league", "event", "other"}
Events == [league : Leagues, form : Forms]
Work == [full : BOOLEAN, ids : SUBSET [league : Leagues, form : {"league", "event"}]]
NoWork == [full |-> FALSE, ids |-> {}]
FullRepair == [full |-> TRUE, ids |-> {}]

Upstream(l) == [connection |-> connection, version |-> version[l]]
Reading == {"opening", "open"}
AliveReader(c) == reader[c] \in Reading \cup {"down"}
AliveWorker(c) == stage[c] \notin {"none", "ended"}
(* is_alive: both threads run.                                                *)
IsAlive(c) == AliveReader(c) /\ AliveWorker(c)

(* The type invariant; the owner's lock is held exactly by who is fetching.   *)
TypeOK ==
  /\ connection \in Connections /\ version \in [Leagues -> Versions]
  /\ log \in Seq(Events) /\ Len(log) <= MaxChanges
  /\ stored \in [Leagues -> Content]
  /\ current \in Clients \cup {0} /\ made \in Clients \cup {0} /\ identity \in [Clients -> Connections]
  /\ stopped \in [Clients -> BOOLEAN] /\ wake \in [Clients -> BOOLEAN] /\ pending \in [Clients -> Work]
  /\ reader \in [Clients -> Reading \cup {"none", "down", "ended"}]
  /\ at \in [Clients -> 0..MaxChanges] /\ cursor \in [Clients -> 0..MaxChanges]
  /\ lock \in Workers \cup {Free}
  /\ stage \in [Workers -> {"none", "rest", "waiting", "fetching", "failed", "ended"}]
  /\ batch \in [Workers -> Work] /\ expected \in [Workers -> Connections]
  /\ got \in [Workers -> [Leagues -> Content \cup {Unread}]]
  /\ faults \in 0..MaxFaults /\ jobs \in 0..MaxJobs
  /\ \A w \in Workers : stage[w] = "fetching" <=> lock = w

NothingRead == [l \in Leagues |-> Unread]

Init ==
  /\ connection = 0 /\ version = [l \in Leagues |-> 0] /\ log = <<>>
  /\ stored = [l \in Leagues |-> [connection |-> 0, version |-> 0]]
  /\ current = 0 /\ made = 0 /\ identity = [c \in Clients |-> 0]
  /\ stopped = [c \in Clients |-> FALSE] /\ wake = [c \in Clients |-> FALSE]
  /\ pending = [c \in Clients |-> NoWork]
  /\ reader = [c \in Clients |-> "none"]
  /\ at = [c \in Clients |-> 0] /\ cursor = [c \in Clients |-> 0]
  /\ lock = Free /\ stage = [w \in Workers |-> IF w = Job THEN "rest" ELSE "none"]
  /\ batch = [w \in Workers |-> NoWork] /\ expected = [w \in Workers |-> 0]
  /\ got = [w \in Workers |-> NothingRead]
  /\ faults = 0 /\ jobs = 0

(* Of the bounded clients, n are left beside those that later edits will need. *)
Spare(n) == MaxClients - made >= MaxEdits - connection + n
Fault == faults < MaxFaults /\ faults' = faults + 1 /\ UNCHANGED jobs

-----------------------------------------------------------------------------
(* The world.                                                                 *)

(* A league changes in Sportarr, which says so in one of three forms.         *)
Change(l) ==
  /\ Len(log) < MaxChanges
  /\ version' = [version EXCEPT ![l] = @ + 1]
  /\ \E form \in Forms : log' = Append(log, [league |-> l, form |-> form])
  /\ UNCHANGED <<connection, stored, managerVars, clientVars, readerVars, syncVars, boundVars>>

(* The user points the instance at another server.                            *)
EditConnection ==
  /\ connection < MaxEdits /\ connection' = connection + 1
  /\ UNCHANGED <<version, log, stored, managerVars, clientVars, readerVars, syncVars, boundVars>>

-----------------------------------------------------------------------------
(* The pending batch, under _lock.                                            *)

(* What becomes of pending work that more is added to.                        *)
Merged(work, more) ==
  LET ids == work.ids \cup more.ids
  IN IF work.full \/ more.full \/ Cardinality(ids) > PendingLimit THEN FullRepair
                                                                 ELSE [full |-> FALSE, ids |-> ids]

(* enqueue: a stopped client takes no work.                                   *)
Enqueue(c, more) ==
  IF stopped[c] THEN UNCHANGED clientVars
  ELSE /\ pending' = [pending EXCEPT ![c] = Merged(@, more)]
       /\ wake' = [wake EXCEPT ![c] = TRUE]
       /\ UNCHANGED stopped

-----------------------------------------------------------------------------
(* The reader thread: _read.                                                  *)

ReaderOnly == UNCHANGED <<libraryVars, managerVars, syncVars>>

(* The response headers arrived: from here the server remembers for the       *)
(* stream, after the cursor it was given or from the present.                 *)
Subscribe(c) ==
  /\ reader[c] = "down" /\ ~stopped[c]
  /\ reader' = [reader EXCEPT ![c] = "opening"]
  /\ \E from \in {cursor[c], Len(log)} : at' = [at EXCEPT ![c] = from]
  /\ UNCHANGED <<cursor, clientVars, boundVars>> /\ ReaderOnly

(* Mutant: the repair of start() is taken to be enough.                       *)
OpenedQuietly(c) ==
  /\ reader[c] = "opening"
  /\ reader' = [reader EXCEPT ![c] = "open"]
  /\ UNCHANGED <<at, cursor, clientVars, boundVars>> /\ ReaderOnly

(* _opened: repair again, for what changed before the subscription.           *)
Opened(c) ==
  /\ reader[c] = "opening"
  /\ reader' = [reader EXCEPT ![c] = "open"]
  /\ Enqueue(c, FullRepair)
  /\ UNCHANGED <<at, cursor, boundVars>> /\ ReaderOnly

WorkOf(event) ==
  IF event.form = "other" THEN FullRepair ELSE [full |-> FALSE, ids |-> {event}]

(* dispatch: the event is enqueued before its cursor is acknowledged; a cursor *)
(* that went back, of a replaced server, owes a full repair.                  *)
Deliver(c) ==
  /\ reader[c] = "open" /\ ~stopped[c] /\ at[c] < Len(log)
  /\ at' = [at EXCEPT ![c] = @ + 1]
  /\ Enqueue(c, IF at[c] + 1 < cursor[c] THEN FullRepair ELSE WorkOf(log[at[c] + 1]))
  /\ cursor' = [cursor EXCEPT ![c] = at[c] + 1]
  /\ UNCHANGED <<reader, boundVars>> /\ ReaderOnly

(* stream.resync: the server dropped events; its cursor is taken over.        *)
Resync(c) ==
  /\ reader[c] = "open" /\ ~stopped[c] /\ at[c] < Len(log)
  /\ at' = [at EXCEPT ![c] = Len(log)]
  /\ Enqueue(c, FullRepair)
  /\ cursor' = [cursor EXCEPT ![c] = Len(log)]
  /\ UNCHANGED <<reader, boundVars>> /\ ReaderOnly

(* The stream broke, or could not be opened; events under way are lost.       *)
StreamBreaks(c) ==
  /\ reader[c] \in Reading /\ ~stopped[c] /\ Fault
  /\ reader' = [reader EXCEPT ![c] = "down"]
  /\ UNCHANGED <<at, cursor, clientVars>> /\ ReaderOnly

(* Its cursor is of no more use.                                              *)
ReaderEnds(c) ==
  /\ AliveReader(c) /\ stopped[c]
  /\ reader' = [reader EXCEPT ![c] = "ended"]
  /\ at' = [at EXCEPT ![c] = 0] /\ cursor' = [cursor EXCEPT ![c] = 0]
  /\ UNCHANGED <<clientVars, boundVars>> /\ ReaderOnly

-----------------------------------------------------------------------------
(* The worker thread: _work, and the syncs it calls.                          *)

Step(w, where) == stage' = [stage EXCEPT ![w] = where]
WorkerOnly == UNCHANGED <<managerVars, readerVars>>

(* reconcile_work: an event id is looked up, or the repair becomes a full one: *)
(* nobody knows it, or its league is not stored yet.                          *)
Resolved(work) == {[work EXCEPT !.full = full] : full \in {work.full, TRUE}}

(* The batch is swapped and the flag cleared in one region.  A client stopped  *)
(* after it waited for the debounce swaps too, and finds itself cancelled.    *)
Swap(c) ==
  /\ stage[c] = "rest" /\ wake[c]
  /\ \E work \in Resolved(pending[c]) : batch' = [batch EXCEPT ![c] = work]
  /\ pending' = [pending EXCEPT ![c] = NoWork] /\ wake' = [wake EXCEPT ![c] = FALSE]
  /\ Step(c, "waiting")
  /\ UNCHANGED <<libraryVars, stopped, lock, expected, got, boundVars>> /\ WorkerOnly

SyncOnly == WorkerOnly /\ UNCHANGED <<clientVars, boundVars>>
Cancelled(w) == w \in Clients /\ stopped[w]
SyncEnds(w) == IF w = Job THEN "rest" ELSE "failed"

(* A scheduled sync or a webhook.                                             *)
JobBegins ==
  /\ stage[Job] = "rest" /\ jobs < MaxJobs /\ jobs' = jobs + 1
  /\ \E work \in {FullRepair} \cup {[full |-> FALSE, ids |-> {[league |-> l, form |-> "league"]}] : l \in Leagues} :
       batch' = [batch EXCEPT ![Job] = work]
  /\ Step(Job, "waiting")
  /\ UNCHANGED <<libraryVars, clientVars, lock, expected, got, faults>> /\ WorkerOnly

(* Mutant: the owner's syncs do not wait for one another.                     *)
NobodyWaits(w) == TRUE
(* One sync of an owner's library at a time.                                  *)
LockIsFree(w) == lock = Free

(* owner_sync_lock, and the connection as it is once the lock is held.        *)
TakeLock(w) ==
  /\ stage[w] = "waiting" /\ LockIsFree(w) /\ ~Cancelled(w)
  /\ w \in Clients => connection = identity[w]
  /\ lock' = w /\ expected' = [expected EXCEPT ![w] = connection]
  /\ Step(w, "fetching")
  /\ UNCHANGED <<libraryVars, batch, got>> /\ SyncOnly

(* What is synchronised at once: the whole library, or one league of the batch. *)
Named(work) == {id.league : id \in work.ids}
Part(w) == IF batch[w].full THEN Leagues ELSE Named(batch[w])

(* One league's pages; the server may be an old one by now.                   *)
Fetch(w, l) ==
  /\ stage[w] = "fetching" /\ ~Cancelled(w) /\ l \in Part(w) /\ got[w][l] = Unread
  /\ ~batch[w].full => \A m \in Leagues : got[w][m] = Unread
  /\ got' = [got EXCEPT ![w][l] = [connection |-> expected[w], version |-> version[l]]]
  /\ UNCHANGED <<libraryVars, lock, stage, batch, expected>> /\ SyncOnly

Fetched(w) == {l \in Leagues : got[w][l] # Unread}
AllFetched(w) == IF batch[w].full THEN Fetched(w) = Leagues ELSE Fetched(w) # {}

(* revalidate, in the transaction that applies.                               *)
Revalidated(w) == ~Cancelled(w) /\ connection = expected[w]

(* The rows are written; the next league of the batch waits for the lock anew. *)
Apply(w) ==
  LET left == {id \in batch[w].ids : id.league \notin Fetched(w)}
      over == batch[w].full \/ left = {}
  IN /\ stage[w] = "fetching" /\ AllFetched(w) /\ Revalidated(w)
     /\ stored' = [l \in Leagues |-> IF l \in Fetched(w) THEN got[w][l] ELSE stored[l]]
     /\ got' = [got EXCEPT ![w] = NothingRead] /\ lock' = Free
     /\ expected' = [expected EXCEPT ![w] = 0]
     /\ batch' = [batch EXCEPT ![w] = IF over THEN NoWork ELSE [@ EXCEPT !.ids = left]]
     /\ Step(w, IF over THEN "rest" ELSE "waiting")
     /\ UNCHANGED <<connection, version, log>> /\ SyncOnly

(* Mutant: the lock is given back after a sync that succeeded only.           *)
StillHeld(w) == lock
(* owner_sync_lock gives the lock back however the sync ended.                *)
Released(w) == IF lock = w THEN Free ELSE lock

Gives(w) ==
  /\ stage[w] \in {"waiting", "fetching"}
  /\ lock' = Released(w) /\ got' = [got EXCEPT ![w] = NothingRead]
  /\ batch' = [batch EXCEPT ![w] = NoWork] /\ Step(w, SyncEnds(w))
  /\ expected' = [expected EXCEPT ![w] = 0]
  /\ UNCHANGED <<libraryVars, clientVars>> /\ WorkerOnly

(* Cancelled, or the connection is another one, or a webhook has waited for    *)
(* the lock as long as it may.                                                *)
SyncRefused(w) ==
  /\ \/ Cancelled(w)
     \/ w \in Clients /\ stage[w] = "waiting" /\ connection # identity[w]
     \/ stage[w] = "fetching" /\ AllFetched(w) /\ connection # expected[w]
     \/ w = Job /\ stage[w] = "waiting" /\ lock # Free
  /\ Gives(w) /\ UNCHANGED boundVars

(* A request failed, a page was malformed, or the library changed meanwhile.  *)
SyncFails(w) == Gives(w) /\ Fault

(* Mutant: a failed repair is left to the next event.                         *)
RetryLater(c) ==
  /\ stage[c] = "failed" /\ ~stopped[c]
  /\ Step(c, "rest")
  /\ UNCHANGED <<libraryVars, clientVars, lock, batch, expected, got, boundVars>> /\ WorkerOnly

(* After the delay a failed batch is owed as a full repair.                   *)
Retry(c) ==
  /\ stage[c] = "failed" /\ ~stopped[c]
  /\ Enqueue(c, FullRepair) /\ Step(c, "rest")
  /\ UNCHANGED <<libraryVars, lock, batch, expected, got, boundVars>> /\ WorkerOnly

WorkerEnds(c) ==
  /\ stage[c] \in {"rest", "failed"} /\ stopped[c]
  /\ Step(c, "ended")
  /\ UNCHANGED <<libraryVars, clientVars, lock, batch, expected, got, boundVars>> /\ WorkerOnly

(* Something the loop does not catch.                                         *)
WorkerDies(c) ==
  /\ stage[c] = "rest" /\ ~stopped[c] /\ Spare(1) /\ Fault
  /\ Step(c, "ended")
  /\ UNCHANGED <<libraryVars, clientVars, lock, batch, expected, got>> /\ WorkerOnly

-----------------------------------------------------------------------------
(* The manager: refresh, every half minute and after each edit.               *)

ManagerOnly == UNCHANGED <<libraryVars, at, cursor, lock, batch, expected, got>>

(* stop(): the client is cancelled and drops what is pending.                 *)
Outlived(c) == identity[c] # connection \/ ~IsAlive(c)
RefreshStops ==
  /\ current # 0 /\ Outlived(current) /\ ~stopped[current]
  /\ stopped' = [stopped EXCEPT ![current] = TRUE]
  /\ wake' = [wake EXCEPT ![current] = TRUE]
  /\ pending' = [pending EXCEPT ![current] = NoWork]
  /\ UNCHANGED <<managerVars, reader, stage, boundVars>> /\ ManagerOnly

(* stop() reports a client stopped as soon as one of its threads is not alive. *)
RefreshDrops ==
  /\ current # 0 /\ stopped[current] /\ ~IsAlive(current)
  /\ current' = 0
  /\ UNCHANGED <<made, identity, clientVars, reader, stage, boundVars>> /\ ManagerOnly

(* start(): a full repair is owed before either thread runs.                  *)
RefreshStarts ==
  LET c == made + 1
  IN /\ current = 0 /\ made < MaxClients
     /\ made' = c /\ current' = c /\ identity' = [identity EXCEPT ![c] = connection]
     /\ Enqueue(c, FullRepair)
     /\ reader' = [reader EXCEPT ![c] = "down"] /\ stage' = [stage EXCEPT ![c] = "rest"]
     /\ UNCHANGED boundVars /\ ManagerOnly

(* The second thread is refused: the first is stopped, and nothing published. *)
RefreshStartFails ==
  LET c == made + 1
  IN /\ current = 0 /\ Spare(2) /\ Fault
     /\ made' = c /\ identity' = [identity EXCEPT ![c] = connection] /\ UNCHANGED current
     /\ stopped' = [stopped EXCEPT ![c] = TRUE] /\ wake' = [wake EXCEPT ![c] = TRUE]
     /\ reader' = [reader EXCEPT ![c] = "down"]
     /\ UNCHANGED <<pending, stage>> /\ ManagerOnly

-----------------------------------------------------------------------------
Reader(c) == Subscribe(c) \/ Opened(c) \/ Deliver(c) \/ ReaderEnds(c)
Sync(w) == TakeLock(w) \/ (\E l \in Leagues : Fetch(w, l)) \/ Apply(w) \/ SyncRefused(w)
Worker(c) == Swap(c) \/ Retry(c) \/ WorkerEnds(c)
Refresh == RefreshStops \/ RefreshDrops \/ RefreshStarts

Next ==
  \/ (\E l \in Leagues : Change(l)) \/ EditConnection
  \/ \E c \in Clients : Reader(c) \/ Resync(c) \/ StreamBreaks(c) \/ Worker(c) \/ WorkerDies(c)
  \/ \E w \in Workers : Sync(w) \/ SyncFails(w)
  \/ JobBegins \/ Refresh \/ RefreshStartFails

Spec == Init /\ [][Next]_vars

(* Threads run, the refresh job is scheduled, and requests that do not fail    *)
(* end.  A lock that a client waits for is polled, so it is got in the end.    *)
Fairness ==
  /\ \A c \in Clients : WF_vars(Reader(c)) /\ WF_vars(Worker(c))
  /\ \A w \in Workers : SF_vars(TakeLock(w)) /\ WF_vars(Sync(w))
  /\ WF_vars(Refresh)
FairSpec == Spec /\ Fairness

-----------------------------------------------------------------------------
(* Properties.                                                                *)

(* The stored content of l is on its way to be current, by client c.          *)
OnStream(c, l) == \E i \in (at[c] + 1)..Len(log) : log[i].league = l
IsPending(c, l) == wake[c] /\ (pending[c].full \/ l \in Named(pending[c]))
InBatch(c, l) ==
  /\ l \in Part(c)
  /\ stage[c] = "waiting" \/ got[c][l] \in {Unread, Upstream(l)}

(* Nothing a running client received, or may have missed, is forgotten: a      *)
(* stored league that is not current is still on the stream, in the pending    *)
(* batch or in the batch being applied and not read too early, or a full       *)
(* repair is owed: by a failed batch, or by a stream that is not open yet.     *)
NothingForgotten ==
  \A c \in Clients, l \in Leagues :
    /\ c = current /\ ~stopped[c] /\ IsAlive(c) /\ identity[c] = connection
    /\ stored[l] # Upstream(l)
    => \/ reader[c] # "open" \/ stage[c] = "failed"
       \/ OnStream(c, l) \/ IsPending(c, l) \/ InBatch(c, l)

(* The library of a league never goes back: what is stored is of the present  *)
(* connection, whoever asked for it before the edit (revalidate), and no older *)
(* fetch of it wins last (owner_sync_lock).                                   *)
LibraryNeverGoesBack ==
  [][\A l \in Leagues : stored'[l] # stored[l] =>
       /\ stored'[l].connection = connection
       /\ stored[l].connection = connection => stored'[l].version > stored[l].version]_vars

(* Once changes, edits and faults have ended, the library becomes what         *)
(* Sportarr has and stays it.                                                 *)
LibraryConverges == <>[](\A l \in Leagues : stored[l] = Upstream(l))
=============================================================================
