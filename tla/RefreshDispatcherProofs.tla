----------------------- MODULE RefreshDispatcherProofs -----------------------
(* Machine-checked properties of RefreshDispatcher, for every value of its    *)
(* constants.                                                                 *)
EXTENDS RefreshDispatcher, SequenceTheorems, FiniteSetTheorems, TLAPS

(* What a destination looks like before its first visit, and what a thread    *)
(* that is not at a target has left behind (_server, _run).                   *)
Fresh == server = Unknown /\ order = <<>> /\ target = NoTargets /\ worker.phase = "none"
Structure ==
  /\ worker.phase = "none" => worker = NoWorker /\ scanned = NothingScanned
  /\ worker.phase = "drain" => worker = Draining
  /\ ~server.known /\ config.exists => Fresh
  /\ server.known => server.revision <= config.revision
  /\ server.known /\ (order # <<>> \/ worker.phase # "none") => server.publications > 0
  /\ server.known /\ worker.phase \in AtWork =>
       InQueue(worker.video) /\ worker.generation <= target[worker.video].generation

(* A publication of v that lib was not asked for since (notify).              *)
Due(v, lib) == owedFor[v] = "publication" /\ asked[v][lib] = 0

(* A library that is recorded in the memo although it may not have been asked *)
(* (already_requested records before the request is sent).                    *)
Unsettled(lib) == lib \in worker.recorded /\ (worker.asking = lib \/ worker.refused)

(* What the thread carries through one refresh.                               *)
Refreshing ==
  /\ worker.phase \notin {"asking", "failed"} => worker.asking = NoLibrary
  /\ worker.phase = "asking" => worker.asking \in Libraries /\ worker.asking \in worker.recorded
  /\ worker.phase \notin {"library", "asking", "failed"} => ~worker.refused
  /\ worker.phase = "failed" => \A lib \in worker.recorded : scanned[lib] = 0

(* The publication counts in the thread and in the memo are not ahead.        *)
CountsBehind ==
  server.known /\ worker.phase # "none" =>
    /\ worker.publications <= server.publications
    /\ worker.phase \in AtWork => worker.publications > 0
    /\ \A lib \in Libraries : scanned[lib] <= server.publications

(* The memo never says that a library covers a publication it was not asked   *)
(* for, neither to the next target nor to the one at work.                    *)
MemoBehind ==
  server.known /\ worker.phase # "none" =>
    \A v \in Videos : \A lib \in Libraries :
      Due(v, lib) => scanned[lib] < server.publications \/ Unsettled(lib)
MemoBehindTarget ==
  server.known /\ worker.phase \in AtWork /\ UnchangedSince =>
    \A lib \in Libraries :
      Due(worker.video, lib) => scanned[lib] < worker.publications \/ Unsettled(lib)

(* What the ladder has behind it, it has asked for.                           *)
LadderAsked ==
  server.known /\ worker.phase \in AtWork /\ UnchangedSince =>
    \A lib \in Libraries :
      Due(worker.video, lib) =>
        \/ worker.phase = "failed"
        \/ worker.phase # "answered" /\ (lib \in worker.left \/ worker.refused)

(* Before its first visit a destination owes nothing and has no warning.      *)
NothingOwedYet ==
  ~server.known /\ config.exists =>
    \A v \in Videos : ~Owes(v) /\ disk[v] # "outside"

(* What a rescan has behind it, every drop counted before it has been asked   *)
(* for, as long as no other rescan clears the count (covered).                *)
RescanAsked ==
  server.known \/ config.exists =>
    \A r \in Rescanners : rescan[r].active /\ ~rescan[r].overtaken =>
      /\ rescan[r].dropped <= server.dropped
      /\ \A v \in Videos : \A lib \in Libraries :
           ~rescan[r].refused /\ lib \notin rescan[r].left
             /\ owedFor[v] = "drop" /\ asked[v][lib] = 0 => rescan[r].dropped < server.dropped

(* A queue that was left is marked, at the revision it was left at.           *)
LeftMarked ==
  server.known /\ worker.phase = "none" /\ order # <<>> /\ server.revision = config.revision =>
    server.state = "unconfirmed"

-----------------------------------------------------------------------------
(* The record types of TypeOK.                                                *)
ConfigType == [exists : BOOLEAN, enabled : BOOLEAN, revision : Revisions]
ServerType ==
  [known : BOOLEAN, revision : Revisions, state : Shown, dropped : 0..MaxDropped,
   publications : Counts]
TargetType ==
  [event : Places, unsupported : BOOLEAN, generation : Nat \ {0}, ready : BOOLEAN]
WorkerType ==
  [phase : {"none", "drain"} \cup AtWork, video : Videos \cup {NoVideo}, event : Places,
   generation : Nat \ {0}, revision : Revisions, publications : Counts,
   left : SUBSET Libraries, recorded : SUBSET Libraries, asking : Libraries \cup {NoLibrary},
   refused : BOOLEAN]
RescanType ==
  [active : BOOLEAN, revision : Revisions, dropped : 0..MaxDropped,
   left : SUBSET Libraries, requested : BOOLEAN, refused : BOOLEAN, overtaken : BOOLEAN]
HistoryType ==
  /\ asked \in [Videos -> [Libraries -> 0..MaxRevision]]
  /\ owedFor \in [Videos -> {"publication", "drop", "move"}]
QueueTyped(q) == q \in Seq(Videos) /\ Len(q) <= PendingLimit /\ IsInjective(q)
WorkerTyped(w) == w \in WorkerType /\ (w.phase \in AtWork => w.video \in Videos)

LEMMA TypeParts ==
  TypeOK <=>
    /\ config \in ConfigType /\ server \in ServerType /\ QueueTyped(order)
    /\ target \in [Videos -> TargetType] /\ WorkerTyped(worker)
    /\ scanned \in [Libraries -> Counts] /\ rescan \in [Rescanners -> RescanType]
    /\ disk \in [Videos -> Places \cup {"moved"}] /\ HistoryType
  BY DEF TypeOK, ConfigType, ServerType, QueueTyped, TargetType, WorkerTyped, WorkerType,
         RescanType, HistoryType

LEMMA TypePartsPrimed ==
  TypeOK' <=>
    /\ config' \in ConfigType /\ server' \in ServerType /\ QueueTyped(order')
    /\ target' \in [Videos -> TargetType] /\ WorkerTyped(worker')
    /\ scanned' \in [Libraries -> Counts] /\ rescan' \in [Rescanners -> RescanType]
    /\ disk' \in [Videos -> Places \cup {"moved"}] /\ HistoryType'
  BY DEF TypeOK, ConfigType, ServerType, QueueTyped, TargetType, WorkerTyped, WorkerType,
         RescanType, HistoryType

(* The records the code creates have their type.                              *)
LEMMA NewRecords ==
  /\ \A rev \in Revisions : NewServer(rev) \in ServerType
  /\ Unknown \in ServerType
  /\ \A place \in Places : NewTarget(place) \in TargetType
  /\ NoTargets \in [Videos -> TargetType]
  /\ WorkerTyped(NoWorker) /\ WorkerTyped(Draining)
  /\ NothingScanned \in [Libraries -> Counts]
  /\ NoRescan \in RescanType
<1>1. 1 \in Revisions /\ 0 \in Counts /\ 0 \in 0..MaxDropped
  BY RefreshAssumption DEF Revisions, Counts
<1>2. \A rev \in Revisions : NewServer(rev) \in ServerType
  BY <1>1 DEF NewServer, ServerType, Shown
<1>3. Unknown \in ServerType
  <2>1. NewServer(1) \in ServerType
    BY <1>1, <1>2
  <2> QED BY <2>1 DEF Unknown, ServerType
<1>4. \A place \in Places : NewTarget(place) \in TargetType
  BY DEF NewTarget, TargetType
<1>5. NoTargets \in [Videos -> TargetType]
  BY <1>4 DEF NoTargets, Places
<1>6. NoWorker \in WorkerType /\ NoWorker.phase = "none"
  BY <1>1 DEF NoWorker, WorkerType, Places
<1>7. Draining \in WorkerType /\ Draining.phase = "drain"
  BY <1>6 DEF Draining, WorkerType
<1>8. NothingScanned \in [Libraries -> Counts] /\ NoRescan \in RescanType
  BY <1>1 DEF NothingScanned, NoRescan, RescanType
<1> QED BY <1>2, <1>3, <1>4, <1>5, <1>6, <1>7, <1>8 DEF WorkerTyped, AtWork

(* A visit adopts the saved revision and keeps the counts (_server).           *)
LEMMA SyncedServer ==
  ASSUME TypeOK
  PROVE  /\ Synced \in ServerType
         /\ server.known => /\ Synced.known /\ Synced.dropped = server.dropped
                            /\ Synced.publications = server.publications
         /\ ~server.known => Synced = NewServer(config.revision)
<1>1. server \in ServerType /\ config.revision \in Revisions
  BY TypeParts DEF ConfigType
<1> QED BY <1>1, NewRecords DEF Synced, ServerType, Shown

(* A visit starts the thread or leaves it alone (_start).                      *)
LEMMA StartServer ==
  ASSUME TypeOK, NEW next \in ServerType, NEW queue, NEW targets, Start(next, queue, targets)
  PROVE  /\ server' \in ServerType /\ WorkerTyped(worker')
         /\ server'.known = next.known /\ server'.revision = next.revision
         /\ server'.dropped = next.dropped /\ server'.publications = next.publications
         /\ \/ worker' = worker /\ server' = next
            \/ /\ worker.phase = "none" /\ worker' = Draining
               /\ \E i \in DOMAIN queue : targets[queue[i]].ready
         /\ worker.phase # "none" => worker' = worker
         /\ worker' = worker => \A i \in DOMAIN queue :
              worker.phase = "none" => ~targets[queue[i]].ready
<1>1. WorkerTyped(worker) /\ WorkerTyped(Draining)
  BY TypeParts, NewRecords
<1>2. Draining.phase = "drain"
  BY DEF Draining, NoWorker
<1>3. [next EXCEPT !.state = "pending"] \in ServerType
  BY DEF ServerType, Shown
<1>4. CASE worker.phase = "none" /\ \E i \in DOMAIN queue : targets[queue[i]].ready
  BY <1>1, <1>2, <1>3, <1>4 DEF Start, ServerType
<1>5. CASE ~(worker.phase = "none" /\ \E i \in DOMAIN queue : targets[queue[i]].ready)
  BY <1>1, <1>5 DEF Start
<1> QED BY <1>4, <1>5
-----------------------------------------------------------------------------
(* The queue.                                                                 *)

(* Taking position i out keeps the other videos, in order (pop of targets).   *)
LEMMA RemoveAtElements ==
  ASSUME NEW S, NEW s \in Seq(S), NEW i \in 1..Len(s)
  PROVE  /\ RemoveAt(s, i) \in Seq(S)
         /\ Len(RemoveAt(s, i)) = Len(s) - 1
         /\ \A k \in 1..Len(s) - 1 : RemoveAt(s, i)[k] = IF k < i THEN s[k] ELSE s[k + 1]
<1> DEFINE a == SubSeq(s, 1, i - 1)
           b == SubSeq(s, i + 1, Len(s))
<1>1. /\ a \in Seq(S) /\ Len(a) = i - 1
      /\ \A k \in 1..(i - 1) : a[k] = s[k]
  BY SubSeqProperties
<1>2. /\ b \in Seq(S) /\ Len(b) = Len(s) - i
      /\ \A k \in 1..(Len(s) - i) : b[k] = s[i + k]
  BY SubSeqProperties
<1> HIDE DEF a, b
<1>3. a \o b \in Seq(S) /\ Len(a \o b) = Len(a) + Len(b)
  BY <1>1, <1>2, ConcatProperties
<1>4. Len(a \o b) = Len(s) - 1
  BY <1>1, <1>2, <1>3
<1>5. \A k \in 1..Len(s) - 1 : (a \o b)[k] = IF k < i THEN s[k] ELSE s[k + 1]
  BY <1>1, <1>2
<1> QED BY <1>3, <1>4, <1>5 DEF RemoveAt, a, b

(* A queue holds a video once, so taking it out leaves the others only.       *)
LEMMA TakenOut ==
  ASSUME TypeOK, NEW v \in Videos, TakeOut(v)
  PROVE  /\ QueueTyped(order') /\ Queued' = Queued \ {v}
         /\ target' \in [Videos -> TargetType]
         /\ \A u \in Videos : u # v => target'[u] = target[u]
<1>1. QueueTyped(order) /\ target \in [Videos -> TargetType]
  BY TypeParts
<1>2. order \in Seq(Videos) /\ Len(order) \in Nat /\ DOMAIN order = 1..Len(order)
      /\ \A k \in 1..Len(order) : order[k] \in Videos
  BY <1>1, LenProperties, ElementOfSeq DEF QueueTyped
<1>3. \A k, l \in 1..Len(order) : order[k] = order[l] => k = l
  BY <1>1, <1>2 DEF QueueTyped, IsInjective
<1>4. PICK i \in 1..Len(order) : order[i] = v /\ order' = RemoveAt(order, i)
  BY <1>2 DEF TakeOut
<1>5. /\ order' \in Seq(Videos) /\ Len(order') = Len(order) - 1
      /\ \A k \in 1..Len(order) - 1 : order'[k] = IF k < i THEN order[k] ELSE order[k + 1]
  BY <1>2, <1>4, RemoveAtElements
<1>6. DOMAIN order' = 1..(Len(order) - 1)
  BY <1>5, LenProperties
<1>7. IsInjective(order')
  <2>1. ASSUME NEW k \in DOMAIN order', NEW l \in DOMAIN order', order'[k] = order'[l]
        PROVE  k = l
    BY <1>2, <1>3, <1>5, <1>6, <2>1
  <2> QED BY <2>1 DEF IsInjective
<1>8. Queued' = Queued \ {v}
  <2>1. ASSUME NEW k \in DOMAIN order' PROVE order'[k] \in Queued /\ order'[k] # v
    <3>1. order'[k] = IF k < i THEN order[k] ELSE order[k + 1]
      BY <1>5, <1>6
    <3>2. PICK m \in 1..Len(order) : m # i /\ order'[k] = order[m]
      BY <1>2, <1>6, <3>1
    <3> QED BY <1>2, <1>3, <1>4, <3>2 DEF Queued
  <2>2. ASSUME NEW m \in 1..Len(order), m # i PROVE \E k \in DOMAIN order' : order'[k] = order[m]
    <3>1. CASE m < i
      BY <1>2, <1>5, <1>6, <3>1
    <3>2. CASE m > i
      <4>1. m - 1 \in DOMAIN order' /\ ~(m - 1 < i) /\ (m - 1) + 1 = m
        BY <1>2, <1>6, <3>2
      <4> QED BY <1>5, <1>6, <4>1
    <3> QED BY <1>2, <2>2, <3>1, <3>2
  <2>3. Queued' \subseteq Queued \ {v}
    BY <2>1 DEF Queued
  <2>4. ASSUME NEW u \in Queued, u # v PROVE u \in Queued'
    <3>1. PICK m \in 1..Len(order) : order[m] = u
      BY <1>2 DEF Queued
    <3>2. m # i
      BY <1>4, <2>4, <3>1
    <3> QED BY <2>2, <3>1, <3>2 DEF Queued
  <2> QED BY <2>3, <2>4
<1>9. target' \in [Videos -> TargetType] /\ \A u \in Videos : u # v => target'[u] = target[u]
  <2>1. NewTarget("beside") \in TargetType
    BY NewRecords DEF Places
  <2>2. target' = [target EXCEPT ![v] = NewTarget("beside")]
    BY DEF TakeOut
  <2> QED BY <1>1, <2>1, <2>2
<1>10. order' \in Seq(Videos) /\ Len(order') <= PendingLimit
  BY <1>1, <1>2, <1>5, RefreshAssumption DEF QueueTyped
<1>11. QueueTyped(order')
  BY <1>7, <1>10 DEF QueueTyped
<1> QED BY <1>8, <1>9, <1>11

(* A new video goes to the end of a queue with room (notify).                 *)
LEMMA PutIn ==
  ASSUME TypeOK, NEW v \in Videos, ~InQueue(v), HasRoom, order' = Append(order, v)
  PROVE  QueueTyped(order') /\ Queued' = Queued \cup {v}
<1>1. QueueTyped(order) /\ PendingLimit \in Nat
  BY TypeParts, RefreshAssumption
<1>2. order \in Seq(Videos) /\ Len(order) \in Nat /\ DOMAIN order = 1..Len(order)
  BY <1>1, LenProperties DEF QueueTyped
<1>3. /\ order' \in Seq(Videos) /\ Len(order') = Len(order) + 1
      /\ \A k \in 1..Len(order) : order'[k] = order[k]
      /\ order'[Len(order) + 1] = v
  BY <1>2, AppendProperties
<1>4. DOMAIN order' = 1..(Len(order) + 1)
  BY <1>3, LenProperties
<1>5. \A k \in 1..Len(order) : order[k] # v
  BY <1>2 DEF InQueue, Queued
<1>6. IsInjective(order')
  <2>1. \A k, l \in 1..Len(order) : order[k] = order[l] => k = l
    BY <1>1, <1>2 DEF QueueTyped, IsInjective
  <2>2. ASSUME NEW k \in DOMAIN order', NEW l \in DOMAIN order', order'[k] = order'[l]
        PROVE  k = l
    BY <1>2, <1>3, <1>4, <1>5, <2>1, <2>2
  <2> QED BY <2>2 DEF IsInjective
<1>7. Queued' = Queued \cup {v}
  <2>1. \A k \in DOMAIN order' : order'[k] \in Queued \cup {v}
    BY <1>2, <1>3, <1>4 DEF Queued
  <2>2. Queued \subseteq Queued'
    <3>1. \A k \in DOMAIN order : k \in DOMAIN order' /\ order'[k] = order[k]
      BY <1>2, <1>3, <1>4
    <3> QED BY <3>1 DEF Queued
  <2>3. v \in Queued'
    BY <1>2, <1>3, <1>4 DEF Queued
  <2> QED BY <2>1, <2>2, <2>3 DEF Queued
<1> QED BY <1>1, <1>2, <1>3, <1>6, <1>7 DEF QueueTyped, HasRoom

(* An empty queue holds no video.                                             *)
LEMMA EmptyQueue ==
  ASSUME TypeOK
  PROVE  /\ Queued \subseteq Videos
         /\ order = <<>> <=> Queued = {}
<1>1. order \in Seq(Videos)
  BY TypeParts DEF QueueTyped
<1>2. /\ Len(order) \in Nat /\ DOMAIN order = 1..Len(order)
      /\ \A k \in 1..Len(order) : order[k] \in Videos
  BY <1>1, LenProperties, ElementOfSeq
<1>3. order # <<>> => Len(order) > 0
  BY <1>1, EmptySeq
<1>4. order # <<>> => order[1] \in Queued
  BY <1>2, <1>3 DEF Queued
<1>5. order = <<>> => Queued = {}
  BY <1>2 DEF Queued
<1> QED BY <1>2, <1>4, <1>5 DEF Queued

-----------------------------------------------------------------------------
(* Every step keeps the types.                                                *)

LEMMA ChangedTyped ==
  ASSUME HistoryType, NEW v \in Videos, NEW why \in {"publication", "drop", "move"},
         Changed(v, why)
  PROVE  HistoryType'
<1>1. [lib \in Libraries |-> 0] \in [Libraries -> 0..MaxRevision]
  BY RefreshAssumption
<1>2. asked' \in [Videos -> [Libraries -> 0..MaxRevision]]
  BY <1>1 DEF HistoryType, Changed
<1>3. owedFor' \in [Videos -> {"publication", "drop", "move"}]
  BY DEF HistoryType, Changed
<1> QED BY <1>2, <1>3 DEF HistoryType

LEMMA ScanAskedTyped ==
  ASSUME TypeOK, NEW lib, NEW revision \in Revisions, ScanAsked(lib, revision),
         UNCHANGED owedFor
  PROVE  HistoryType'
<1>1. HistoryType /\ revision \in 0..MaxRevision
  BY TypeParts DEF Revisions
<1>2. \A v \in Videos : [asked[v] EXCEPT ![lib] = revision] \in [Libraries -> 0..MaxRevision]
  BY <1>1 DEF HistoryType
<1>3. asked' \in [Videos -> [Libraries -> 0..MaxRevision]]
  BY <1>2 DEF ScanAsked
<1> QED BY <1>1, <1>3 DEF HistoryType

LEMMA NotifyTyped ==
  ASSUME TypeOK, NEW v \in Videos,
         \/ NotifyQueued(v) \/ NotifyUnsupported(v) \/ NotifyOverflow(v)
         \/ \E place \in Places : NotifyNew(v, place)
  PROVE  TypeOK'
<1> DEFINE counted == [Synced EXCEPT !.publications = @ + 1]
<1>1. /\ config \in ConfigType /\ QueueTyped(order) /\ WorkerTyped(worker)
      /\ target \in [Videos -> TargetType] /\ scanned \in [Libraries -> Counts]
      /\ rescan \in [Rescanners -> RescanType]
      /\ disk \in [Videos -> Places \cup {"moved"}] /\ HistoryType
  BY TypeParts
<1>2. Synced \in ServerType
  BY SyncedServer
<1>3. Synced.publications < MaxPublications => counted \in ServerType
  BY <1>2, RefreshAssumption DEF ServerType, Counts
<1> HIDE DEF counted
<1>4. /\ config' \in ConfigType /\ scanned' \in [Libraries -> Counts]
      /\ rescan' \in [Rescanners -> RescanType]
  BY <1>1 DEF NotifyQueued, NotifyUnsupported, NotifyOverflow, NotifyNew, Notify
<1>5. CASE NotifyQueued(v)
  <2>1. Start(counted, order, target') /\ counted \in ServerType
    BY <1>3, <1>5 DEF NotifyQueued, counted
  <2>2. server' \in ServerType /\ WorkerTyped(worker')
    BY <2>1, StartServer
  <2>3. target' \in [Videos -> TargetType]
    BY <1>1, <1>5 DEF NotifyQueued, TargetType, Places
  <2>4. HistoryType'
    BY <1>1, <1>5, ChangedTyped DEF NotifyQueued
  <2>5. QueueTyped(order') /\ disk' \in [Videos -> Places \cup {"moved"}]
    BY <1>1, <1>5 DEF NotifyQueued
  <2> QED BY <1>4, <2>2, <2>3, <2>4, <2>5, TypePartsPrimed
<1>6. CASE NotifyUnsupported(v)
  <2>1. Start(Synced, order, target')
    BY <1>6 DEF NotifyUnsupported
  <2>2. server' \in ServerType /\ WorkerTyped(worker')
    BY <1>2, <2>1, StartServer
  <2>3. target' \in [Videos -> TargetType]
    BY <1>1, <1>6 DEF NotifyUnsupported, TargetType
  <2>4. disk' \in [Videos -> Places \cup {"moved"}]
    BY <1>1, <1>6 DEF NotifyUnsupported, Places
  <2>5. QueueTyped(order') /\ HistoryType'
    BY <1>1, <1>6 DEF NotifyUnsupported, historyVars, HistoryType
  <2> QED BY <1>4, <2>2, <2>3, <2>4, <2>5, TypePartsPrimed
<1>7. CASE NotifyOverflow(v)
  <2>1. server' \in ServerType
    BY <1>2, <1>7, RefreshAssumption DEF NotifyOverflow, ServerType
  <2>2. HistoryType'
    BY <1>1, <1>7, ChangedTyped DEF NotifyOverflow
  <2>3. /\ QueueTyped(order') /\ WorkerTyped(worker') /\ target' \in [Videos -> TargetType]
        /\ disk' \in [Videos -> Places \cup {"moved"}]
    BY <1>1, <1>7 DEF NotifyOverflow
  <2> QED BY <1>4, <2>1, <2>2, <2>3, TypePartsPrimed
<1>8. ASSUME NEW place \in Places, NotifyNew(v, place) PROVE TypeOK'
  <2>1. Start(counted, order', target') /\ counted \in ServerType
    BY <1>3, <1>8 DEF NotifyNew, counted
  <2>2. server' \in ServerType /\ WorkerTyped(worker')
    BY <2>1, StartServer
  <2>3. target' \in [Videos -> TargetType]
    BY <1>1, <1>8, NewRecords DEF NotifyNew
  <2>4. QueueTyped(order')
    BY <1>8, PutIn DEF NotifyNew
  <2>5. HistoryType'
    <3>1. CASE place = "outside"
      BY <1>1, <1>8, <3>1 DEF NotifyNew, historyVars, HistoryType
    <3>2. CASE place # "outside"
      BY <1>1, <1>8, <3>2, ChangedTyped DEF NotifyNew
    <3> QED BY <3>1, <3>2
  <2>6. disk' \in [Videos -> Places \cup {"moved"}]
    BY <1>1, <1>8 DEF NotifyNew, Places
  <2> QED BY <1>4, <2>2, <2>3, <2>4, <2>5, <2>6, TypePartsPrimed
<1> QED BY <1>5, <1>6, <1>7, <1>8

(* A target that is queued again (_relocated) is newer, ready and supported.   *)
LEMMA RequeuedTarget ==
  ASSUME NEW t \in TargetType
  PROVE  /\ Requeued(t) \in TargetType /\ Requeued(t).generation = t.generation + 1
         /\ Requeued(t).generation >= t.generation /\ Requeued(t).ready = TRUE
         /\ Requeued(t).unsupported = FALSE
<1>1. t.generation \in Nat \ {0} /\ t.generation + 1 \in Nat \ {0}
  BY DEF TargetType
<1>2. Requeued(t) \in TargetType
  BY <1>1 DEF TargetType, Requeued, Places
<1>3. Requeued(t).generation = t.generation + 1
  BY <1>1 DEF TargetType, Requeued
<1>4. Requeued(t).ready = TRUE /\ Requeued(t).unsupported = FALSE
  BY DEF TargetType, Requeued
<1> QED BY <1>1, <1>2, <1>3, <1>4

LEMMA ReadyTarget ==
  ASSUME NEW t \in TargetType
  PROVE  /\ [t EXCEPT !.ready = TRUE] \in TargetType
         /\ [t EXCEPT !.ready = TRUE].generation >= t.generation
         /\ [t EXCEPT !.ready = TRUE].ready = TRUE
         /\ [t EXCEPT !.ready = TRUE].unsupported = t.unsupported
<1>1. t.generation \in Nat \ {0}
  BY DEF TargetType
<1>2. [t EXCEPT !.ready = TRUE] \in TargetType
  BY DEF TargetType
<1>3. /\ [t EXCEPT !.ready = TRUE].generation = t.generation
      /\ [t EXCEPT !.ready = TRUE].unsupported = t.unsupported
      /\ [t EXCEPT !.ready = TRUE].ready = TRUE
  BY DEF TargetType
<1> QED BY <1>1, <1>2, <1>3

(* Retry changes the targets of the queue only, and each as _relocated says.   *)
LEMMA RetryTargets ==
  ASSUME TypeOK, Retry
  PROVE  /\ target' \in [Videos -> TargetType] /\ disk' \in [Videos -> Places \cup {"moved"}]
         /\ \A v \in Videos :
              /\ target'[v].generation >= target[v].generation
              /\ v \notin Queued => target'[v] = target[v]
              /\ v \in Queued => target'[v].ready
              /\ disk'[v] = "outside" => disk[v] = "outside" /\ target'[v].unsupported = target[v].unsupported
<1>1. target \in [Videos -> TargetType] /\ disk \in [Videos -> Places \cup {"moved"}]
  BY TypeParts
<1>2. ASSUME NEW v \in Videos
      PROVE  /\ target'[v] \in TargetType /\ disk'[v] \in Places \cup {"moved"}
             /\ target'[v].generation >= target[v].generation
             /\ v \notin Queued => target'[v] = target[v]
             /\ v \in Queued => target'[v].ready
             /\ disk'[v] = "outside" => disk[v] = "outside" /\ target'[v].unsupported = target[v].unsupported
  <2>1. target[v] \in TargetType /\ disk[v] \in Places \cup {"moved"}
    BY <1>1
  <2>2. target'[v] = IF v \notin Queued THEN target[v]
                     ELSE IF Moved(v) THEN Requeued(target[v]) ELSE [target[v] EXCEPT !.ready = TRUE]
    BY DEF Retry
  <2>3. disk'[v] = IF v \in Queued /\ Moved(v) THEN "beside" ELSE disk[v]
    BY DEF Retry
  <2>4. CASE v \notin Queued
    BY <2>1, <2>2, <2>3, <2>4 DEF TargetType
  <2>5. CASE v \in Queued /\ Moved(v)
    BY <2>1, <2>2, <2>3, <2>5, RequeuedTarget DEF Places
  <2>6. CASE v \in Queued /\ ~Moved(v)
    BY <2>1, <2>2, <2>3, <2>6, ReadyTarget
  <2> QED BY <2>4, <2>5, <2>6
<1>3. target' \in [Videos -> TargetType]
  <2>1. DOMAIN target' = Videos /\ target' = [v \in Videos |-> target'[v]]
    BY DEF Retry
  <2> QED BY <1>2, <2>1
<1>4. disk' \in [Videos -> Places \cup {"moved"}]
  <2>1. disk' = [v \in Videos |-> disk'[v]]
    BY DEF Retry
  <2> QED BY <1>2, <2>1
<1> QED BY <1>2, <1>3, <1>4

LEMMA VisitTyped ==
  ASSUME TypeOK, Retry \/ Status \/ Prune \/ \E v \in Videos : MoveSubtitle(v)
  PROVE  TypeOK'
<1>1. /\ config \in ConfigType /\ server \in ServerType /\ QueueTyped(order)
      /\ WorkerTyped(worker)
      /\ target \in [Videos -> TargetType] /\ scanned \in [Libraries -> Counts]
      /\ rescan \in [Rescanners -> RescanType]
      /\ disk \in [Videos -> Places \cup {"moved"}] /\ HistoryType
  BY TypeParts
<1>2. Synced \in ServerType
  BY SyncedServer
<1>3. CASE Retry
  <2> DEFINE counted == [Synced EXCEPT !.publications = @ + 1]
  <2>1. counted \in ServerType /\ Start(counted, order, target')
    BY <1>2, <1>3, RefreshAssumption DEF Retry, ServerType, Counts
  <2> HIDE DEF counted
  <2>2. server' \in ServerType /\ WorkerTyped(worker')
    BY <2>1, StartServer
  <2>3. /\ config' \in ConfigType /\ QueueTyped(order') /\ scanned' \in [Libraries -> Counts]
        /\ rescan' \in [Rescanners -> RescanType] /\ HistoryType'
    BY <1>1, <1>3 DEF Retry, historyVars, HistoryType
  <2> QED BY <1>3, <2>2, <2>3, RetryTargets, TypePartsPrimed
<1>4. CASE Status
  BY <1>1, <1>2, <1>4, TypePartsPrimed DEF Status, historyVars, HistoryType
<1>5. CASE Prune
  <2>1. QueueTyped(<<>>)
    BY RefreshAssumption DEF QueueTyped, IsInjective
  <2> QED BY <1>1, <1>5, <2>1, NewRecords, TypePartsPrimed DEF Prune, historyVars, HistoryType
<1>6. ASSUME NEW v \in Videos, MoveSubtitle(v) PROVE TypeOK'
  <2>1. HistoryType'
    <3>1. CASE Owes(v)
      BY <1>1, <1>6, <3>1 DEF MoveSubtitle, historyVars, HistoryType
    <3>2. CASE ~Owes(v)
      BY <1>1, <1>6, <3>2, ChangedTyped DEF MoveSubtitle
    <3> QED BY <3>1, <3>2
  <2> QED BY <1>1, <1>6, <2>1, TypePartsPrimed DEF MoveSubtitle
<1> QED BY <1>3, <1>4, <1>5, <1>6

LEMMA DrainTyped ==
  ASSUME TypeOK, WorkerLeaves \/ WorkerPicks
  PROVE  TypeOK'
<1>1. /\ config \in ConfigType /\ server \in ServerType /\ QueueTyped(order)
      /\ target \in [Videos -> TargetType] /\ scanned \in [Libraries -> Counts]
      /\ rescan \in [Rescanners -> RescanType]
      /\ disk \in [Videos -> Places \cup {"moved"}] /\ HistoryType
  BY TypeParts
<1>2. Synced \in ServerType
  BY SyncedServer
<1>3. CASE WorkerLeaves
  <2>1. /\ config' \in ConfigType /\ WorkerTyped(worker') /\ scanned' \in [Libraries -> Counts]
        /\ rescan' \in [Rescanners -> RescanType]
        /\ disk' \in [Videos -> Places \cup {"moved"}] /\ HistoryType'
    BY <1>1, <1>3, NewRecords DEF WorkerLeaves, historyVars, HistoryType
  <2>2. CASE ~config.exists
    <3>1. QueueTyped(<<>>)
      BY RefreshAssumption DEF QueueTyped, IsInjective
    <3> QED BY <1>1, <1>3, <2>1, <2>2, <3>1, NewRecords, TypePartsPrimed DEF WorkerLeaves
  <2>3. CASE config.exists
    <3>1. LeftState \in Shown
      BY <1>2 DEF LeftState, ServerType, Shown
    <3>2. server' = [Synced EXCEPT !.state = LeftState] /\ order' = order /\ target' = target
      BY <1>3, <2>3 DEF WorkerLeaves
    <3>3. server' \in ServerType
      BY <1>2, <3>1, <3>2 DEF ServerType
    <3> QED BY <1>1, <2>1, <3>2, <3>3, TypePartsPrimed
  <2> QED BY <2>2, <2>3
<1>4. CASE WorkerPicks
  <2>1. PICK v \in Queued :
          /\ worker' = [NoWorker EXCEPT
               !.phase = "picked", !.video = v, !.event = target[v].event,
               !.generation = target[v].generation, !.revision = config.revision,
               !.publications = Synced.publications, !.left = Libraries]
          /\ target' = [target EXCEPT ![v].ready = FALSE]
    BY <1>4 DEF WorkerPicks
  <2>2. v \in Videos /\ target[v] \in TargetType
    BY <1>1, EmptyQueue
  <2>3. NoWorker \in WorkerType
    BY NewRecords DEF WorkerTyped
  <2>4. /\ target[v].event \in Places /\ target[v].generation \in Nat \ {0}
        /\ config.revision \in Revisions /\ Synced.publications \in Counts
    BY <1>1, <1>2, <2>2 DEF TargetType, ConfigType, ServerType
  <2>5. WorkerTyped(worker')
    BY <2>1, <2>2, <2>3, <2>4 DEF WorkerTyped, WorkerType, AtWork
  <2>6. target' \in [Videos -> TargetType]
    BY <1>1, <2>1, <2>2 DEF TargetType
  <2>7. server' \in ServerType
    BY <1>2, <1>4 DEF WorkerPicks, ServerType, Shown
  <2> QED BY <1>1, <1>4, <2>5, <2>6, <2>7, TypePartsPrimed
          DEF WorkerPicks, historyVars, HistoryType
<1> QED BY <1>3, <1>4

(* A step of the ladder changes the thread, the memo and what was asked.      *)
Climb ==
  \/ WorkerClimbs \/ ItemAccepted \/ ItemMissed
  \/ \E lib \in Libraries : ScanSuppressed(lib) \/ ScanRecorded(lib)
  \/ ScanAccepted \/ ScanRefused \/ LibrariesAsked \/ RefreshFails

LEMMA ClimbFrame ==
  ASSUME Climb
  PROVE  UNCHANGED <<config, server, order, target, rescan, disk, owedFor>>
  BY DEF Climb, WorkerClimbs, ItemAccepted, ItemMissed, ScanSuppressed, ScanRecorded,
         ScanAccepted, ScanRefused, LibrariesAsked, RefreshFails, AtServer, historyVars

(* The memo keeps its type, and what is forgotten counts as absent.           *)
LEMMA ForgetMemo ==
  ASSUME scanned \in [Libraries -> Counts], Forget
  PROVE  /\ scanned' \in [Libraries -> Counts]
         /\ \A lib \in Libraries :
              scanned'[lib] = IF lib \in worker.recorded THEN 0 ELSE scanned[lib]
<1>1. 0 \in Counts
  BY RefreshAssumption DEF Counts
<1> QED BY <1>1 DEF Forget

LEMMA ClimbTyped ==
  ASSUME TypeOK, Climb
  PROVE  TypeOK'
<1>1. /\ worker \in WorkerType /\ (worker.phase \in AtWork => worker.video \in Videos)
      /\ scanned \in [Libraries -> Counts] /\ HistoryType
  BY TypeParts DEF WorkerTyped
<1>2. SUFFICES WorkerTyped(worker') /\ scanned' \in [Libraries -> Counts] /\ HistoryType'
  BY ClimbFrame, TypeParts, TypePartsPrimed
<1>3. CASE WorkerClimbs
  BY <1>1, <1>3 DEF WorkerClimbs, AtServer, WorkerTyped, WorkerType, AtWork, historyVars, HistoryType
<1>4. CASE ItemAccepted
  <2>1. worker.revision \in 0..MaxRevision /\ worker.video \in Videos
    BY <1>1, <1>4 DEF ItemAccepted, AtServer, AtWork, WorkerType, Revisions
  <2>2. [lib \in Libraries |-> worker.revision] \in [Libraries -> 0..MaxRevision]
    BY <2>1
  <2>3. HistoryType'
    BY <1>1, <1>4, <2>1, <2>2 DEF ItemAccepted, HistoryType
  <2>4. WorkerTyped(worker') /\ scanned' \in [Libraries -> Counts]
    BY <1>1, <1>4, <2>1 DEF ItemAccepted, WorkerTyped, WorkerType, AtWork
  <2> QED BY <2>3, <2>4
<1>5. CASE ItemMissed
  BY <1>1, <1>5 DEF ItemMissed, AtServer, WorkerTyped, WorkerType, AtWork, historyVars, HistoryType
<1>6. ASSUME NEW lib \in Libraries, ScanSuppressed(lib)
      PROVE  WorkerTyped(worker') /\ scanned' \in [Libraries -> Counts] /\ HistoryType'
  BY <1>1, <1>6 DEF ScanSuppressed, AtServer, WorkerTyped, WorkerType, historyVars, HistoryType
<1>7. ASSUME NEW lib \in Libraries, ScanRecorded(lib)
      PROVE  WorkerTyped(worker') /\ scanned' \in [Libraries -> Counts] /\ HistoryType'
  <2>1. worker.publications \in Counts
    BY <1>1 DEF WorkerType
  <2>2. scanned' \in [Libraries -> Counts] /\ HistoryType'
    BY <1>1, <1>7, <2>1 DEF ScanRecorded, historyVars, HistoryType
  <2>3. worker' \in WorkerType
    BY <1>1, <1>7 DEF ScanRecorded, WorkerType, AtWork
  <2>4. worker'.video = worker.video /\ worker.phase \in AtWork
    BY <1>1, <1>7 DEF ScanRecorded, AtServer, WorkerType, AtWork
  <2> QED BY <1>1, <2>2, <2>3, <2>4 DEF WorkerTyped
<1>8. CASE ScanAccepted
  <2>1. worker' \in WorkerType
    BY <1>1, <1>8 DEF ScanAccepted, WorkerType, AtWork
  <2>2. worker'.video = worker.video /\ worker.phase \in AtWork
    BY <1>1, <1>8 DEF ScanAccepted, AtServer, WorkerType, AtWork
  <2>3. worker.revision \in Revisions
    BY <1>1 DEF WorkerType
  <2>4. HistoryType'
    BY <1>8, <2>3, ScanAskedTyped DEF ScanAccepted
  <2> QED BY <1>1, <1>8, <2>1, <2>2, <2>4 DEF ScanAccepted, WorkerTyped
<1>9. CASE ScanRefused
  <2>1. worker' \in WorkerType
    BY <1>1, <1>9 DEF ScanRefused, WorkerType, AtWork
  <2>2. worker'.video = worker.video /\ worker.phase \in AtWork
    BY <1>1, <1>9 DEF ScanRefused, AtServer, WorkerType, AtWork
  <2> QED BY <1>1, <1>9, <2>1, <2>2 DEF ScanRefused, WorkerTyped, historyVars, HistoryType
<1>10. CASE LibrariesAsked
  BY <1>1, <1>10 DEF LibrariesAsked, AtServer, WorkerTyped, WorkerType, AtWork, historyVars, HistoryType
<1>11. CASE RefreshFails
  <2>1. worker.phase \in AtWork
    BY <1>11 DEF RefreshFails, AtServer
  <2>2. WorkerTyped(worker')
    BY <1>1, <1>11, <2>1 DEF RefreshFails, WorkerTyped, WorkerType, AtWork
  <2> QED BY <1>1, <1>11, <2>2, ForgetMemo DEF RefreshFails, historyVars, HistoryType
<1> QED BY <1>3, <1>4, <1>5, <1>6, <1>7, <1>8, <1>9, <1>10, <1>11 DEF Climb

(* The second lock region.                                                    *)
LEMMA SettleTyped ==
  ASSUME TypeOK,
         \/ SettleCovered \/ SettleRequeues \/ SettleKeepsWarning
         \/ SettleRepublished \/ SettleFailed \/ SettleGone
  PROVE  TypeOK'
<1>1. /\ config \in ConfigType /\ server \in ServerType /\ QueueTyped(order)
      /\ target \in [Videos -> TargetType] /\ WorkerTyped(worker)
      /\ scanned \in [Libraries -> Counts] /\ rescan \in [Rescanners -> RescanType]
      /\ disk \in [Videos -> Places \cup {"moved"}] /\ HistoryType
  BY TypeParts
<1>2. ASSUME NEW state \in Shown, Settle(state)
      PROVE  /\ config' \in ConfigType /\ server' \in ServerType /\ WorkerTyped(worker')
             /\ scanned' \in [Libraries -> Counts] /\ rescan' \in [Rescanners -> RescanType]
             /\ HistoryType' /\ worker.video \in Videos
  <2>1. server' \in ServerType
    BY <1>1, <1>2 DEF Settle, ServerType
  <2>2. worker.video \in Videos
    BY <1>1, <1>2 DEF Settle, WorkerTyped, AtWork
  <2> QED BY <1>1, <1>2, <2>1, <2>2, NewRecords DEF Settle, historyVars, HistoryType
<1>3. "requested" \in Shown /\ "unconfirmed" \in Shown
  BY DEF Shown
<1>4. CASE SettleCovered
  <2>1. Settle("requested") /\ TakeOut(worker.video) /\ disk' = disk
    BY <1>4 DEF SettleCovered
  <2> QED BY <1>1, <1>2, <1>3, <2>1, TakenOut, TypePartsPrimed
<1>5. CASE SettleRequeues
  <2>1. /\ Settle("requested") /\ order' = order
        /\ target' = [target EXCEPT ![worker.video] = Requeued(target[worker.video])]
        /\ disk' = [disk EXCEPT ![worker.video] = "beside"]
    BY <1>5 DEF SettleRequeues
  <2>2. worker.video \in Videos
    BY <1>2, <1>3, <2>1
  <2>3. Requeued(target[worker.video]) \in TargetType
    BY <1>1, <2>2, RequeuedTarget
  <2>4. target' \in [Videos -> TargetType] /\ disk' \in [Videos -> Places \cup {"moved"}]
    BY <1>1, <2>1, <2>3 DEF Places
  <2> QED BY <1>1, <1>2, <1>3, <2>1, <2>4, TypePartsPrimed
<1>6. CASE SettleKeepsWarning
  <2>1. /\ Settle("unconfirmed") /\ order' = order /\ disk' = disk
        /\ target' = [target EXCEPT ![worker.video].event = "outside"]
    BY <1>6 DEF SettleKeepsWarning
  <2>2. target' \in [Videos -> TargetType]
    BY <1>1, <2>1 DEF TargetType, Places
  <2> QED BY <1>1, <1>2, <1>3, <2>1, <2>2, TypePartsPrimed
<1>7. CASE SettleRepublished
  BY <1>1, <1>2, <1>3, <1>7, TypePartsPrimed DEF SettleRepublished
<1>8. CASE SettleFailed
  BY <1>1, <1>2, <1>3, <1>8, TypePartsPrimed DEF SettleFailed
<1>9. CASE SettleGone
  BY <1>1, <1>9, NewRecords, TypePartsPrimed DEF SettleGone, historyVars, HistoryType
<1> QED BY <1>4, <1>5, <1>6, <1>7, <1>8, <1>9

LEMMA RescanTyped ==
  ASSUME TypeOK, NEW r \in Rescanners, Rescan(r)
  PROVE  TypeOK'
<1>1. /\ config \in ConfigType /\ server \in ServerType /\ QueueTyped(order)
      /\ target \in [Videos -> TargetType] /\ WorkerTyped(worker)
      /\ scanned \in [Libraries -> Counts] /\ rescan \in [Rescanners -> RescanType]
      /\ disk \in [Videos -> Places \cup {"moved"}] /\ HistoryType
  BY TypeParts
<1>2. rescan[r] \in RescanType /\ NoRescan \in RescanType
  BY <1>1, NewRecords
<1>3. CASE RescanBegins(r)
  <2>1. [NoRescan EXCEPT !.active = TRUE, !.revision = config.revision,
                         !.dropped = server.dropped, !.left = Libraries] \in RescanType
    BY <1>1, <1>2 DEF RescanType, ConfigType, ServerType
  <2> QED BY <1>1, <1>3, <2>1, TypePartsPrimed DEF RescanBegins, historyVars, HistoryType
<1>4. CASE RescanStops(r)
  BY <1>1, <1>2, <1>4, TypePartsPrimed DEF RescanStops, historyVars, HistoryType
<1>5. CASE RescanEnds(r)
  <2>1. (IF rescan[r].refused THEN server.dropped ELSE Covered(r)) \in 0..MaxDropped
    BY <1>1, RefreshAssumption DEF Covered, ServerType
  <2>2. server' \in ServerType
    BY <1>1, <1>5, <2>1 DEF RescanEnds, ServerType
  <2>3. rescan' \in [Rescanners -> RescanType]
    BY <1>1, <1>2, <1>5 DEF RescanEnds, RescanType, Clears
  <2> QED BY <1>1, <1>5, <2>2, <2>3, TypePartsPrimed DEF RescanEnds, historyVars, HistoryType
<1>6. ASSUME NEW lib \in Libraries, RescanAccepted(r, lib) \/ RescanMisses(r, lib) PROVE TypeOK'
  <2>1. HistoryType'
    BY <1>2, <1>6, ScanAskedTyped DEF RescanAccepted, RescanMisses, RescanType
  <2>2. rescan' \in [Rescanners -> RescanType]
    BY <1>1, <1>2, <1>6 DEF RescanAccepted, RescanMisses, RescanType
  <2> QED BY <1>1, <1>6, <2>1, <2>2, TypePartsPrimed DEF RescanAccepted, RescanMisses
<1>7. ASSUME NEW lib \in Libraries, RescanRefused(r, lib) PROVE TypeOK'
  <2>1. rescan' \in [Rescanners -> RescanType]
    BY <1>1, <1>2, <1>7 DEF RescanRefused, RescanType
  <2> QED BY <1>1, <1>7, <2>1, TypePartsPrimed DEF RescanRefused, historyVars, HistoryType
<1> QED BY <1>3, <1>4, <1>5, <1>6, <1>7 DEF Rescan

LEMMA ConfigTyped ==
  ASSUME TypeOK, Delete \/ \E enabled \in BOOLEAN : Edit(enabled)
  PROVE  TypeOK'
<1>1. config \in ConfigType
  BY TypeParts
<1>2. config' \in ConfigType
  <2>1. CASE Delete
    BY <1>1, <2>1 DEF Delete, ConfigType
  <2>2. ASSUME NEW enabled \in BOOLEAN, Edit(enabled) PROVE config' \in ConfigType
    <3>1. config.revision \in Revisions /\ config.revision < MaxRevision
      BY <1>1, <2>2 DEF Edit, ConfigType
    <3>2. config.revision + 1 \in Revisions
      BY <3>1, RefreshAssumption DEF Revisions
    <3> QED BY <1>1, <2>2, <3>2 DEF Edit, ConfigType
  <2> QED BY <2>1, <2>2
<1> QED BY <1>2, TypeParts, TypePartsPrimed DEF Delete, Edit, historyVars, HistoryType

LEMMA InitTyped == Init => TypeOK
<1>1. 1 \in Revisions /\ 1 \in 0..MaxRevision
  BY RefreshAssumption DEF Revisions
<1>2. QueueTyped(<<>>)
  BY RefreshAssumption DEF QueueTyped, IsInjective
<1>3. ASSUME Init PROVE HistoryType
  BY <1>1, <1>3 DEF Init, HistoryType
<1>4. ASSUME Init PROVE disk \in [Videos -> Places \cup {"moved"}]
  BY <1>4 DEF Init, Places
<1>5. ASSUME Init PROVE config \in ConfigType
  BY <1>1, <1>5 DEF Init, ConfigType
<1> QED BY <1>2, <1>3, <1>4, <1>5, NewRecords, TypeParts DEF Init

LEMMA NextTyped == TypeOK /\ [Next]_vars => TypeOK'
<1> SUFFICES ASSUME TypeOK, [Next]_vars PROVE TypeOK'
  OBVIOUS
<1>1. CASE Queue
  BY <1>1, NotifyTyped, VisitTyped DEF Queue
<1>2. CASE Drain
  BY <1>2, DrainTyped, ClimbTyped, SettleTyped DEF Drain, Climb
<1>3. CASE UNCHANGED vars
  BY <1>3 DEF vars, historyVars, TypeOK, QueueTyped
<1> QED BY <1>1, <1>2, <1>3, ConfigTyped, RescanTyped DEF Next

(* The shape of the dispatcher's state holds initially and every step keeps it. *)
THEOREM Typing == Spec => []TypeOK
  BY InitTyped, NextTyped, PTL DEF Spec

-----------------------------------------------------------------------------
(* What the steps do to the state, in the terms of the invariants.            *)

(* A visit: what first adopts the saved revision and then leaves the thread   *)
(* alone or starts it.                                                        *)
Notified(v) ==
  \/ NotifyQueued(v) \/ NotifyUnsupported(v) \/ NotifyOverflow(v)
  \/ \E place \in Places : NotifyNew(v, place)
Visit == Status \/ Retry \/ \E v \in Videos : Notified(v)

LEMMA UnknownServer ==
  /\ Unknown.known = FALSE /\ Unknown.publications = 0 /\ Unknown.dropped = 0
  /\ \A rev : /\ NewServer(rev).known = TRUE /\ NewServer(rev).revision = rev
              /\ NewServer(rev).publications = 0 /\ NewServer(rev).dropped = 0
              /\ NewServer(rev).state = "idle"
  BY DEF Unknown, NewServer

LEMMA SyncedVisit ==
  ASSUME TypeOK, Structure, config.exists
  PROVE  /\ Synced.known = TRUE /\ Synced.revision = config.revision
         /\ Synced.dropped = server.dropped /\ Synced.publications = server.publications
         /\ order # <<>> => Synced.publications > 0
         /\ ~(server.known /\ server.revision = config.revision) =>
              Synced.state = IF order = <<>> THEN "idle" ELSE "unconfirmed"
         /\ server.known /\ server.revision = config.revision => Synced = server
<1>1. server \in ServerType
  BY TypeParts
<1>2. CASE ~server.known
  <2>1. Synced = NewServer(config.revision) /\ server = Unknown /\ order = <<>>
    BY <1>2 DEF Synced, Structure, Fresh
  <2> QED BY <1>2, <2>1, UnknownServer
<1>3. CASE server.known /\ server.revision = config.revision
  <2>1. Synced = server
    BY <1>3 DEF Synced
  <2>2. Synced.known = TRUE
    BY <1>1, <1>3, <2>1 DEF ServerType
  <2> QED BY <1>3, <2>1, <2>2 DEF Structure
<1>4. CASE server.known /\ server.revision # config.revision
  <2>1. Synced = [server EXCEPT !.revision = config.revision,
                               !.state = IF order = <<>> THEN "idle" ELSE "unconfirmed"]
    BY <1>4 DEF Synced
  <2>2. /\ Synced.known = server.known /\ Synced.revision = config.revision
        /\ Synced.dropped = server.dropped /\ Synced.publications = server.publications
        /\ Synced.state = IF order = <<>> THEN "idle" ELSE "unconfirmed"
    BY <1>1, <2>1 DEF ServerType
  <2>3. server.known = TRUE
    BY <1>1, <1>4 DEF ServerType
  <2> QED BY <1>4, <2>2, <2>3 DEF Structure
<1> QED BY <1>2, <1>3, <1>4

(* What every visit does to the state of the destination, its queue and the   *)
(* history, and to the warnings.                                               *)
VisitFrame ==
  /\ config.exists /\ UNCHANGED <<config, scanned, rescan>>
  /\ server'.known /\ server'.revision = config.revision
  /\ server'.publications >= server.publications /\ server'.dropped >= server.dropped
  /\ order' # <<>> => server'.publications > 0
  /\ \/ worker' = worker
     \/ worker.phase = "none" /\ worker' = Draining /\ order' # <<>>
VisitQueue ==
  \A v \in Queued : v \in Queued' /\ target'[v].generation >= target[v].generation
VisitHistory ==
  \A v \in Videos :
    \/ asked'[v] = asked[v] /\ owedFor'[v] = owedFor[v]
    \/ /\ owedFor'[v] = "publication" /\ v \in Queued'
       /\ server'.publications > server.publications
       /\ v \in Queued => target'[v].generation > target[v].generation
    \/ owedFor'[v] = "drop" /\ v \notin Queued /\ server'.dropped > server.dropped
VisitWarnings ==
  \A v \in Videos : disk'[v] = "outside" =>
    \/ disk[v] = "outside" /\ (v \in Queued => target'[v].unsupported = target[v].unsupported)
    \/ v \in Queued' /\ target'[v].unsupported
(* Without a thread, only what is not ready is left in the queue.             *)
VisitMark ==
  worker'.phase = "none" /\ order' # <<>> => server'.state = Synced.state /\ order' = order
VisitEffect == VisitFrame /\ VisitQueue /\ VisitHistory /\ VisitWarnings /\ VisitMark

LEMMA EmptyQueuePrimed ==
  ASSUME TypeOK'
  PROVE  Queued' \subseteq Videos /\ (order' = <<>> <=> Queued' = {})
<1>1. order' \in Seq(Videos)
  BY TypePartsPrimed DEF QueueTyped
<1>2. /\ Len(order') \in Nat /\ DOMAIN order' = 1..Len(order')
      /\ \A k \in 1..Len(order') : order'[k] \in Videos
  BY <1>1, LenProperties, ElementOfSeq
<1>3. order' # <<>> => Len(order') > 0
  BY <1>1, EmptySeq
<1>4. order' # <<>> => order'[1] \in Queued'
  BY <1>2, <1>3 DEF Queued
<1>5. order' = <<>> => Queued' = {}
  BY <1>2 DEF Queued
<1> QED BY <1>2, <1>4, <1>5 DEF Queued

(* A visit that starts the thread, or leaves it, on the counts it keeps.      *)
LEMMA StartVisit ==
  ASSUME TypeOK, Structure, config.exists, UNCHANGED <<config, scanned, rescan>>,
         NEW next \in ServerType, Start(next, order', target'),
         next.known, next.revision = config.revision,
         next.publications >= server.publications, next.dropped >= server.dropped,
         order' # <<>> => next.publications > 0
  PROVE  /\ VisitFrame
         /\ server'.publications = next.publications /\ server'.dropped = next.dropped
         /\ worker'.phase = "none" =>
              /\ server' = next
              /\ \A i \in DOMAIN order' : ~target'[order'[i]].ready
<1>1. \/ worker' = worker /\ server' = next
      \/ /\ worker.phase = "none" /\ worker' = Draining
         /\ \E i \in DOMAIN order' : target'[order'[i]].ready
  BY StartServer
<1>2. /\ server'.known = next.known /\ server'.revision = next.revision
      /\ server'.dropped = next.dropped /\ server'.publications = next.publications
  BY StartServer
<1>3. (\E i \in DOMAIN order' : target'[order'[i]].ready) => order' # <<>>
  BY EmptySeq, LenProperties
<1>4. Draining.phase = "drain"
  BY DEF Draining, NoWorker
<1>5. VisitFrame
  BY <1>1, <1>2, <1>3 DEF VisitFrame
<1>6. worker'.phase = "none" =>
        /\ server' = next
        /\ \A i \in DOMAIN order' : ~target'[order'[i]].ready
  BY <1>1, <1>4, StartServer
<1> QED BY <1>2, <1>5, <1>6

LEMMA NotifyQueuedVisit ==
  ASSUME TypeOK, Structure, NEW v \in Videos, NotifyQueued(v)
  PROVE  VisitEffect
<1> DEFINE counted == [Synced EXCEPT !.publications = @ + 1]
<1>1. /\ config.exists /\ UNCHANGED <<config, scanned, rescan>> /\ v \in Queued
      /\ Synced.publications < MaxPublications /\ Start(counted, order, target')
      /\ target' = [target EXCEPT ![v].event = "beside", ![v].generation = @ + 1, ![v].ready = TRUE]
      /\ Changed(v, "publication") /\ order' = order /\ disk' = disk
  BY DEF NotifyQueued, Notify, InQueue
<1>2. Synced \in ServerType /\ server \in ServerType /\ target \in [Videos -> TargetType] /\ HistoryType
  BY SyncedServer, TypeParts
<1>3. /\ counted \in ServerType /\ counted.publications = Synced.publications + 1
      /\ counted.known = Synced.known /\ counted.revision = Synced.revision
      /\ counted.dropped = Synced.dropped /\ counted.state = Synced.state
  BY <1>1, <1>2, RefreshAssumption DEF ServerType, Counts
<1>4. server.publications \in Nat /\ server.dropped \in Nat
  BY <1>2 DEF ServerType, Counts
<1> HIDE DEF counted
<1>5. /\ counted.known /\ counted.revision = config.revision
      /\ counted.publications > server.publications /\ counted.publications > 0
      /\ counted.publications >= server.publications /\ counted.dropped >= server.dropped
  <2>1. /\ Synced.known = TRUE /\ Synced.revision = config.revision
        /\ Synced.dropped = server.dropped /\ Synced.publications = server.publications
    BY <1>1, SyncedVisit
  <2>2. counted.known
    BY <1>3, <2>1
  <2>3. /\ counted.publications > server.publications /\ counted.publications > 0
        /\ counted.publications >= server.publications /\ counted.dropped >= server.dropped
    BY <1>3, <1>4, <2>1
  <2> QED BY <1>3, <2>1, <2>2, <2>3
<1>6. /\ VisitFrame
      /\ server'.publications = counted.publications
      /\ worker'.phase = "none" => \A i \in DOMAIN order' : ~target'[order'[i]].ready
  BY <1>1, <1>3, <1>5, StartVisit
<1>7. /\ target'[v].generation = target[v].generation + 1 /\ target'[v].ready = TRUE
      /\ target'[v].unsupported = target[v].unsupported
      /\ \A u \in Videos : u # v => target'[u] = target[u]
      /\ \A u \in Videos : target[u].generation \in Nat
  <2>1. v \in Videos /\ target[v] \in TargetType
    BY <1>2
  <2>2. \A u \in Videos : target[u].generation \in Nat
    BY <1>2 DEF TargetType
  <2>3. target'[v] = [target[v] EXCEPT !.event = "beside", !.generation = @ + 1, !.ready = TRUE]
    BY <1>1, <1>2
  <2>4. \A u \in Videos : u # v => target'[u] = target[u]
    BY <1>1, <1>2
  <2>5. /\ target'[v].generation = target[v].generation + 1 /\ target'[v].ready = TRUE
        /\ target'[v].unsupported = target[v].unsupported
    BY <2>1, <2>3 DEF TargetType
  <2> QED BY <2>2, <2>4, <2>5
<1>8. Queued' = Queued /\ Queued \subseteq Videos
  BY <1>1, EmptyQueue DEF Queued
<1>9. VisitQueue
  BY <1>7, <1>8 DEF VisitQueue
<1>10. VisitHistory
  <2>1. ASSUME NEW u \in Videos, u # v PROVE asked'[u] = asked[u] /\ owedFor'[u] = owedFor[u]
    BY <1>1, <1>2, <2>1 DEF Changed, HistoryType
  <2>2. owedFor'[v] = "publication"
    BY <1>1, <1>2 DEF Changed, HistoryType
  <2>3. server'.publications > server.publications /\ target'[v].generation > target[v].generation
    BY <1>5, <1>6, <1>7
  <2> QED BY <1>1, <1>8, <2>1, <2>2, <2>3 DEF VisitHistory
<1>11. VisitWarnings
  BY <1>1, <1>7 DEF VisitWarnings
<1>12. VisitMark
  <2>1. PICK i \in DOMAIN order' : order'[i] = v
    BY <1>1 DEF Queued
  <2> QED BY <1>6, <1>7, <2>1 DEF VisitMark
<1> QED BY <1>6, <1>9, <1>10, <1>11, <1>12 DEF VisitEffect

LEMMA NotifyUnsupportedVisit ==
  ASSUME TypeOK, Structure, NEW v \in Videos, NotifyUnsupported(v)
  PROVE  VisitEffect
<1>1. /\ config.exists /\ UNCHANGED <<config, scanned, rescan>> /\ v \in Queued
      /\ Start(Synced, order, target')
      /\ target' = [target EXCEPT ![v].unsupported = TRUE]
      /\ disk' = [disk EXCEPT ![v] = "outside"]
      /\ order' = order /\ asked' = asked /\ owedFor' = owedFor
  BY DEF NotifyUnsupported, Notify, InQueue, historyVars
<1>2. Synced \in ServerType /\ server \in ServerType /\ target \in [Videos -> TargetType]
      /\ disk \in [Videos -> Places \cup {"moved"}]
  BY SyncedServer, TypeParts
<1>3. server.publications \in Nat /\ server.dropped \in Nat
  BY <1>2 DEF ServerType, Counts
<1>4. /\ Synced.known /\ Synced.revision = config.revision
      /\ Synced.publications >= server.publications /\ Synced.dropped >= server.dropped
      /\ order' # <<>> => Synced.publications > 0
  <2>1. /\ Synced.known = TRUE /\ Synced.revision = config.revision
        /\ Synced.dropped = server.dropped /\ Synced.publications = server.publications
        /\ order' # <<>> => Synced.publications > 0
    BY <1>1, SyncedVisit
  <2>2. Synced.publications >= server.publications /\ Synced.dropped >= server.dropped
    BY <1>3, <2>1
  <2> QED BY <2>1, <2>2
<1>5. VisitFrame /\ (worker'.phase = "none" => server' = Synced)
  BY <1>1, <1>2, <1>4, StartVisit
<1>6. /\ target'[v].generation = target[v].generation /\ target'[v].unsupported = TRUE
      /\ \A u \in Videos : u # v => target'[u] = target[u]
      /\ \A u \in Videos : target[u].generation \in Nat
  <2>1. \A u \in Videos : target[u] \in TargetType /\ target[u].generation \in Nat
    BY <1>2 DEF TargetType
  <2> QED BY <1>1, <1>2, <2>1 DEF TargetType
<1>7. Queued' = Queued /\ Queued \subseteq Videos
  BY <1>1, EmptyQueue DEF Queued
<1>8. VisitQueue
  BY <1>6, <1>7 DEF VisitQueue
<1>9. VisitHistory
  BY <1>1 DEF VisitHistory
<1>10. VisitWarnings
  <2>1. ASSUME NEW u \in Videos, u # v PROVE disk'[u] = disk[u] /\ target'[u] = target[u]
    BY <1>1, <1>2, <1>6, <2>1
  <2> QED BY <1>1, <1>6, <1>7, <2>1 DEF VisitWarnings
<1>11. VisitMark
  BY <1>1, <1>5 DEF VisitMark
<1> QED BY <1>5, <1>8, <1>9, <1>10, <1>11 DEF VisitEffect

LEMMA NotifyOverflowVisit ==
  ASSUME TypeOK, Structure, NEW v \in Videos, NotifyOverflow(v)
  PROVE  VisitEffect
<1>1. /\ config.exists /\ UNCHANGED <<config, scanned, rescan>> /\ v \notin Queued
      /\ server' = [Synced EXCEPT !.dropped = @ + 1] /\ Changed(v, "drop")
      /\ UNCHANGED <<order, target, worker, disk>>
  BY DEF NotifyOverflow, Notify, InQueue
<1>2. Synced \in ServerType /\ server \in ServerType /\ target \in [Videos -> TargetType] /\ HistoryType
  BY SyncedServer, TypeParts
<1>3. server.publications \in Nat /\ server.dropped \in Nat
  BY <1>2 DEF ServerType, Counts
<1>4. /\ server'.known = Synced.known /\ server'.revision = Synced.revision
      /\ server'.publications = Synced.publications /\ server'.dropped = Synced.dropped + 1
      /\ server'.state = Synced.state
  BY <1>1, <1>2 DEF ServerType
<1>5. VisitFrame /\ server'.dropped > server.dropped
  <2>1. /\ Synced.known = TRUE /\ Synced.revision = config.revision
        /\ Synced.dropped = server.dropped /\ Synced.publications = server.publications
        /\ order' # <<>> => Synced.publications > 0
    BY <1>1, SyncedVisit
  <2>2. server'.known /\ server'.revision = config.revision
    BY <1>4, <2>1
  <2>3. /\ server'.publications >= server.publications /\ server'.dropped >= server.dropped
        /\ server'.dropped > server.dropped /\ (order' # <<>> => server'.publications > 0)
    BY <1>3, <1>4, <2>1
  <2> QED BY <1>1, <2>2, <2>3 DEF VisitFrame
<1>6. Queued' = Queued /\ Queued \subseteq Videos
  BY <1>1, EmptyQueue DEF Queued
<1>7. VisitQueue
  <2>1. \A u \in Videos : target[u].generation \in Nat
    BY <1>2 DEF TargetType
  <2> QED BY <1>1, <1>6, <2>1 DEF VisitQueue
<1>8. VisitHistory
  <2>1. ASSUME NEW u \in Videos, u # v PROVE asked'[u] = asked[u] /\ owedFor'[u] = owedFor[u]
    BY <1>1, <1>2, <2>1 DEF Changed, HistoryType
  <2>2. owedFor'[v] = "drop"
    BY <1>1, <1>2 DEF Changed, HistoryType
  <2> QED BY <1>1, <1>5, <2>1, <2>2 DEF VisitHistory
<1>9. VisitWarnings /\ VisitMark
  BY <1>1, <1>4 DEF VisitWarnings, VisitMark
<1> QED BY <1>5, <1>7, <1>8, <1>9 DEF VisitEffect

LEMMA NotifyNewVisit ==
  ASSUME TypeOK, Structure, NEW v \in Videos, NEW place \in Places, NotifyNew(v, place)
  PROVE  VisitEffect
<1> DEFINE counted == [Synced EXCEPT !.publications = @ + 1]
<1>1. /\ config.exists /\ UNCHANGED <<config, scanned, rescan>> /\ v \notin Queued
      /\ Synced.publications < MaxPublications /\ Start(counted, order', target')
      /\ target' = [target EXCEPT ![v] = NewTarget(place)]
  BY DEF NotifyNew, Notify, InQueue
<1>2. Synced \in ServerType /\ server \in ServerType /\ target \in [Videos -> TargetType] /\ HistoryType
      /\ disk \in [Videos -> Places \cup {"moved"}]
  BY SyncedServer, TypeParts
<1>3. /\ counted \in ServerType /\ counted.publications = Synced.publications + 1
      /\ counted.known = Synced.known /\ counted.revision = Synced.revision
      /\ counted.dropped = Synced.dropped
  BY <1>1, <1>2, RefreshAssumption DEF ServerType, Counts
<1>4. server.publications \in Nat /\ server.dropped \in Nat
  BY <1>2 DEF ServerType, Counts
<1> HIDE DEF counted
<1>5. /\ counted.known /\ counted.revision = config.revision
      /\ counted.publications > server.publications /\ counted.publications > 0
      /\ counted.publications >= server.publications /\ counted.dropped >= server.dropped
  <2>1. /\ Synced.known = TRUE /\ Synced.revision = config.revision
        /\ Synced.dropped = server.dropped /\ Synced.publications = server.publications
    BY <1>1, SyncedVisit
  <2>2. counted.known
    BY <1>3, <2>1
  <2>3. /\ counted.publications > server.publications /\ counted.publications > 0
        /\ counted.publications >= server.publications /\ counted.dropped >= server.dropped
    BY <1>3, <1>4, <2>1
  <2> QED BY <1>3, <2>1, <2>2, <2>3
<1>6. /\ VisitFrame
      /\ server'.publications = counted.publications
      /\ worker'.phase = "none" => \A i \in DOMAIN order' : ~target'[order'[i]].ready
  BY <1>1, <1>3, <1>5, StartVisit
<1>7. /\ target'[v] = NewTarget(place)
      /\ \A u \in Videos : u # v => target'[u] = target[u]
      /\ \A u \in Videos : target[u].generation \in Nat
  <2>1. \A u \in Videos : target[u] \in TargetType /\ target[u].generation \in Nat
    BY <1>2 DEF TargetType
  <2> QED BY <1>1, <1>2, <2>1
<1>8. Queued' = Queued \cup {v} /\ Queued \subseteq Videos
  BY EmptyQueue, PutIn DEF NotifyNew
<1>9. VisitQueue
  BY <1>1, <1>7, <1>8 DEF VisitQueue
<1>10. VisitHistory
  <2>1. ASSUME NEW u \in Videos, u # v PROVE asked'[u] = asked[u] /\ owedFor'[u] = owedFor[u]
    BY <1>2, <2>1 DEF NotifyNew, Changed, HistoryType, historyVars
  <2>2. place # "outside" => owedFor'[v] = "publication"
    BY <1>2 DEF NotifyNew, Changed, HistoryType
  <2>3. place = "outside" => asked' = asked /\ owedFor' = owedFor
    BY DEF NotifyNew, historyVars
  <2> QED BY <1>1, <1>5, <1>6, <1>8, <2>1, <2>2, <2>3 DEF VisitHistory
<1>11. VisitWarnings
  <2>1. place = "outside" => target'[v].unsupported
    <3>1. NewTarget("outside").unsupported = ("outside" = "outside")
      BY DEF NewTarget
    <3> QED BY <1>7, <3>1
  <2>2. ASSUME NEW u \in Videos, u # v PROVE disk'[u] = disk[u] /\ target'[u] = target[u]
    BY <1>2, <1>7, <2>2 DEF NotifyNew
  <2>3. place # "outside" => disk' = disk
    BY DEF NotifyNew
  <2> QED BY <1>1, <1>8, <2>1, <2>2, <2>3 DEF VisitWarnings
<1>12. VisitMark
  <2>1. target'[v].ready
    BY <1>7 DEF NewTarget
  <2>2. PICK i \in DOMAIN order' : order'[i] = v
    BY <1>8 DEF Queued
  <2> QED BY <1>6, <2>1, <2>2 DEF VisitMark
<1> QED BY <1>6, <1>9, <1>10, <1>11, <1>12 DEF VisitEffect

LEMMA RetryVisit ==
  ASSUME TypeOK, Structure, Retry
  PROVE  VisitEffect
<1> DEFINE counted == [Synced EXCEPT !.publications = @ + 1]
<1>1. /\ config.exists /\ UNCHANGED <<config, scanned, rescan>>
      /\ Synced.publications < MaxPublications /\ Start(counted, order, target')
      /\ order' = order /\ asked' = asked /\ owedFor' = owedFor
  BY DEF Retry, historyVars
<1>2. Synced \in ServerType /\ server \in ServerType
  BY SyncedServer, TypeParts
<1>3. /\ counted \in ServerType /\ counted.publications = Synced.publications + 1
      /\ counted.known = Synced.known /\ counted.revision = Synced.revision
      /\ counted.dropped = Synced.dropped
  BY <1>1, <1>2, RefreshAssumption DEF ServerType, Counts
<1>4. server.publications \in Nat /\ server.dropped \in Nat
  BY <1>2 DEF ServerType, Counts
<1> HIDE DEF counted
<1>5. /\ counted.known /\ counted.revision = config.revision
      /\ counted.publications > 0
      /\ counted.publications >= server.publications /\ counted.dropped >= server.dropped
  <2>1. /\ Synced.known = TRUE /\ Synced.revision = config.revision
        /\ Synced.dropped = server.dropped /\ Synced.publications = server.publications
    BY <1>1, SyncedVisit
  <2>2. counted.known
    BY <1>3, <2>1
  <2>3. /\ counted.publications > 0
        /\ counted.publications >= server.publications /\ counted.dropped >= server.dropped
    BY <1>3, <1>4, <2>1
  <2> QED BY <1>3, <2>1, <2>2, <2>3
<1>6. /\ VisitFrame
      /\ worker'.phase = "none" => \A i \in DOMAIN order' : ~target'[order'[i]].ready
  BY <1>1, <1>3, <1>5, StartVisit
<1>7. Queued' = Queued /\ Queued \subseteq Videos
  BY <1>1, EmptyQueue DEF Queued
<1>8. VisitQueue
  BY <1>7, RetryTargets DEF VisitQueue
<1>9. VisitHistory
  BY <1>1 DEF VisitHistory
<1>10. VisitWarnings
  BY <1>7, RetryTargets DEF VisitWarnings
<1>11. VisitMark
  <2>1. \A v \in Queued : target'[v].ready
    BY <1>7, RetryTargets
  <2>2. order' # <<>> => Queued # {}
    BY <1>1, EmptyQueue
  <2>3. \A v \in Queued : \E i \in DOMAIN order' : order'[i] = v
    BY <1>1 DEF Queued
  <2> QED BY <1>6, <2>1, <2>2, <2>3 DEF VisitMark
<1> QED BY <1>6, <1>8, <1>9, <1>10, <1>11 DEF VisitEffect

LEMMA StatusVisit ==
  ASSUME TypeOK, Structure, Status
  PROVE  VisitEffect
<1>1. /\ config.exists /\ server' = Synced /\ asked' = asked /\ owedFor' = owedFor
      /\ UNCHANGED <<config, order, target, worker, scanned, rescan, disk>>
  BY DEF Status, historyVars
<1>2. server \in ServerType /\ target \in [Videos -> TargetType]
  BY TypeParts
<1>3. server.publications \in Nat /\ server.dropped \in Nat
  BY <1>2 DEF ServerType, Counts
<1>4. VisitFrame
  <2>1. /\ Synced.known = TRUE /\ Synced.revision = config.revision
        /\ Synced.dropped = server.dropped /\ Synced.publications = server.publications
        /\ order' # <<>> => Synced.publications > 0
    BY <1>1, SyncedVisit
  <2>2. server'.known /\ server'.revision = config.revision
    BY <1>1, <2>1
  <2>3. /\ server'.publications >= server.publications /\ server'.dropped >= server.dropped
        /\ order' # <<>> => server'.publications > 0
    BY <1>1, <1>3, <2>1
  <2> QED BY <1>1, <2>2, <2>3 DEF VisitFrame
<1>5. Queued' = Queued /\ Queued \subseteq Videos
  BY <1>1, EmptyQueue DEF Queued
<1>6. VisitQueue
  <2>1. \A u \in Videos : target[u].generation \in Nat
    BY <1>2 DEF TargetType
  <2> QED BY <1>1, <1>5, <2>1 DEF VisitQueue
<1>7. VisitHistory /\ VisitWarnings /\ VisitMark
  BY <1>1 DEF VisitHistory, VisitWarnings, VisitMark
<1> QED BY <1>4, <1>6, <1>7 DEF VisitEffect

LEMMA EveryVisit ==
  ASSUME TypeOK, Structure, Visit
  PROVE  VisitEffect
  BY NotifyQueuedVisit, NotifyUnsupportedVisit, NotifyOverflowVisit, NotifyNewVisit,
     RetryVisit, StatusVisit DEF Visit, Notified

(* A step of the ladder stays at the target that was picked.                  *)
LEMMA ClimbWorker ==
  ASSUME TypeOK, Climb
  PROVE  /\ worker.phase \in AtWork /\ worker'.phase \in AtWork
         /\ worker'.video = worker.video /\ worker'.generation = worker.generation
         /\ worker'.publications = worker.publications /\ worker'.revision = worker.revision
<1>1. worker \in WorkerType
  BY TypeParts DEF WorkerTyped
<1>2. CASE WorkerClimbs \/ ItemAccepted \/ ItemMissed \/ LibrariesAsked \/ RefreshFails
  BY <1>1, <1>2 DEF WorkerClimbs, ItemAccepted, ItemMissed, LibrariesAsked, RefreshFails,
                    AtServer, WorkerType, AtWork
<1>3. ASSUME NEW lib \in Libraries, ScanSuppressed(lib) \/ ScanRecorded(lib)
      PROVE  /\ worker.phase \in AtWork /\ worker'.phase \in AtWork
             /\ worker'.video = worker.video /\ worker'.generation = worker.generation
             /\ worker'.publications = worker.publications /\ worker'.revision = worker.revision
  BY <1>1, <1>3 DEF ScanSuppressed, ScanRecorded, AtServer, WorkerType, AtWork
<1>4. CASE ScanAccepted \/ ScanRefused
  BY <1>1, <1>4 DEF ScanAccepted, ScanRefused, AtServer, WorkerType, AtWork
<1> QED BY <1>2, <1>3, <1>4 DEF Climb

(* The second lock region, when the destination is still there.               *)
Settled ==
  \/ SettleCovered \/ SettleRequeues \/ SettleKeepsWarning
  \/ SettleRepublished \/ SettleFailed
SettleQueue ==
  /\ \A v \in Videos : v \in Queued /\ v # worker.video =>
       v \in Queued' /\ target'[v] = target[v]
  /\ worker.video \in Queued /\ worker.video \notin Queued' =>
       SettleCovered
SettleWarnings ==
  \A v \in Videos : disk'[v] = "outside" =>
    /\ disk[v] = "outside"
    /\ v \in Queued /\ target[v].unsupported => v \in Queued' /\ target'[v].unsupported
SettleEffect ==
  /\ worker.phase \in {"answered", "failed"} /\ server.known
  /\ worker' = Draining /\ UNCHANGED <<config, scanned, rescan, asked, owedFor>>
  /\ server'.known = server.known /\ server'.revision = server.revision
  /\ server'.publications = server.publications /\ server'.dropped = server.dropped
  /\ Queued' \subseteq Queued /\ SettleQueue /\ SettleWarnings

LEMMA SettleStep ==
  ASSUME TypeOK, Settled
  PROVE  SettleEffect
<1>1. server \in ServerType /\ target \in [Videos -> TargetType] /\ WorkerTyped(worker)
      /\ disk \in [Videos -> Places \cup {"moved"}]
  BY TypeParts
<1>2. PICK state : Settle(state)
  BY DEF Settled, SettleCovered, SettleRequeues, SettleKeepsWarning, SettleRepublished, SettleFailed
<1>3. /\ worker.phase \in {"answered", "failed"} /\ server.known
      /\ worker' = Draining /\ UNCHANGED <<config, scanned, rescan, asked, owedFor>>
      /\ server' = [server EXCEPT !.state = state]
  BY <1>2 DEF Settle, historyVars
<1>4. /\ server'.known = server.known /\ server'.revision = server.revision
      /\ server'.publications = server.publications /\ server'.dropped = server.dropped
  BY <1>1, <1>3 DEF ServerType
<1>5. worker.video \in Videos
  BY <1>1, <1>3 DEF WorkerTyped, AtWork
<1>6. Queued' \subseteq Queued /\ SettleQueue /\ SettleWarnings
  <2>1. CASE SettleCovered
    <3>1. /\ Queued' = Queued \ {worker.video} /\ disk' = disk
          /\ \A u \in Videos : u # worker.video => target'[u] = target[u]
          /\ ~target[worker.video].unsupported
      BY <1>5, <2>1, TakenOut DEF SettleCovered
    <3> QED BY <2>1, <3>1 DEF SettleQueue, SettleWarnings
  <2>2. CASE SettleRequeues
    <3>1. /\ Queued' = Queued
          /\ target' = [target EXCEPT ![worker.video] = Requeued(target[worker.video])]
          /\ disk' = [disk EXCEPT ![worker.video] = "beside"]
      BY <2>2 DEF SettleRequeues, Queued
    <3>2. \A u \in Videos : u # worker.video => target'[u] = target[u] /\ disk'[u] = disk[u]
      BY <1>1, <3>1
    <3>3. disk'[worker.video] = "beside"
      BY <1>1, <1>5, <3>1
    <3> QED BY <3>1, <3>2, <3>3 DEF SettleQueue, SettleWarnings
  <2>3. CASE SettleKeepsWarning
    <3>1. /\ Queued' = Queued /\ disk' = disk
          /\ target' = [target EXCEPT ![worker.video].event = "outside"]
      BY <2>3 DEF SettleKeepsWarning, Queued
    <3>2. \A u \in Videos : u # worker.video => target'[u] = target[u]
      BY <1>1, <3>1
    <3>3. \A u \in Videos : target'[u].unsupported = target[u].unsupported
      BY <1>1, <3>1 DEF TargetType
    <3> QED BY <3>1, <3>2, <3>3 DEF SettleQueue, SettleWarnings
  <2>4. CASE SettleRepublished \/ SettleFailed
    <3>1. Queued' = Queued /\ target' = target /\ disk' = disk
      BY <2>4 DEF SettleRepublished, SettleFailed, Queued
    <3> QED BY <3>1 DEF SettleQueue, SettleWarnings
  <2> QED BY <2>1, <2>2, <2>3, <2>4 DEF Settled
<1> QED BY <1>3, <1>4, <1>6 DEF SettleEffect

(* A request to rescan changes its own progress, what was asked and the drops. *)
LEMMA RescanStep ==
  ASSUME TypeOK, NEW r \in Rescanners, Rescan(r)
  PROVE  /\ UNCHANGED <<config, order, target, worker, scanned, disk, owedFor>>
         /\ server'.known = server.known /\ server'.revision = server.revision
         /\ server'.publications = server.publications /\ server'.state = server.state
<1>1. server \in ServerType
  BY TypeParts
<1>2. CASE RescanEnds(r)
  BY <1>1, <1>2 DEF RescanEnds, ServerType, historyVars
<1> QED BY <1>2 DEF Rescan, RescanBegins, RescanStops, RescanAccepted, RescanMisses,
                    RescanRefused, historyVars

(* The worker leaves the queue, or what was in it goes with the destination.  *)
LEMMA LeaveStep ==
  ASSUME TypeOK, WorkerLeaves
  PROVE  /\ worker' = NoWorker /\ scanned' = NothingScanned
         /\ UNCHANGED <<config, rescan, disk, asked, owedFor>>
         /\ \/ ~config.exists /\ server' = Unknown
            \/ /\ config.exists /\ server' = [Synced EXCEPT !.state = LeftState]
               /\ UNCHANGED <<order, target>>
  BY DEF WorkerLeaves, historyVars

LEMMA PickStep ==
  ASSUME TypeOK, Structure, WorkerPicks
  PROVE  /\ config.exists /\ worker.phase = "drain" /\ server.known
         /\ UNCHANGED <<config, order, scanned, rescan, disk, asked, owedFor>>
         /\ server'.known /\ server'.revision = config.revision
         /\ server'.publications = server.publications /\ server'.dropped = server.dropped
         /\ \E v \in Queued :
              /\ worker'.video = v /\ worker'.phase = "picked"
              /\ worker'.generation = target[v].generation
              /\ worker'.publications = server.publications /\ worker'.recorded = {}
              /\ worker'.asking = NoLibrary /\ worker'.refused = FALSE
              /\ worker'.left = Libraries
         /\ \A v \in Videos : /\ target'[v].generation = target[v].generation
                              /\ target'[v].unsupported = target[v].unsupported
<1>1. server \in ServerType /\ Synced \in ServerType /\ target \in [Videos -> TargetType]
  BY TypeParts, SyncedServer
<1>2. /\ config.exists /\ worker.phase = "drain" /\ server' = [Synced EXCEPT !.state = "pending"]
      /\ UNCHANGED <<config, order, scanned, rescan, disk, asked, owedFor>>
  BY DEF WorkerPicks, historyVars
<1>3. server.known
  BY <1>2 DEF Structure, Fresh
<1>4. /\ Synced.known = TRUE /\ Synced.revision = config.revision
      /\ Synced.publications = server.publications /\ Synced.dropped = server.dropped
  BY <1>2, SyncedVisit
<1>5. /\ server'.known = TRUE /\ server'.revision = config.revision
      /\ server'.publications = server.publications /\ server'.dropped = server.dropped
  BY <1>1, <1>2, <1>4 DEF ServerType
<1>6. PICK v \in Queued :
        /\ worker' = [NoWorker EXCEPT
             !.phase = "picked", !.video = v, !.event = target[v].event,
             !.generation = target[v].generation, !.revision = config.revision,
             !.publications = Synced.publications, !.left = Libraries]
        /\ target' = [target EXCEPT ![v].ready = FALSE]
  BY DEF WorkerPicks
<1>7. /\ worker'.video = v /\ worker'.phase = "picked"
      /\ worker'.generation = target[v].generation
      /\ worker'.publications = server.publications /\ worker'.recorded = {}
      /\ worker'.asking = NoLibrary /\ worker'.refused = FALSE
      /\ worker'.left = Libraries
  BY <1>4, <1>6 DEF NoWorker
<1>8. \A u \in Videos : /\ target'[u].generation = target[u].generation
                       /\ target'[u].unsupported = target[u].unsupported
  BY <1>1, <1>6 DEF TargetType
<1> QED BY <1>2, <1>3, <1>5, <1>7, <1>8

-----------------------------------------------------------------------------
(* The thread, the queue and the saved configuration fit together.             *)

Configured == Delete \/ \E enabled \in BOOLEAN : Edit(enabled)
ConfigStep ==
  /\ UNCHANGED <<server, order, target, worker, scanned, rescan, disk, asked, owedFor>>
  /\ config'.revision >= config.revision /\ (config'.exists => config.exists)
  /\ config'.revision \in {config.revision, config.revision + 1}

LEMMA ConfiguredStep ==
  ASSUME TypeOK, Configured
  PROVE  ConfigStep
<1>1. config \in ConfigType /\ config.revision \in Nat
  BY TypeParts, RefreshAssumption DEF ConfigType, Revisions
<1>2. CASE Delete
  <2>1. config'.exists = FALSE /\ config'.revision = config.revision
    BY <1>1, <1>2 DEF Delete, ConfigType
  <2> QED BY <1>1, <1>2, <2>1 DEF Delete, ConfigStep, historyVars
<1>3. ASSUME NEW enabled \in BOOLEAN, Edit(enabled) PROVE ConfigStep
  <2>1. config'.exists = config.exists
    BY <1>1, <1>3 DEF Edit, ConfigType
  <2>2. config'.revision = config.revision + 1
    BY <1>1, <1>3 DEF Edit, ConfigType
  <2>3. config'.revision >= config.revision
    BY <1>1, <2>2
  <2> QED BY <1>3, <2>1, <2>2, <2>3 DEF Edit, ConfigStep, historyVars
<1> QED BY <1>2, <1>3 DEF Configured

(* A destination that was deleted, or never visited, has no state.             *)
LEMMA GoneStep ==
  ASSUME server' = Unknown, ~config'.exists
  PROVE  ~server'.known /\ ~(~server'.known /\ config'.exists)
  BY UnknownServer

LEMMA StructureStep ==
  ASSUME TypeOK, TypeOK', Structure, Next
  PROVE  Structure'
<1>0. /\ Draining.phase = "drain" /\ NoWorker.phase = "none"
      /\ \A p \in AtWork : p # "none" /\ p # "drain"
  BY DEF Draining, NoWorker, AtWork
<1>1. /\ server.publications \in Nat /\ server'.publications \in Nat
      /\ \A v \in Videos : target[v].generation \in Nat /\ target'[v].generation \in Nat
      /\ worker.generation \in Nat /\ config.revision \in Nat /\ config'.revision \in Nat
      /\ server.revision \in Nat /\ (worker.phase \in AtWork => worker.video \in Videos)
      /\ Queued \subseteq Videos
  <2>1. /\ server \in ServerType /\ server' \in ServerType /\ worker \in WorkerType
        /\ target \in [Videos -> TargetType] /\ target' \in [Videos -> TargetType]
        /\ config \in ConfigType /\ config' \in ConfigType
        /\ (worker.phase \in AtWork => worker.video \in Videos)
    BY TypeParts, TypePartsPrimed DEF WorkerTyped
  <2>2. /\ server.publications \in Nat /\ server'.publications \in Nat
        /\ server.revision \in Nat
    BY <2>1, RefreshAssumption DEF ServerType, Counts, Revisions
  <2>3. \A v \in Videos : target[v].generation \in Nat /\ target'[v].generation \in Nat
    BY <2>1 DEF TargetType
  <2>4. worker.generation \in Nat
    BY <2>1 DEF WorkerType
  <2>5. config.revision \in Nat /\ config'.revision \in Nat
    BY <2>1, RefreshAssumption DEF ConfigType, Revisions
  <2> QED BY <2>1, <2>2, <2>3, <2>4, <2>5, EmptyQueue
<1>2. CASE Visit
  <2>1. VisitFrame /\ VisitQueue
    BY <1>2, EveryVisit DEF VisitEffect
  <2>2. server'.publications > 0 \/ (order' = <<>> /\ worker'.phase = "none")
    <3>1. CASE order' # <<>>
      BY <2>1, <3>1 DEF VisitFrame
    <3>2. CASE order' = <<>> /\ worker'.phase # "none"
      <4>1. worker' = worker
        BY <2>1, <3>2 DEF VisitFrame
      <4>2. server.known
        BY <2>1, <3>2, <4>1 DEF Structure, Fresh, VisitFrame
      <4>3. server.publications > 0
        BY <3>2, <4>1, <4>2 DEF Structure
      <4> QED BY <1>1, <2>1, <4>3 DEF VisitFrame
    <3> QED BY <3>1, <3>2
  <2>3. worker'.phase \in AtWork =>
          InQueue(worker.video)' /\ worker'.generation <= target'[worker'.video].generation
    <3> SUFFICES ASSUME worker'.phase \in AtWork
                 PROVE  worker'.video \in Queued' /\ worker'.generation <= target'[worker'.video].generation
      BY DEF InQueue
    <3>1. worker' = worker
      BY <1>0, <2>1 DEF VisitFrame
    <3>2. server.known
      BY <1>0, <2>1, <3>1 DEF Structure, Fresh, VisitFrame
    <3>3. worker.video \in Queued /\ worker.generation <= target[worker.video].generation
      BY <3>1, <3>2 DEF Structure, InQueue
    <3> QED BY <1>1, <2>1, <3>1, <3>3 DEF VisitQueue
  <2>4. worker'.phase = "none" => worker' = NoWorker /\ scanned' = NothingScanned
    BY <1>0, <2>1 DEF VisitFrame, Structure
  <2>5. worker'.phase = "drain" => worker' = Draining
    BY <1>0, <2>1 DEF VisitFrame, Structure
  <2>6. server'.revision <= config'.revision
    BY <1>1, <2>1 DEF VisitFrame
  <2> QED BY <2>1, <2>2, <2>3, <2>4, <2>5, <2>6 DEF VisitFrame, Structure
<1>3. ASSUME NEW v \in Videos, MoveSubtitle(v) PROVE Structure'
  BY <1>3 DEF MoveSubtitle, Structure, Fresh, InQueue, Queued, AtWork
<1>4. CASE Prune
  BY <1>4, UnknownServer DEF Prune, Structure
<1>5. CASE WorkerLeaves
  <2>1. /\ worker' = NoWorker /\ scanned' = NothingScanned /\ UNCHANGED config
        /\ \/ ~config.exists /\ server' = Unknown
           \/ /\ config.exists /\ server' = [Synced EXCEPT !.state = LeftState]
              /\ UNCHANGED <<order, target>>
    BY <1>5, LeaveStep
  <2>2. CASE ~config.exists /\ server' = Unknown
    BY <1>0, <2>1, <2>2, UnknownServer DEF Structure
  <2>3. CASE config.exists /\ server' = [Synced EXCEPT !.state = LeftState] /\ UNCHANGED <<order, target>>
    <3>1. Synced \in ServerType
      BY SyncedServer
    <3>2. /\ server'.known = Synced.known /\ server'.revision = Synced.revision
          /\ server'.publications = Synced.publications
      BY <2>3, <3>1 DEF ServerType
    <3>3. Synced.known = TRUE /\ Synced.revision = config.revision
          /\ (order # <<>> => Synced.publications > 0)
      BY <2>3, SyncedVisit
    <3>4. server'.known
      BY <3>2, <3>3
    <3>5. server'.revision <= config'.revision /\ (order' # <<>> => server'.publications > 0)
      BY <1>1, <2>1, <2>3, <3>2, <3>3
    <3> QED BY <1>0, <2>1, <3>4, <3>5 DEF Structure
  <2> QED BY <2>1, <2>2, <2>3
<1>6. CASE WorkerPicks
  <2>1. /\ config' = config /\ order' = order /\ worker.phase = "drain" /\ server.known
        /\ server'.known /\ server'.revision = config.revision
        /\ server'.publications = server.publications
        /\ \A v \in Videos : target'[v].generation = target[v].generation
    BY <1>6, PickStep
  <2>2. PICK v \in Queued : /\ worker'.video = v /\ worker'.phase = "picked"
                            /\ worker'.generation = target[v].generation
    BY <1>6, PickStep
  <2>3. server'.publications > 0 /\ server'.revision <= config'.revision
    BY <1>1, <2>1 DEF Structure
  <2>4. InQueue(worker.video)' /\ worker'.generation <= target'[worker'.video].generation
    <3>1. worker'.video \in Queued'
      BY <2>1, <2>2 DEF Queued
    <3> QED BY <1>1, <2>1, <2>2, <3>1 DEF InQueue
  <2> QED BY <2>1, <2>2, <2>3, <2>4 DEF Structure
<1>7. CASE Climb
  <2>1. config' = config /\ server' = server /\ order' = order /\ target' = target
    BY <1>7, ClimbFrame
  <2>2. /\ worker.phase \in AtWork /\ worker'.phase \in AtWork
        /\ worker'.video = worker.video /\ worker'.generation = worker.generation
    BY <1>7, ClimbWorker
  <2>3. Queued' = Queued
    BY <2>1 DEF Queued
  <2>4. server.known \/ ~config.exists
    BY <1>0, <2>2 DEF Structure, Fresh
  <2> QED BY <1>0, <2>1, <2>2, <2>3, <2>4 DEF Structure, InQueue
<1>8. CASE Settled
  <2>1. SettleEffect
    BY <1>8, SettleStep
  <2>2. server'.publications > 0
    BY <1>0, <2>1 DEF SettleEffect, Structure
  <2>3. server'.revision <= config'.revision /\ server'.known
    BY <2>1 DEF SettleEffect, Structure
  <2> QED BY <1>0, <2>1, <2>2, <2>3 DEF SettleEffect, Structure
<1>9. CASE SettleGone
  <2>1. /\ worker' = NoWorker /\ scanned' = NothingScanned /\ ~server.known
        /\ worker.phase # "none" /\ config' = config /\ server' = server
    BY <1>9 DEF SettleGone
  <2>2. ~config.exists
    BY <2>1 DEF Structure, Fresh
  <2> QED BY <1>0, <2>1, <2>2 DEF Structure
<1>10. ASSUME NEW r \in Rescanners, Rescan(r) PROVE Structure'
  <2>1. /\ UNCHANGED <<config, order, target, worker, scanned>>
        /\ server'.known = server.known /\ server'.revision = server.revision
        /\ server'.publications = server.publications
    BY <1>10, RescanStep
  <2>2. Queued' = Queued
    BY <2>1 DEF Queued
  <2>3. ~server.known /\ config.exists => server' = Unknown
    <3>1. ASSUME ~server.known, config.exists PROVE server' = Unknown
      <4>1. server = Unknown
        BY <3>1 DEF Structure, Fresh
      <4>2. server' = server \/ server' = [server EXCEPT !.dropped = 0] \/ server' = [server EXCEPT !.dropped = server.dropped]
        BY <1>10 DEF Rescan, RescanBegins, RescanStops, RescanEnds, RescanAccepted, RescanMisses,
                     RescanRefused, Covered
      <4>3. Unknown.dropped = 0
        BY UnknownServer
      <4>4. [Unknown EXCEPT !.dropped = Unknown.dropped] = Unknown
        BY NewRecords DEF ServerType
      <4> QED BY <4>1, <4>2, <4>3, <4>4
    <3> QED BY <3>1
  <2> QED BY <2>1, <2>2, <2>3 DEF Structure, Fresh, InQueue
<1>11. CASE Configured
  <2>1. ConfigStep
    BY <1>11, ConfiguredStep
  <2>2. Queued' = Queued
    BY <2>1 DEF Queued, ConfigStep
  <2>3. server.known => server'.revision <= config'.revision
    BY <1>1, <2>1 DEF ConfigStep, Structure
  <2> QED BY <2>1, <2>2, <2>3 DEF Structure, Fresh, InQueue, ConfigStep
<1> QED BY <1>2, <1>3, <1>4, <1>5, <1>6, <1>7, <1>8, <1>9, <1>10, <1>11
        DEF Next, Queue, Drain, Visit, Notified, Climb, Settled, Configured

(* What a thread that is not refreshing carries.                              *)
LEMMA IdleThread ==
  /\ NoWorker.phase = "none" /\ NoWorker.asking = NoLibrary /\ NoWorker.refused = FALSE
  /\ NoWorker.recorded = {} /\ NoWorker.publications = 0
  /\ Draining.phase = "drain" /\ Draining.asking = NoLibrary /\ Draining.refused = FALSE
  /\ Draining.recorded = {} /\ Draining.publications = 0
  /\ "none" \notin AtWork /\ "drain" \notin AtWork
  BY DEF NoWorker, Draining, AtWork

LEMMA RefreshingStep ==
  ASSUME TypeOK, Structure, Refreshing, Next
  PROVE  Refreshing'
<1>1. worker \in WorkerType /\ scanned \in [Libraries -> Counts]
  BY TypeParts DEF WorkerTyped
<1>2. ASSUME worker' = worker, scanned' = scanned PROVE Refreshing'
  BY <1>2 DEF Refreshing
<1>3. ASSUME worker' = NoWorker \/ worker' = Draining PROVE Refreshing'
  BY <1>3, IdleThread DEF Refreshing
<1>4. CASE Visit
  BY <1>2, <1>3, <1>4, EveryVisit DEF VisitEffect, VisitFrame
<1>5. CASE Prune \/ \E v \in Videos : MoveSubtitle(v)
  BY <1>2, <1>5 DEF Prune, MoveSubtitle
<1>6. CASE WorkerLeaves \/ SettleGone
  BY <1>3, <1>6 DEF WorkerLeaves, SettleGone
<1>7. CASE WorkerPicks
  BY <1>7, PickStep DEF Refreshing
<1>8. CASE Settled
  BY <1>3, <1>8, SettleStep DEF SettleEffect
<1>9. CASE Configured
  BY <1>2, <1>9, ConfiguredStep DEF ConfigStep
<1>10. ASSUME NEW r \in Rescanners, Rescan(r) PROVE Refreshing'
  BY <1>2, <1>10, RescanStep
<1>11. CASE Climb
  <2>1. CASE WorkerClimbs \/ ItemMissed \/ LibrariesAsked
    BY <1>1, <1>11, <2>1 DEF WorkerClimbs, ItemMissed, LibrariesAsked, AtServer, WorkerType, Refreshing
  <2>2. CASE ItemAccepted
    BY <1>1, <2>2 DEF ItemAccepted, AtServer, WorkerType, Refreshing
  <2>3. ASSUME NEW lib \in Libraries, ScanSuppressed(lib) PROVE Refreshing'
    BY <1>1, <2>3 DEF ScanSuppressed, AtServer, WorkerType, Refreshing
  <2>4. ASSUME NEW lib \in Libraries, ScanRecorded(lib) PROVE Refreshing'
    <3>1. worker'.phase = "asking" /\ worker'.asking = lib /\ lib \in worker'.recorded
      BY <1>1, <2>4 DEF ScanRecorded, WorkerType
    <3> QED BY <3>1 DEF Refreshing
  <2>5. CASE ScanAccepted \/ ScanRefused
    <3>1. worker'.phase = "library" /\ worker'.asking = NoLibrary
      BY <1>1, <2>5 DEF ScanAccepted, ScanRefused, WorkerType
    <3> QED BY <3>1 DEF Refreshing
  <2>6. CASE RefreshFails
    <3>1. worker'.phase = "failed" /\ worker'.recorded = worker.recorded
      BY <1>1, <2>6 DEF RefreshFails, WorkerType
    <3>2. worker.recorded \subseteq Libraries
      BY <1>1 DEF WorkerType
    <3>3. \A lib \in worker.recorded : scanned'[lib] = 0
      BY <1>1, <2>6, <3>2, ForgetMemo DEF RefreshFails
    <3> QED BY <3>1, <3>3 DEF Refreshing
  <2> QED BY <1>11, <2>1, <2>2, <2>3, <2>4, <2>5, <2>6 DEF Climb
<1> QED BY <1>4, <1>5, <1>6, <1>7, <1>8, <1>9, <1>10, <1>11
        DEF Next, Queue, Drain, Visit, Notified, Climb, Settled, Configured

-----------------------------------------------------------------------------
(* Asking the server never makes a publication due again.                     *)

LEMMA ScanAskedFor ==
  ASSUME TypeOK, NEW lib \in Libraries, NEW revision \in Revisions, ScanAsked(lib, revision)
  PROVE  \A v \in Videos : \A l \in Libraries :
           asked'[v][l] = 0 => asked[v][l] = 0 /\ l # lib
<1>1. \A v \in Videos : asked[v] \in [Libraries -> 0..MaxRevision]
  BY TypeParts DEF HistoryType
<1>2. revision # 0
  BY RefreshAssumption DEF Revisions
<1> QED BY <1>1, <1>2 DEF ScanAsked

LEMMA ClimbAsked ==
  ASSUME TypeOK, Refreshing, Climb
  PROVE  \A v \in Videos : \A l \in Libraries : asked'[v][l] = 0 => asked[v][l] = 0
<1>1. /\ asked \in [Videos -> [Libraries -> 0..MaxRevision]] /\ worker.revision \in Revisions
      /\ worker.revision # 0
  BY TypeParts, RefreshAssumption DEF HistoryType, WorkerTyped, WorkerType, Revisions
<1>2. CASE ItemAccepted
  BY <1>1, <1>2 DEF ItemAccepted
<1>3. CASE ScanAccepted
  <2>1. worker.asking \in Libraries
    BY <1>3 DEF Refreshing, ScanAccepted, AtServer
  <2> QED BY <1>1, <1>3, <2>1, ScanAskedFor DEF ScanAccepted
<1>4. CASE asked' = asked
  BY <1>4
<1> QED BY <1>2, <1>3, <1>4
        DEF Climb, WorkerClimbs, ItemMissed, ScanSuppressed, ScanRecorded,
            ScanRefused, LibrariesAsked, RefreshFails, historyVars

LEMMA RescanAskedFor ==
  ASSUME TypeOK, NEW r \in Rescanners, Rescan(r)
  PROVE  \A v \in Videos : \A l \in Libraries : asked'[v][l] = 0 => asked[v][l] = 0
<1>1. ASSUME NEW lib \in Libraries, RescanAccepted(r, lib) \/ RescanMisses(r, lib)
      PROVE  \A v \in Videos : \A l \in Libraries : asked'[v][l] = 0 => asked[v][l] = 0
  <2>1. rescan[r].revision \in Revisions
    BY TypeParts DEF RescanType
  <2> QED BY <1>1, <2>1, ScanAskedFor DEF RescanAccepted, RescanMisses
<1>2. CASE asked' = asked
  BY <1>2
<1> QED BY <1>1, <1>2
        DEF Rescan, RescanBegins, RescanStops, RescanEnds, RescanRefused, historyVars

-----------------------------------------------------------------------------
(* Warnings.                                                                  *)

LEMMA NothingOwedStep ==
  ASSUME TypeOK, Structure, Refreshing, NothingOwedYet, Next
  PROVE  NothingOwedYet'
<1>1. SUFFICES ASSUME ~server'.known, config'.exists, NEW v \in Videos
               PROVE  ~Owes(v)' /\ disk'[v] # "outside"
  BY DEF NothingOwedYet
<1>2. CASE Visit
  BY <1>1, <1>2, EveryVisit DEF VisitEffect, VisitFrame
<1>3. CASE Prune
  BY <1>1, <1>3 DEF Prune
<1>4. ASSUME NEW u \in Videos, MoveSubtitle(u) PROVE FALSE
  <2>1. ~server.known /\ config.exists
    BY <1>1, <1>4 DEF MoveSubtitle
  <2>2. disk[u] = "outside"
    BY <1>4 DEF MoveSubtitle
  <2> QED BY <2>1, <2>2 DEF NothingOwedYet
<1>5. CASE WorkerLeaves
  <2>1. worker.phase = "drain"
    BY <1>5 DEF WorkerLeaves
  <2>2. config.exists /\ server.known
    BY <1>1, <1>5, <2>1 DEF WorkerLeaves, Structure, Fresh
  <2>3. server' = [Synced EXCEPT !.state = LeftState]
    BY <1>5, <2>2 DEF WorkerLeaves
  <2>4. Synced \in ServerType /\ Synced.known = TRUE
    BY <2>2, SyncedVisit, SyncedServer
  <2>5. server'.known = TRUE
    BY <2>3, <2>4 DEF ServerType
  <2> QED BY <1>1, <2>5
<1>6. CASE WorkerPicks
  BY <1>1, <1>6, PickStep
<1>7. CASE Settled
  BY <1>1, <1>7, SettleStep DEF SettleEffect
<1>8. CASE SettleGone
  BY <1>1, <1>8 DEF SettleGone, Structure, Fresh
<1>9. CASE Climb
  BY <1>1, <1>9, ClimbWorker, ClimbFrame, IdleThread DEF Structure, Fresh
<1>10. ASSUME NEW r \in Rescanners, Rescan(r) PROVE ~Owes(v)' /\ disk'[v] # "outside"
  <2>1. ~server.known /\ config.exists /\ disk' = disk
    BY <1>1, <1>10, RescanStep
  <2>2. ~Owes(v) /\ disk[v] # "outside"
    BY <2>1 DEF NothingOwedYet
  <2> QED BY <1>10, <2>1, <2>2, RescanAskedFor DEF Owes
<1>11. CASE Configured
  BY <1>1, <1>11, ConfiguredStep DEF ConfigStep, NothingOwedYet, Owes
<1> QED BY <1>2, <1>3, <1>4, <1>5, <1>6, <1>7, <1>8, <1>9, <1>10, <1>11
        DEF Next, Queue, Drain, Visit, Notified, Climb, Settled, Configured

LEMMA WarningStep ==
  ASSUME TypeOK, Structure, NothingOwedYet, WarningKept, Next
  PROVE  WarningKept'
<1>1. SUFFICES ASSUME server'.known, NEW v \in Videos, disk'[v] = "outside"
               PROVE  v \in Queued' /\ target'[v].unsupported
  BY DEF WarningKept, InQueue
<1>2. ASSUME server.known, disk[v] = "outside" PROVE v \in Queued /\ target[v].unsupported
  BY <1>2 DEF WarningKept, InQueue
<1>3. CASE Visit
  <2>1. VisitFrame /\ VisitQueue /\ VisitWarnings
    BY <1>3, EveryVisit DEF VisitEffect
  <2>2. CASE v \in Queued' /\ target'[v].unsupported
    BY <2>2
  <2>3. CASE disk[v] = "outside" /\ (v \in Queued => target'[v].unsupported = target[v].unsupported)
    <3>1. server.known
      BY <2>1, <2>3 DEF NothingOwedYet, VisitFrame
    <3> QED BY <1>2, <2>1, <2>3, <3>1 DEF VisitQueue
  <2> QED BY <1>1, <2>1, <2>2, <2>3 DEF VisitWarnings
<1>4. ASSUME NEW u \in Videos, MoveSubtitle(u) PROVE v \in Queued' /\ target'[v].unsupported
  <2>1. UNCHANGED <<server, order, target>> /\ disk' = [disk EXCEPT ![u] = "moved"]
    BY <1>4 DEF MoveSubtitle
  <2>2. disk[v] = "outside"
    BY <1>1, <2>1, TypeParts
  <2> QED BY <1>1, <1>2, <2>1, <2>2 DEF Queued
<1>5. CASE Prune
  BY <1>1, <1>5, UnknownServer DEF Prune
<1>6. CASE WorkerLeaves
  <2>1. config.exists /\ UNCHANGED <<order, target, disk>>
    BY <1>1, <1>6, LeaveStep, UnknownServer
  <2>2. server.known
    BY <1>6, <2>1 DEF WorkerLeaves, Structure, Fresh
  <2> QED BY <1>1, <1>2, <2>1, <2>2 DEF Queued
<1>7. CASE WorkerPicks
  <2>1. /\ server.known /\ UNCHANGED <<order, disk>>
        /\ target'[v].unsupported = target[v].unsupported
    BY <1>7, PickStep
  <2> QED BY <1>1, <1>2, <2>1 DEF Queued
<1>8. CASE Settled
  <2>1. /\ server.known /\ disk[v] = "outside"
        /\ v \in Queued /\ target[v].unsupported => v \in Queued' /\ target'[v].unsupported
    BY <1>1, <1>8, SettleStep DEF SettleEffect, SettleWarnings
  <2> QED BY <1>2, <2>1
<1>9. CASE SettleGone \/ Climb \/ Configured \/ \E r \in Rescanners : Rescan(r)
  <2>1. server'.known = server.known /\ UNCHANGED <<order, target, disk>>
    BY <1>9, ClimbFrame, ConfiguredStep, RescanStep DEF SettleGone, ConfigStep
  <2> QED BY <1>1, <1>2, <2>1 DEF Queued
<1> QED BY <1>3, <1>4, <1>5, <1>6, <1>7, <1>8, <1>9
        DEF Next, Queue, Drain, Visit, Notified, Climb, Settled, Configured

-----------------------------------------------------------------------------
(* The state of a queue that nobody drains.                                   *)

LEMMA LeftMarkedStep ==
  ASSUME TypeOK, Structure, LeftMarked, Next
  PROVE  LeftMarked'
<1>1. SUFFICES ASSUME server'.known, worker'.phase = "none", order' # <<>>,
                      server'.revision = config'.revision
               PROVE  server'.state = "unconfirmed"
  BY DEF LeftMarked
<1>2. CASE Visit
  <2>1. /\ config.exists /\ worker.phase = "none" /\ order' = order /\ order # <<>>
        /\ server'.state = Synced.state
    BY <1>1, <1>2, EveryVisit, IdleThread DEF VisitEffect, VisitFrame, VisitMark
  <2>2. CASE server.known /\ server.revision = config.revision
    BY <2>1, <2>2, SyncedVisit DEF LeftMarked
  <2>3. CASE ~(server.known /\ server.revision = config.revision)
    BY <2>1, <2>3, SyncedVisit
  <2> QED BY <2>2, <2>3
<1>3. CASE Prune
  BY <1>1, <1>3 DEF Prune
<1>4. ASSUME NEW v \in Videos, MoveSubtitle(v) PROVE server'.state = "unconfirmed"
  BY <1>1, <1>4 DEF MoveSubtitle, LeftMarked
<1>5. CASE WorkerLeaves
  <2>1. config.exists /\ order' = order /\ server' = [Synced EXCEPT !.state = LeftState]
    BY <1>1, <1>5, LeaveStep, UnknownServer
  <2>2. Synced \in ServerType
    BY SyncedServer
  <2> QED BY <1>1, <2>1, <2>2 DEF LeftState, ServerType
<1>6. CASE WorkerPicks
  BY <1>1, <1>6, PickStep
<1>7. CASE Settled
  BY <1>1, <1>7, SettleStep, IdleThread DEF SettleEffect
<1>8. CASE SettleGone
  BY <1>1, <1>8 DEF SettleGone
<1>9. CASE Climb
  BY <1>1, <1>9, ClimbWorker, IdleThread
<1>10. ASSUME NEW r \in Rescanners, Rescan(r) PROVE server'.state = "unconfirmed"
  BY <1>1, <1>10, RescanStep DEF LeftMarked
<1>11. CASE Configured
  <2>1. ConfigStep
    BY <1>11, ConfiguredStep
  <2>2. CASE config'.revision = config.revision
    BY <1>1, <2>1, <2>2 DEF ConfigStep, LeftMarked
  <2>3. CASE config'.revision = config.revision + 1
    <3>1. config.revision \in Nat /\ server.revision \in Nat
      BY TypeParts, RefreshAssumption DEF ConfigType, ServerType, Revisions
    <3>2. server.revision <= config.revision /\ server.revision = config.revision + 1
      BY <1>1, <2>1, <2>3 DEF ConfigStep, Structure
    <3> QED BY <3>1, <3>2
  <2> QED BY <2>1, <2>2, <2>3 DEF ConfigStep
<1> QED BY <1>2, <1>3, <1>4, <1>5, <1>6, <1>7, <1>8, <1>9, <1>10, <1>11
        DEF Next, Queue, Drain, Visit, Notified, Climb, Settled, Configured

-----------------------------------------------------------------------------
(* The memo of one drain.                                                     *)

LEMMA CountsStep ==
  ASSUME TypeOK, TypeOK', Structure, CountsBehind, Next
  PROVE  CountsBehind'
<1>1. SUFFICES ASSUME server'.known, worker'.phase # "none"
               PROVE  /\ worker'.publications <= server'.publications
                      /\ worker'.phase \in AtWork => worker'.publications > 0
                      /\ \A lib \in Libraries : scanned'[lib] <= server'.publications
  BY DEF CountsBehind
<1>2. /\ server.publications \in Nat /\ server'.publications \in Nat
      /\ worker.publications \in Nat
      /\ \A lib \in Libraries : scanned[lib] \in Nat
  BY TypeParts, TypePartsPrimed, RefreshAssumption
     DEF ServerType, Counts, WorkerTyped, WorkerType
<1>3. ASSUME server.known, worker.phase # "none"
      PROVE  /\ worker.publications <= server.publications
             /\ worker.phase \in AtWork => worker.publications > 0
             /\ \A lib \in Libraries : scanned[lib] <= server.publications
  BY <1>3 DEF CountsBehind
<1>4. CASE Visit
  <2>1. VisitFrame
    BY <1>4, EveryVisit DEF VisitEffect
  <2>2. CASE worker' = worker
    <3>1. server.known
      BY <1>1, <2>1, <2>2 DEF VisitFrame, Structure, Fresh
    <3> QED BY <1>1, <1>2, <1>3, <2>1, <2>2, <3>1 DEF VisitFrame
  <2>3. CASE worker.phase = "none" /\ worker' = Draining
    <3>1. \A lib \in Libraries : scanned'[lib] = 0
      BY <2>1, <2>3 DEF VisitFrame, Structure, NothingScanned
    <3> QED BY <1>2, <2>3, <3>1, IdleThread
  <2> QED BY <2>1, <2>2, <2>3 DEF VisitFrame
<1>5. CASE Prune \/ \E v \in Videos : MoveSubtitle(v)
  BY <1>1, <1>3, <1>5, UnknownServer DEF Prune, MoveSubtitle
<1>6. CASE WorkerLeaves \/ SettleGone
  BY <1>1, <1>6, IdleThread DEF WorkerLeaves, SettleGone
<1>7. CASE WorkerPicks
  <2>1. /\ server.known /\ worker.phase = "drain" /\ scanned' = scanned
        /\ server'.publications = server.publications
        /\ worker'.publications = server.publications
    BY <1>7, PickStep
  <2>2. server.publications > 0
    BY <2>1 DEF Structure
  <2> QED BY <1>2, <1>3, <2>1, <2>2
<1>8. CASE Settled
  <2>1. /\ server.known /\ worker.phase # "none" /\ worker' = Draining /\ scanned' = scanned
        /\ server'.publications = server.publications
    BY <1>8, SettleStep DEF SettleEffect
  <2> QED BY <1>2, <1>3, <2>1, IdleThread
<1>9. CASE Configured
  BY <1>1, <1>3, <1>9, ConfiguredStep DEF ConfigStep
<1>10. ASSUME NEW r \in Rescanners, Rescan(r)
       PROVE  /\ worker'.publications <= server'.publications
              /\ worker'.phase \in AtWork => worker'.publications > 0
              /\ \A lib \in Libraries : scanned'[lib] <= server'.publications
  <2>1. /\ worker' = worker /\ scanned' = scanned
        /\ server'.publications = server.publications /\ server'.known = server.known
    BY <1>10, RescanStep
  <2>2. server.known /\ worker.phase # "none"
    BY <1>1, <2>1
  <2> QED BY <1>3, <2>1, <2>2
<1>11. CASE Climb
  <2>1. /\ server' = server /\ worker'.publications = worker.publications
        /\ worker.phase \in AtWork /\ worker.phase # "none"
    BY <1>11, ClimbFrame, ClimbWorker, IdleThread
  <2>2. \A lib \in Libraries :
          scanned'[lib] = scanned[lib] \/ scanned'[lib] = worker.publications \/ scanned'[lib] = 0
    <3>1. scanned \in [Libraries -> Counts]
      BY TypeParts
    <3>2. CASE RefreshFails
      BY <3>1, <3>2, ForgetMemo DEF RefreshFails
    <3>3. ASSUME NEW lib \in Libraries, ScanRecorded(lib)
          PROVE  \A l \in Libraries : scanned'[l] = scanned[l] \/ scanned'[l] = worker.publications
      BY <3>1, <3>3 DEF ScanRecorded
    <3>4. CASE scanned' = scanned
      BY <3>4
    <3> QED BY <1>11, <3>2, <3>3, <3>4
            DEF Climb, WorkerClimbs, ItemAccepted, ItemMissed, ScanSuppressed, ScanAccepted,
                ScanRefused, LibrariesAsked
  <2> QED BY <1>1, <1>2, <1>3, <2>1, <2>2
<1> QED BY <1>4, <1>5, <1>6, <1>7, <1>8, <1>9, <1>10, <1>11
        DEF Next, Queue, Drain, Visit, Notified, Climb, Settled, Configured

(* The ladder forgets what it recorded without having asked (_coalescer).      *)
LEMMA ClimbMemo ==
  ASSUME TypeOK, Refreshing, Climb, NEW v \in Videos, NEW lib \in Libraries,
         NEW bound \in Nat, bound > 0, asked'[v][lib] = 0,
         scanned[lib] < bound \/ Unsettled(lib)
  PROVE  scanned'[lib] < bound \/ Unsettled(lib)'
<1>1. worker \in WorkerType /\ scanned \in [Libraries -> Counts]
  BY TypeParts DEF WorkerTyped
<1>2. scanned[lib] < bound \/ Unsettled(lib)
  OBVIOUS
<1>3. CASE WorkerClimbs \/ ItemAccepted \/ ItemMissed \/ LibrariesAsked
  <2>1. /\ scanned' = scanned /\ worker'.recorded = worker.recorded
        /\ worker'.asking = worker.asking /\ worker'.refused = worker.refused
    BY <1>1, <1>3 DEF WorkerClimbs, ItemAccepted, ItemMissed, LibrariesAsked, WorkerType
  <2> QED BY <1>2, <2>1 DEF Unsettled
<1>4. ASSUME NEW l \in Libraries, ScanSuppressed(l)
      PROVE  scanned'[lib] < bound \/ Unsettled(lib)'
  <2>1. /\ scanned' = scanned /\ worker'.recorded = worker.recorded
        /\ worker'.asking = worker.asking /\ worker'.refused = worker.refused
    BY <1>1, <1>4 DEF ScanSuppressed, WorkerType
  <2> QED BY <1>2, <2>1 DEF Unsettled
<1>5. ASSUME NEW l \in Libraries, ScanRecorded(l)
      PROVE  scanned'[lib] < bound \/ Unsettled(lib)'
  <2>1. /\ worker'.recorded = worker.recorded \cup {l} /\ worker'.asking = l
        /\ worker'.refused = worker.refused /\ worker.asking = NoLibrary
    BY <1>1, <1>5 DEF ScanRecorded, AtServer, WorkerType, Refreshing
  <2>2. CASE lib = l
    BY <2>1, <2>2 DEF Unsettled
  <2>3. CASE lib # l
    <3>1. scanned'[lib] = scanned[lib]
      BY <1>1, <1>5, <2>3 DEF ScanRecorded
    <3>2. Unsettled(lib) => Unsettled(lib)'
      BY <2>1, RefreshAssumption DEF Unsettled
    <3> QED BY <1>2, <3>1, <3>2
  <2> QED BY <2>2, <2>3
<1>6. CASE ScanAccepted
  <2>1. worker.asking \in Libraries /\ worker.revision \in Revisions
    BY <1>1, <1>6 DEF Refreshing, ScanAccepted, AtServer, WorkerType
  <2>2. lib # worker.asking
    BY <1>6, <2>1, ScanAskedFor DEF ScanAccepted
  <2>3. /\ scanned' = scanned /\ worker'.recorded = worker.recorded
        /\ worker'.refused = worker.refused
    BY <1>1, <1>6 DEF ScanAccepted, WorkerType
  <2> QED BY <1>2, <2>2, <2>3 DEF Unsettled
<1>7. CASE ScanRefused
  <2>1. /\ scanned' = scanned /\ worker'.recorded = worker.recorded /\ worker'.refused = TRUE
    BY <1>1, <1>7 DEF ScanRefused, WorkerType
  <2> QED BY <1>2, <2>1 DEF Unsettled
<1>8. CASE RefreshFails
  <2>1. scanned'[lib] = IF lib \in worker.recorded THEN 0 ELSE scanned[lib]
    BY <1>1, <1>8, ForgetMemo DEF RefreshFails
  <2> QED BY <1>2, <2>1 DEF Unsettled
<1> QED BY <1>3, <1>4, <1>5, <1>6, <1>7, <1>8 DEF Climb

(* The move of a subtitle makes no publication and no drop due.               *)
LEMMA MoveHistory ==
  ASSUME TypeOK, NEW u \in Videos, MoveSubtitle(u)
  PROVE  \A v \in Videos : \A lib \in Libraries :
           owedFor'[v] # "move" /\ asked'[v][lib] = 0 =>
             asked[v][lib] = 0 /\ owedFor'[v] = owedFor[v]
<1>1. CASE Owes(u)
  BY <1>1 DEF MoveSubtitle, historyVars
<1>2. CASE ~Owes(u)
  <2>1. /\ asked' = [asked EXCEPT ![u] = [l \in Libraries |-> 0]]
        /\ owedFor' = [owedFor EXCEPT ![u] = "move"]
    BY <1>2 DEF MoveSubtitle, Changed
  <2>2. /\ asked \in [Videos -> [Libraries -> 0..MaxRevision]]
        /\ owedFor \in [Videos -> {"publication", "drop", "move"}]
    BY TypeParts DEF HistoryType
  <2> QED BY <2>1, <2>2
<1> QED BY <1>1, <1>2

(* Nothing published since a library was recorded counts as covered by it.     *)
LEMMA MemoStep ==
  ASSUME TypeOK, TypeOK', Structure, Structure', Refreshing, CountsBehind, MemoBehind, Next
  PROVE  MemoBehind'
<1>1. SUFFICES ASSUME server'.known, worker'.phase # "none",
                      NEW v \in Videos, NEW lib \in Libraries, Due(v, lib)'
               PROVE  scanned'[lib] < server'.publications \/ Unsettled(lib)'
  BY DEF MemoBehind
<1>2. /\ server.publications \in Nat /\ server'.publications \in Nat
      /\ worker.publications \in Nat
      /\ \A l \in Libraries : scanned[l] \in Nat
      /\ worker \in WorkerType /\ scanned \in [Libraries -> Counts]
  BY TypeParts, TypePartsPrimed, RefreshAssumption
     DEF ServerType, Counts, WorkerTyped, WorkerType
<1>3. server'.publications > 0
  BY <1>1 DEF Structure
<1>4. ASSUME server.known, worker.phase # "none", Due(v, lib)
      PROVE  scanned[lib] < server.publications \/ Unsettled(lib)
  BY <1>4 DEF MemoBehind
<1>5. ASSUME owedFor' = owedFor, asked'[v][lib] = 0 => asked[v][lib] = 0
      PROVE  Due(v, lib)
  BY <1>1, <1>5 DEF Due
<1>6. CASE Visit
  <2>1. VisitFrame /\ VisitHistory
    BY <1>6, EveryVisit DEF VisitEffect
  <2>2. CASE worker.phase = "none"
    <3>1. scanned'[lib] = 0
      BY <2>1, <2>2 DEF VisitFrame, Structure, NothingScanned
    <3> QED BY <1>3, <3>1
  <2>3. CASE worker.phase # "none"
    <3>1. worker' = worker /\ scanned' = scanned
      BY <2>1, <2>3 DEF VisitFrame
    <3>2. server.known
      BY <2>1, <2>3 DEF VisitFrame, Structure, Fresh
    <3>3. CASE server'.publications > server.publications
      <4>1. scanned[lib] <= server.publications
        BY <2>3, <3>2 DEF CountsBehind
      <4> QED BY <1>2, <3>1, <3>3, <4>1
    <3>4. CASE asked'[v] = asked[v] /\ owedFor'[v] = owedFor[v]
      <4>1. Due(v, lib)
        BY <1>1, <3>4 DEF Due
      <4>2. scanned[lib] < server.publications \/ Unsettled(lib)
        BY <1>4, <2>3, <3>2, <4>1
      <4>3. Unsettled(lib) => Unsettled(lib)'
        BY <3>1 DEF Unsettled
      <4> QED BY <1>2, <2>1, <3>1, <4>2, <4>3 DEF VisitFrame
    <3>5. owedFor'[v] # "drop"
      BY <1>1 DEF Due
    <3> QED BY <2>1, <3>3, <3>4, <3>5 DEF VisitHistory
  <2> QED BY <2>2, <2>3
<1>7. CASE Prune
  BY <1>1, <1>7, UnknownServer DEF Prune
<1>8. ASSUME NEW u \in Videos, MoveSubtitle(u)
      PROVE  scanned'[lib] < server'.publications \/ Unsettled(lib)'
  <2>1. UNCHANGED <<server, worker, scanned>>
    BY <1>8 DEF MoveSubtitle
  <2>2. Due(v, lib)
    BY <1>1, <1>8, MoveHistory DEF Due
  <2> QED BY <1>1, <1>4, <2>1, <2>2 DEF Unsettled
<1>9. CASE WorkerLeaves \/ SettleGone
  BY <1>1, <1>9, IdleThread DEF WorkerLeaves, SettleGone
<1>10. CASE WorkerPicks
  <2>1. /\ server.known /\ worker.phase = "drain" /\ UNCHANGED <<scanned, asked, owedFor>>
        /\ server'.publications = server.publications
    BY <1>10, PickStep
  <2>2. ~Unsettled(lib)
    BY <2>1, IdleThread DEF Structure, Unsettled
  <2>3. scanned[lib] < server.publications
    BY <1>4, <1>5, <2>1, <2>2
  <2> QED BY <2>1, <2>3
<1>11. CASE Settled
  <2>1. /\ server.known /\ worker.phase \in {"answered", "failed"}
        /\ UNCHANGED <<scanned, asked, owedFor>>
        /\ server'.publications = server.publications
    BY <1>11, SettleStep DEF SettleEffect
  <2>2. Unsettled(lib) => scanned[lib] = 0
    BY <2>1, RefreshAssumption DEF Refreshing, Unsettled
  <2>3. scanned[lib] < server.publications \/ Unsettled(lib)
    BY <1>4, <1>5, <2>1
  <2> QED BY <1>3, <2>1, <2>2, <2>3
<1>12. CASE Configured \/ \E r \in Rescanners : Rescan(r)
  <2>1. /\ UNCHANGED <<worker, scanned, owedFor>> /\ server'.known = server.known
        /\ server'.publications = server.publications
        /\ asked'[v][lib] = 0 => asked[v][lib] = 0
    BY <1>12, ConfiguredStep, RescanStep, RescanAskedFor DEF ConfigStep
  <2>2. scanned[lib] < server.publications \/ Unsettled(lib)
    BY <1>1, <1>4, <1>5, <2>1
  <2>3. Unsettled(lib) => Unsettled(lib)'
    BY <2>1 DEF Unsettled
  <2> QED BY <2>1, <2>2, <2>3
<1>13. CASE Climb
  <2>1. server' = server /\ owedFor' = owedFor /\ worker.phase # "none"
    BY <1>13, ClimbFrame, ClimbWorker, IdleThread
  <2>2. asked'[v][lib] = 0 => asked[v][lib] = 0
    BY <1>13, ClimbAsked
  <2>3. scanned[lib] < server.publications \/ Unsettled(lib)
    BY <1>1, <1>4, <1>5, <2>1, <2>2
  <2>4. scanned'[lib] < server.publications \/ Unsettled(lib)'
    BY <1>1, <1>2, <1>3, <1>13, <2>1, <2>3, ClimbMemo DEF Due
  <2> QED BY <2>1, <2>4
<1> QED BY <1>6, <1>7, <1>8, <1>9, <1>10, <1>11, <1>12, <1>13
        DEF Next, Queue, Drain, Visit, Notified, Climb, Settled, Configured

-----------------------------------------------------------------------------
(* The target at work.                                                        *)

(* While its target is unchanged, what is due for it was due before the step,  *)
(* and the target was unchanged.                                              *)
LEMMA TargetStays ==
  ASSUME TypeOK, TypeOK', Structure, Refreshing, Next, ~WorkerPicks,
         server'.known, worker'.phase \in AtWork, UnchangedSince',
         NEW lib \in Libraries, Due(worker.video, lib)'
  PROVE  /\ server.known /\ worker.phase \in AtWork /\ worker.video \in Videos
         /\ worker'.video = worker.video /\ UnchangedSince /\ Due(worker.video, lib)
         /\ worker'.publications = worker.publications
         /\ Climb \/ (worker' = worker /\ scanned' = scanned)
<1>1. /\ \A v \in Videos : target[v].generation \in Nat /\ target'[v].generation \in Nat
      /\ worker.generation \in Nat /\ WorkerTyped(worker) /\ WorkerTyped(worker')
  <2>1. /\ WorkerTyped(worker) /\ WorkerTyped(worker') /\ target \in [Videos -> TargetType]
        /\ target' \in [Videos -> TargetType]
    BY TypeParts, TypePartsPrimed
  <2>2. worker.generation \in Nat
    BY <2>1 DEF WorkerTyped, WorkerType
  <2> QED BY <2>1, <2>2 DEF TargetType
<1>2. SUFFICES /\ server.known /\ worker.phase \in AtWork
               /\ worker'.video = worker.video /\ UnchangedSince /\ Due(worker.video, lib)
               /\ worker'.publications = worker.publications
               /\ Climb \/ (worker' = worker /\ scanned' = scanned)
  BY <1>1 DEF WorkerTyped
<1>3. target'[worker'.video].generation = worker'.generation
  BY DEF UnchangedSince
<1>4. owedFor'[worker'.video] = "publication" /\ asked'[worker'.video][lib] = 0
  BY DEF Due
<1>5. worker'.video \in Videos
  BY <1>1 DEF WorkerTyped
<1>6. CASE Visit
  <2>1. VisitFrame /\ VisitQueue /\ VisitHistory
    BY <1>6, EveryVisit DEF VisitEffect
  <2>2. worker' = worker /\ scanned' = scanned
    BY <2>1, IdleThread DEF VisitFrame
  <2>3. server.known
    BY <2>1, <2>2, IdleThread DEF VisitFrame, Structure, Fresh
  <2>4. worker.video \in Queued /\ worker.generation <= target[worker.video].generation
    BY <2>2, <2>3 DEF Structure, InQueue
  <2>5. target'[worker.video].generation >= target[worker.video].generation
    BY <2>1, <2>4 DEF VisitQueue
  <2>6. target'[worker.video].generation = target[worker.video].generation
        /\ target[worker.video].generation = worker.generation
    BY <1>1, <1>3, <1>5, <2>2, <2>4, <2>5
  <2>7. ~(target'[worker.video].generation > target[worker.video].generation)
    BY <1>1, <1>5, <2>2, <2>6
  <2>8. asked'[worker.video] = asked[worker.video] /\ owedFor'[worker.video] = owedFor[worker.video]
    BY <1>4, <1>5, <2>1, <2>2, <2>4, <2>7 DEF VisitHistory
  <2> QED BY <1>4, <2>2, <2>3, <2>6, <2>8 DEF UnchangedSince, Due
<1>7. CASE Prune
  BY <1>7, UnknownServer DEF Prune
<1>8. ASSUME NEW u \in Videos, MoveSubtitle(u)
      PROVE  /\ server.known /\ worker.phase \in AtWork
             /\ worker'.video = worker.video /\ UnchangedSince /\ Due(worker.video, lib)
             /\ worker'.publications = worker.publications
             /\ worker' = worker /\ scanned' = scanned
  <2>1. UNCHANGED <<server, worker, scanned, target>>
    BY <1>8 DEF MoveSubtitle
  <2>2. Due(worker.video, lib)
    BY <1>4, <1>5, <1>8, <2>1, MoveHistory DEF Due
  <2> QED BY <1>3, <2>1, <2>2 DEF UnchangedSince
<1>9. CASE WorkerLeaves \/ SettleGone
  BY <1>9, IdleThread DEF WorkerLeaves, SettleGone
<1>10. CASE Settled
  BY <1>10, SettleStep, IdleThread DEF SettleEffect
<1>11. CASE Configured \/ \E r \in Rescanners : Rescan(r)
  <2>1. /\ UNCHANGED <<worker, scanned, target, owedFor>> /\ server'.known = server.known
        /\ \A v \in Videos : asked'[v][lib] = 0 => asked[v][lib] = 0
    BY <1>11, ConfiguredStep, RescanStep, RescanAskedFor DEF ConfigStep
  <2>2. server.known
    BY <2>1
  <2>3. Due(worker.video, lib)
    BY <1>4, <1>5, <2>1 DEF Due
  <2> QED BY <1>3, <2>1, <2>2, <2>3 DEF UnchangedSince
<1>12. CASE Climb
  <2>1. /\ UNCHANGED <<server, target, owedFor>> /\ worker.phase \in AtWork
        /\ worker'.video = worker.video /\ worker'.generation = worker.generation
        /\ worker'.publications = worker.publications
    BY <1>12, ClimbFrame, ClimbWorker
  <2>2. asked[worker.video][lib] = 0
    BY <1>4, <1>5, <1>12, <2>1, ClimbAsked
  <2> QED BY <1>3, <1>4, <1>12, <2>1, <2>2 DEF UnchangedSince, Due
<1> QED BY <1>6, <1>7, <1>8, <1>9, <1>10, <1>11, <1>12
        DEF Next, Queue, Drain, Visit, Notified, Climb, Settled, Configured

(* What a new target finds: nothing it needs is in the memo.                  *)
LEMMA TargetPicked ==
  ASSUME TypeOK, Structure, MemoBehind, WorkerPicks, NEW lib \in Libraries,
         Due(worker.video, lib)'
  PROVE  /\ scanned'[lib] < worker'.publications
         /\ worker'.phase = "picked" /\ lib \in worker'.left
<1>1. /\ server.known /\ worker.phase = "drain" /\ UNCHANGED <<scanned, asked, owedFor>>
  BY PickStep
<1>2. PICK v \in Queued : /\ worker'.video = v /\ worker'.phase = "picked"
                          /\ worker'.publications = server.publications
                          /\ worker'.left = Libraries
  BY PickStep
<1>3. v \in Videos
  BY EmptyQueue
<1>4. Due(v, lib)
  BY <1>1, <1>2 DEF Due
<1>5. ~Unsettled(lib)
  BY <1>1, IdleThread DEF Structure, Unsettled
<1> QED BY <1>1, <1>2, <1>3, <1>4, <1>5 DEF MemoBehind

LEMMA MemoTargetStep ==
  ASSUME TypeOK, TypeOK', Structure, Refreshing, CountsBehind, MemoBehind, MemoBehindTarget, Next
  PROVE  MemoBehindTarget'
<1>1. SUFFICES ASSUME server'.known, worker'.phase \in AtWork, UnchangedSince',
                      NEW lib \in Libraries, Due(worker.video, lib)'
               PROVE  scanned'[lib] < worker'.publications \/ Unsettled(lib)'
  BY DEF MemoBehindTarget
<1>2. CASE WorkerPicks
  BY <1>1, <1>2, TargetPicked
<1>3. CASE ~WorkerPicks
  <2>1. /\ server.known /\ worker.phase \in AtWork /\ worker.video \in Videos
        /\ worker'.video = worker.video /\ UnchangedSince /\ Due(worker.video, lib)
        /\ worker'.publications = worker.publications
        /\ Climb \/ (worker' = worker /\ scanned' = scanned)
    BY <1>1, <1>3, TargetStays
  <2>2. scanned[lib] < worker.publications \/ Unsettled(lib)
    BY <2>1 DEF MemoBehindTarget
  <2>3. CASE worker' = worker /\ scanned' = scanned
    BY <2>2, <2>3 DEF Unsettled
  <2>4. CASE Climb
    <3>1. worker.publications \in Nat
      BY TypeParts, RefreshAssumption DEF WorkerTyped, WorkerType, Counts
    <3>2. worker.publications > 0
      BY <2>1, IdleThread DEF CountsBehind
    <3>3. asked'[worker.video][lib] = 0
      BY <1>1, <2>1 DEF Due
    <3> QED BY <2>1, <2>2, <2>4, <3>1, <3>2, <3>3, ClimbMemo
  <2> QED BY <2>1, <2>3, <2>4
<1> QED BY <1>2, <1>3

(* What the ladder leaves behind it was asked for, or is covered by the memo. *)
LEMMA LadderStep ==
  ASSUME TypeOK, TypeOK', Structure, Refreshing, MemoBehind, MemoBehindTarget, LadderAsked, Next
  PROVE  LadderAsked'
<1>1. SUFFICES ASSUME server'.known, worker'.phase \in AtWork, UnchangedSince',
                      NEW lib \in Libraries, Due(worker.video, lib)'
               PROVE  \/ worker'.phase = "failed"
                      \/ worker'.phase # "answered" /\ (lib \in worker'.left \/ worker'.refused)
  BY DEF LadderAsked
<1>2. CASE WorkerPicks
  BY <1>1, <1>2, TargetPicked
<1>3. CASE ~WorkerPicks
  <2>1. /\ server.known /\ worker.phase \in AtWork /\ worker.video \in Videos
        /\ worker'.video = worker.video /\ UnchangedSince /\ Due(worker.video, lib)
        /\ Climb \/ (worker' = worker /\ scanned' = scanned)
    BY <1>1, <1>3, TargetStays
  <2>2. \/ worker.phase = "failed"
        \/ worker.phase # "answered" /\ (lib \in worker.left \/ worker.refused)
    BY <2>1 DEF LadderAsked
  <2>3. CASE worker' = worker
    BY <2>2, <2>3
  <2>4. CASE Climb
    <3>1. worker \in WorkerType
      BY TypeParts DEF WorkerTyped
    <3>2. asked'[worker.video][lib] = 0
      BY <1>1, <2>1 DEF Due
    <3>3. CASE WorkerClimbs \/ ItemMissed
      BY <2>2, <3>1, <3>3 DEF WorkerClimbs, ItemMissed, AtServer, WorkerType
    <3>4. CASE ItemAccepted
      <4>1. worker.revision # 0 /\ asked \in [Videos -> [Libraries -> 0..MaxRevision]]
        BY <3>1, TypeParts, RefreshAssumption DEF WorkerType, Revisions, HistoryType
      <4> QED BY <2>1, <3>2, <3>4, <4>1 DEF ItemAccepted
    <3>5. ASSUME NEW l \in Libraries, ScanSuppressed(l)
          PROVE  worker'.phase # "answered" /\ (lib \in worker'.left \/ worker'.refused)
      <4>1. /\ worker.phase = "library" /\ worker'.phase = "library"
            /\ worker'.left = worker.left \ {l} /\ worker'.refused = worker.refused
            /\ scanned[l] = worker.publications
        BY <3>1, <3>5 DEF ScanSuppressed, AtServer, WorkerType, AlreadyRequested
      <4>2. lib = l => worker.refused
        <5>1. scanned[lib] < worker.publications \/ Unsettled(lib)
          BY <2>1 DEF MemoBehindTarget
        <5>2. worker.asking = NoLibrary
          BY <4>1 DEF Refreshing
        <5>3. worker.publications \in Nat
          BY <3>1, RefreshAssumption DEF WorkerType, Counts
        <5> QED BY <4>1, <5>1, <5>2, <5>3, RefreshAssumption DEF Unsettled
      <4> QED BY <2>2, <4>1, <4>2
    <3>6. ASSUME NEW l \in Libraries, ScanRecorded(l)
          PROVE  worker'.phase # "answered" /\ (lib \in worker'.left \/ worker'.refused)
      BY <2>2, <3>1, <3>6 DEF ScanRecorded, AtServer, WorkerType
    <3>7. CASE ScanAccepted
      <4>1. worker.asking \in Libraries /\ worker.revision \in Revisions
        BY <3>1, <3>7 DEF Refreshing, ScanAccepted, AtServer, WorkerType
      <4>2. lib # worker.asking
        BY <2>1, <3>2, <3>7, <4>1, ScanAskedFor DEF ScanAccepted
      <4> QED BY <2>2, <3>1, <3>7, <4>2 DEF ScanAccepted, AtServer, WorkerType
    <3>8. CASE ScanRefused
      <4>1. worker'.phase = "library" /\ worker'.refused = TRUE
        BY <3>1, <3>8 DEF ScanRefused, WorkerType
      <4> QED BY <4>1
    <3>9. CASE LibrariesAsked
      BY <2>2, <3>9 DEF LibrariesAsked, AtServer
    <3>10. CASE RefreshFails
      BY <3>1, <3>10 DEF RefreshFails, WorkerType
    <3> QED BY <2>4, <3>3, <3>4, <3>5, <3>6, <3>7, <3>8, <3>9, <3>10 DEF Climb
  <2> QED BY <2>1, <2>3, <2>4
<1> QED BY <1>2, <1>3

(* Only a target that everything was asked for is taken out.                  *)
LEMMA PublicationStep ==
  ASSUME TypeOK, Structure, Refreshing, NothingOwedYet, LadderAsked, NoPublicationLost, Next
  PROVE  NoPublicationLost'
<1>1. SUFFICES ASSUME server'.known, NEW v \in Videos, NEW lib \in Libraries, Due(v, lib)'
               PROVE  v \in Queued'
  BY DEF NoPublicationLost, Owes, Due, InQueue
<1>2. ASSUME server.known, Due(v, lib) PROVE v \in Queued
  BY <1>2 DEF NoPublicationLost, Owes, Due, InQueue
<1>3. CASE Visit
  <2>1. VisitFrame /\ VisitQueue /\ VisitHistory
    BY <1>3, EveryVisit DEF VisitEffect
  <2>2. CASE asked'[v] = asked[v] /\ owedFor'[v] = owedFor[v]
    <3>1. Due(v, lib)
      BY <1>1, <2>2 DEF Due
    <3>2. server.known
      BY <2>1, <3>1 DEF NothingOwedYet, VisitFrame, Due, Owes
    <3> QED BY <1>2, <2>1, <3>1, <3>2 DEF VisitQueue
  <2> QED BY <1>1, <2>1, <2>2 DEF VisitHistory, Due
<1>4. CASE Prune
  BY <1>1, <1>4, UnknownServer DEF Prune
<1>5. ASSUME NEW u \in Videos, MoveSubtitle(u) PROVE v \in Queued'
  <2>1. Due(v, lib)
    BY <1>1, <1>5, MoveHistory DEF Due
  <2>2. server' = server /\ order' = order
    BY <1>5 DEF MoveSubtitle
  <2> QED BY <1>1, <1>2, <2>1, <2>2 DEF Queued
<1>6. CASE WorkerLeaves
  <2>1. config.exists /\ UNCHANGED <<order, asked, owedFor>>
    BY <1>1, <1>6, LeaveStep, UnknownServer
  <2>2. server.known
    BY <1>6, <2>1 DEF WorkerLeaves, Structure, Fresh
  <2> QED BY <1>1, <1>2, <2>1, <2>2 DEF Queued, Due
<1>7. CASE WorkerPicks
  <2>1. server.known /\ UNCHANGED <<order, asked, owedFor>>
    BY <1>7, PickStep
  <2> QED BY <1>1, <1>2, <2>1 DEF Queued, Due
<1>8. CASE Settled
  <2>1. /\ server.known /\ UNCHANGED <<asked, owedFor>> /\ SettleQueue
        /\ worker.phase \in {"answered", "failed"}
    BY <1>8, SettleStep DEF SettleEffect
  <2>2. v \in Queued /\ Due(v, lib)
    BY <1>1, <1>2, <2>1 DEF Due
  <2>3. CASE v # worker.video
    BY <2>1, <2>2, <2>3 DEF SettleQueue
  <2>4. CASE v = worker.video /\ v \notin Queued'
    <3>1. SettleCovered
      BY <2>1, <2>2, <2>4 DEF SettleQueue
    <3>2. worker.phase = "answered" /\ UnchangedSince
      BY <3>1 DEF SettleCovered, Succeeded
    <3> QED BY <2>1, <2>2, <2>4, <3>2 DEF LadderAsked, AtWork
  <2> QED BY <2>3, <2>4
<1>9. CASE SettleGone \/ Climb \/ Configured \/ \E r \in Rescanners : Rescan(r)
  <2>1. /\ server'.known = server.known /\ UNCHANGED <<order, owedFor>>
        /\ asked'[v][lib] = 0 => asked[v][lib] = 0
    BY <1>9, ClimbFrame, ConfiguredStep, RescanStep, ClimbAsked, RescanAskedFor
       DEF SettleGone, ConfigStep, historyVars
  <2>2. server.known /\ Due(v, lib)
    BY <1>1, <2>1 DEF Due
  <2> QED BY <1>2, <2>1, <2>2 DEF Queued
<1> QED BY <1>3, <1>4, <1>5, <1>6, <1>7, <1>8, <1>9
        DEF Next, Queue, Drain, Visit, Notified, Climb, Settled, Configured

-----------------------------------------------------------------------------
(* The drops of a full queue.  A rescan knows what it covers by their number   *)
(* (covered).  Another one that ends can set the number back, so nothing is    *)
(* claimed of a rescan that was overtaken.                                     *)

(* A step that leaves the rescans alone, and counts the drops it makes.        *)
LEMMA RescanKept ==
  ASSUME TypeOK, TypeOK', RescanAsked, server.known \/ config.exists, rescan' = rescan,
         server'.dropped >= server.dropped,
         \A v \in Videos : \A lib \in Libraries :
           owedFor'[v] = "drop" /\ asked'[v][lib] = 0 =>
             (owedFor[v] = "drop" /\ asked[v][lib] = 0) \/ server'.dropped > server.dropped
  PROVE  RescanAsked'
<1>1. /\ server.dropped \in Nat /\ server'.dropped \in Nat
      /\ \A r \in Rescanners : rescan[r].dropped \in Nat
  BY TypeParts, TypePartsPrimed, RefreshAssumption DEF ServerType, RescanType
<1>2. ASSUME NEW r \in Rescanners, rescan'[r].active, ~rescan'[r].overtaken
      PROVE  rescan'[r].dropped <= server'.dropped
  BY <1>1, <1>2 DEF RescanAsked
<1>3. ASSUME NEW r \in Rescanners, rescan'[r].active, ~rescan'[r].overtaken,
             NEW v \in Videos, NEW lib \in Libraries,
             ~rescan'[r].refused, lib \notin rescan'[r].left,
             owedFor'[v] = "drop", asked'[v][lib] = 0
      PROVE  rescan'[r].dropped < server'.dropped
  <2>1. rescan[r].dropped <= server.dropped
    BY <1>3 DEF RescanAsked
  <2>2. CASE owedFor[v] = "drop" /\ asked[v][lib] = 0
    <3>1. rescan[r].dropped < server.dropped
      BY <1>3, <2>2 DEF RescanAsked
    <3> QED BY <1>1, <3>1
  <2> QED BY <1>1, <1>3, <2>1, <2>2
<1> QED BY <1>2, <1>3 DEF RescanAsked

(* The count of the drops, and what is a drop, after every step but a rescan.  *)
LEMMA DropStep ==
  ASSUME TypeOK, Structure, Refreshing, Next, ~\E r \in Rescanners : Rescan(r),
         server'.known \/ config'.exists
  PROVE  /\ server.known \/ config.exists
         /\ rescan' = rescan /\ server'.dropped >= server.dropped
         /\ \A v \in Videos : \A lib \in Libraries :
              owedFor'[v] = "drop" /\ asked'[v][lib] = 0 =>
                (owedFor[v] = "drop" /\ asked[v][lib] = 0) \/ server'.dropped > server.dropped
<1> DEFINE Conclusion ==
      /\ server.known \/ config.exists
      /\ rescan' = rescan /\ server'.dropped >= server.dropped
      /\ \A v \in Videos : \A lib \in Libraries :
           owedFor'[v] = "drop" /\ asked'[v][lib] = 0 =>
             (owedFor[v] = "drop" /\ asked[v][lib] = 0) \/ server'.dropped > server.dropped
<1>1. server.dropped \in Nat
  BY TypeParts, RefreshAssumption DEF ServerType
<1>2. ASSUME server.known \/ config.exists, rescan' = rescan, server'.dropped = server.dropped,
             owedFor' = owedFor,
             \A v \in Videos : \A lib \in Libraries : asked'[v][lib] = 0 => asked[v][lib] = 0
      PROVE  Conclusion
  BY <1>1, <1>2
<1>3. CASE Visit
  <2>1. VisitFrame /\ VisitHistory
    BY <1>3, EveryVisit DEF VisitEffect
  <2>2. ASSUME NEW v \in Videos, NEW lib \in Libraries, owedFor'[v] = "drop", asked'[v][lib] = 0
        PROVE  (owedFor[v] = "drop" /\ asked[v][lib] = 0) \/ server'.dropped > server.dropped
    BY <2>1, <2>2 DEF VisitHistory
  <2> QED BY <2>1, <2>2 DEF VisitFrame
<1>4. CASE Prune
  BY <1>4, UnknownServer DEF Prune
<1>5. ASSUME NEW u \in Videos, MoveSubtitle(u) PROVE Conclusion
  <2>1. UNCHANGED <<config, server, rescan>>
    BY <1>5 DEF MoveSubtitle
  <2>2. \A v \in Videos : \A lib \in Libraries :
          owedFor'[v] = "drop" /\ asked'[v][lib] = 0 => owedFor[v] = "drop" /\ asked[v][lib] = 0
    BY <1>5, MoveHistory
  <2> QED BY <1>1, <2>1, <2>2
<1>6. CASE WorkerLeaves
  <2>1. /\ config.exists /\ server' = [Synced EXCEPT !.state = LeftState]
        /\ UNCHANGED <<rescan, asked, owedFor>>
    BY <1>6, LeaveStep, UnknownServer
  <2>2. Synced \in ServerType /\ Synced.dropped = server.dropped
    BY <2>1, SyncedVisit, SyncedServer
  <2>3. server'.dropped = server.dropped
    BY <2>1, <2>2 DEF ServerType
  <2> QED BY <1>2, <2>1, <2>3
<1>7. CASE WorkerPicks
  BY <1>2, <1>7, PickStep
<1>8. CASE Settled
  BY <1>2, <1>8, SettleStep DEF SettleEffect
<1>9. CASE SettleGone \/ Climb \/ Configured
  <2>1. /\ UNCHANGED <<server, rescan, owedFor>> /\ (config'.exists => config.exists)
        /\ \A v \in Videos : \A lib \in Libraries : asked'[v][lib] = 0 => asked[v][lib] = 0
    BY <1>9, ClimbFrame, ConfiguredStep, ClimbAsked DEF SettleGone, ConfigStep, historyVars
  <2> QED BY <1>2, <2>1
<1> QED BY <1>3, <1>4, <1>5, <1>6, <1>7, <1>8, <1>9
        DEF Next, Queue, Drain, Visit, Notified, Climb, Settled, Configured

(* A request covers what it has asked for.                                    *)
LEMMA RescanOwnStep ==
  ASSUME TypeOK, RescanAsked, NEW r \in Rescanners, Rescan(r),
         server'.known \/ config'.exists, rescan'[r].active, ~rescan'[r].overtaken
  PROVE  /\ rescan'[r].dropped <= server'.dropped
         /\ \A v \in Videos : \A lib \in Libraries :
              ~rescan'[r].refused /\ lib \notin rescan'[r].left
                /\ owedFor'[v] = "drop" /\ asked'[v][lib] = 0 =>
                  rescan'[r].dropped < server'.dropped
<1>1. /\ rescan \in [Rescanners -> RescanType] /\ rescan[r] \in RescanType
      /\ server.dropped \in Nat /\ NoRescan \in RescanType
  BY TypeParts, NewRecords, RefreshAssumption DEF ServerType
<1>2. server.known \/ config.exists
  BY RescanStep
<1>3. CASE RescanBegins(r)
  <2>1. /\ server' = server /\ rescan'[r].dropped = server.dropped
        /\ rescan'[r].left = Libraries
    BY <1>1, <1>3 DEF RescanBegins, RescanType
  <2> QED BY <1>1, <2>1
<1>4. ASSUME NEW lib \in Libraries, RescanAccepted(r, lib) \/ RescanMisses(r, lib)
      PROVE  /\ rescan'[r].dropped <= server'.dropped
             /\ \A v \in Videos : \A l \in Libraries :
                  ~rescan'[r].refused /\ l \notin rescan'[r].left
                    /\ owedFor'[v] = "drop" /\ asked'[v][l] = 0 =>
                      rescan'[r].dropped < server'.dropped
  <2>1. /\ server' = server /\ owedFor' = owedFor /\ rescan[r].active
        /\ ScanAsked(lib, rescan[r].revision)
    BY <1>4 DEF RescanAccepted, RescanMisses
  <2>2. /\ rescan'[r].dropped = rescan[r].dropped /\ rescan'[r].refused = rescan[r].refused
        /\ rescan'[r].left = rescan[r].left \ {lib}
        /\ rescan'[r].overtaken = rescan[r].overtaken
    BY <1>1, <1>4 DEF RescanAccepted, RescanMisses, RescanType
  <2>3. rescan[r].revision \in Revisions
    BY <1>1 DEF RescanType
  <2>4. \A v \in Videos : \A l \in Libraries :
          asked'[v][l] = 0 => asked[v][l] = 0 /\ l # lib
    BY <2>1, <2>3, ScanAskedFor
  <2> QED BY <1>2, <2>1, <2>2, <2>4 DEF RescanAsked
<1>5. ASSUME NEW lib \in Libraries, RescanRefused(r, lib)
      PROVE  rescan'[r].dropped <= server'.dropped /\ rescan'[r].refused
  <2>1. server' = server /\ rescan[r].active
    BY <1>5 DEF RescanRefused
  <2>2. /\ rescan'[r].dropped = rescan[r].dropped /\ rescan'[r].refused = TRUE
        /\ rescan'[r].overtaken = rescan[r].overtaken
    BY <1>1, <1>5 DEF RescanRefused, RescanType
  <2> QED BY <1>2, <2>1, <2>2 DEF RescanAsked
<1>6. CASE RescanStops(r) \/ RescanEnds(r)
  <2>1. rescan'[r] = NoRescan
    BY <1>1, <1>6 DEF RescanStops, RescanEnds
  <2> QED BY <2>1 DEF NoRescan
<1> QED BY <1>3, <1>4, <1>5, <1>6 DEF Rescan

(* To the other requests it either leaves the count, or it overtakes them.     *)
LEMMA RescanOtherStep ==
  ASSUME TypeOK, NEW r \in Rescanners, Rescan(r), NEW q \in Rescanners, q # r,
         rescan'[q].active, ~rescan'[q].overtaken
  PROVE  /\ rescan[q].active /\ ~rescan[q].overtaken
         /\ rescan'[q].dropped = rescan[q].dropped /\ rescan'[q].left = rescan[q].left
         /\ rescan'[q].refused = rescan[q].refused
         /\ server'.dropped = server.dropped
<1>1. /\ rescan \in [Rescanners -> RescanType] /\ rescan[q] \in RescanType
      /\ server \in ServerType /\ server.dropped \in Nat
  BY TypeParts, RefreshAssumption DEF ServerType
<1>2. CASE RescanEnds(r)
  <2>1. rescan'[q] = [rescan[q] EXCEPT !.overtaken = @ \/ (rescan[q].active /\ Clears(r))]
    BY <1>2 DEF RescanEnds
  <2>2. /\ rescan'[q].active = rescan[q].active /\ rescan'[q].dropped = rescan[q].dropped
        /\ rescan'[q].left = rescan[q].left /\ rescan'[q].refused = rescan[q].refused
        /\ rescan'[q].overtaken = (rescan[q].overtaken \/ (rescan[q].active /\ Clears(r)))
    BY <1>1, <2>1 DEF RescanType
  <2>3. ~Clears(r) /\ ~rescan[q].overtaken
    BY <2>2
  <2>4. server'.dropped = IF rescan[r].refused THEN server.dropped ELSE Covered(r)
    BY <1>1, <1>2 DEF RescanEnds, ServerType
  <2>5. server'.dropped = server.dropped
    BY <1>1, <2>3, <2>4 DEF Clears, Covered
  <2> QED BY <2>2, <2>3, <2>5
<1>3. CASE ~RescanEnds(r)
  <2>1. rescan'[q] = rescan[q] /\ server' = server
    BY <1>1, <1>3
       DEF Rescan, RescanBegins, RescanStops, RescanAccepted, RescanMisses, RescanRefused
  <2> QED BY <2>1
<1> QED BY <1>2, <1>3

LEMMA RescanCoversStep ==
  ASSUME TypeOK, TypeOK', Structure, Refreshing, RescanAsked, Next
  PROVE  RescanAsked'
<1>1. CASE ~\E r \in Rescanners : Rescan(r)
  BY <1>1, RescanKept, DropStep DEF RescanAsked
<1>2. ASSUME NEW r \in Rescanners, Rescan(r), server'.known \/ config'.exists,
             NEW q \in Rescanners, q # r, rescan'[q].active, ~rescan'[q].overtaken
      PROVE  /\ rescan'[q].dropped <= server'.dropped
             /\ \A v \in Videos : \A lib \in Libraries :
                  ~rescan'[q].refused /\ lib \notin rescan'[q].left
                    /\ owedFor'[v] = "drop" /\ asked'[v][lib] = 0 =>
                      rescan'[q].dropped < server'.dropped
  <2>1. /\ rescan[q].active /\ ~rescan[q].overtaken
        /\ rescan'[q].dropped = rescan[q].dropped /\ rescan'[q].left = rescan[q].left
        /\ rescan'[q].refused = rescan[q].refused
        /\ server'.dropped = server.dropped
    BY <1>2, RescanOtherStep
  <2>2. (server.known \/ config.exists) /\ owedFor' = owedFor
    BY <1>2, RescanStep
  <2>3. \A v \in Videos : \A l \in Libraries : asked'[v][l] = 0 => asked[v][l] = 0
    BY <1>2, RescanAskedFor
  <2> QED BY <2>1, <2>2, <2>3 DEF RescanAsked
<1>3. ASSUME NEW r \in Rescanners, Rescan(r) PROVE RescanAsked'
  BY <1>2, <1>3, RescanOwnStep DEF RescanAsked
<1> QED BY <1>1, <1>3

LEMMA OverflowStep ==
  ASSUME TypeOK, TypeOK', Structure, Refreshing, NothingOwedYet, RescanAsked, Next,
         NEW v \in Videos, Unreported(v)', ~Unreported(v)
  PROVE  \E r \in Rescanners : rescan[r].overtaken /\ RescanEnds(r)
<1>1. PICK lib \in Libraries : asked'[v][lib] = 0
  BY DEF Unreported, Owes
<1>2. server'.known /\ owedFor'[v] = "drop" /\ server'.dropped = 0
  BY DEF Unreported
<1>3. server.dropped \in Nat /\ server \in ServerType
  BY TypeParts, RefreshAssumption DEF ServerType
<1>4. \E r \in Rescanners : Rescan(r)
  <2> SUFFICES ASSUME ~\E r \in Rescanners : Rescan(r) PROVE FALSE
    OBVIOUS
  <2>1. /\ server.known \/ config.exists
        /\ server'.dropped >= server.dropped
        /\ (owedFor[v] = "drop" /\ asked[v][lib] = 0) \/ server'.dropped > server.dropped
    BY <1>1, <1>2, DropStep
  <2>2. owedFor[v] = "drop" /\ asked[v][lib] = 0 /\ server.dropped = 0
    BY <1>2, <1>3, <2>1
  <2>3. server.known
    BY <1>1, <2>1, <2>2 DEF NothingOwedYet, Owes
  <2> QED BY <1>1, <2>2, <2>3 DEF Unreported, Owes
<1>5. PICK r \in Rescanners : Rescan(r)
  BY <1>4
<1>6. server.known /\ owedFor[v] = "drop" /\ asked[v][lib] = 0
  BY <1>1, <1>2, <1>5, RescanStep, RescanAskedFor
<1>7. server.dropped > 0
  BY <1>1, <1>3, <1>6 DEF Unreported, Owes
<1>8. RescanEnds(r)
  <2>1. server' # server
    BY <1>2, <1>7
  <2> QED BY <1>5, <2>1
          DEF Rescan, RescanBegins, RescanStops, RescanAccepted, RescanMisses, RescanRefused
<1>9. rescan[r].overtaken
  <2> SUFFICES ASSUME ~rescan[r].overtaken PROVE FALSE
    OBVIOUS
  <2>1. server'.dropped = IF rescan[r].refused THEN server.dropped ELSE Covered(r)
    BY <1>3, <1>8 DEF RescanEnds, ServerType
  <2>2. ~rescan[r].refused /\ Covered(r) = 0
    BY <1>2, <1>7, <2>1
  <2>3. rescan[r].dropped < server.dropped
    BY <1>1, <1>6, <1>8, <2>2 DEF RescanAsked, RescanEnds
  <2>4. rescan[r].dropped \in Nat
    BY TypeParts, RefreshAssumption DEF RescanType
  <2>5. server.dropped # rescan[r].dropped
    BY <1>3, <2>3, <2>4
  <2> QED BY <1>7, <2>2, <2>5 DEF Covered
<1> QED BY <1>8, <1>9

-----------------------------------------------------------------------------
(* The theorems.                                                              *)

(* What every reachable state satisfies.                                      *)
DispatcherInv ==
  /\ TypeOK /\ Structure /\ Refreshing /\ CountsBehind
  /\ MemoBehind /\ MemoBehindTarget /\ LadderAsked
  /\ NothingOwedYet /\ WarningKept /\ NoPublicationLost /\ LeftMarked

LEMMA DispatcherInit == Init => DispatcherInv
<1> SUFFICES ASSUME Init PROVE DispatcherInv
  OBVIOUS
<1>1. TypeOK
  BY InitTyped
<1>2. /\ server.known = FALSE /\ worker = NoWorker /\ worker.phase = "none"
      /\ scanned = NothingScanned /\ order = <<>> /\ target = NoTargets /\ server = Unknown
  BY IdleThread, UnknownServer DEF Init
<1>3. \A v \in Videos : ~Owes(v) /\ disk[v] # "outside"
  BY DEF Init, Owes
<1> QED BY <1>1, <1>2, <1>3, IdleThread
        DEF DispatcherInv, Structure, Fresh, Refreshing, CountsBehind, MemoBehind,
            MemoBehindTarget, LadderAsked, NothingOwedYet, WarningKept, NoPublicationLost, LeftMarked

LEMMA DispatcherStep == DispatcherInv /\ [Next]_vars => DispatcherInv'
<1> SUFFICES ASSUME DispatcherInv, [Next]_vars PROVE DispatcherInv'
  OBVIOUS
<1>1. TypeOK'
  BY NextTyped DEF DispatcherInv
<1>2. CASE Next
  <2>1. Structure'
    BY <1>1, <1>2, StructureStep DEF DispatcherInv
  <2>2. Refreshing' /\ CountsBehind'
    BY <1>1, <1>2, RefreshingStep, CountsStep DEF DispatcherInv
  <2>3. MemoBehind'
    BY <1>1, <1>2, <2>1, MemoStep DEF DispatcherInv
  <2>4. MemoBehindTarget' /\ LadderAsked'
    BY <1>1, <1>2, MemoTargetStep, LadderStep DEF DispatcherInv
  <2>5. NothingOwedYet' /\ WarningKept'
    BY <1>2, NothingOwedStep, WarningStep DEF DispatcherInv
  <2>6. NoPublicationLost' /\ LeftMarked'
    BY <1>2, PublicationStep, LeftMarkedStep DEF DispatcherInv
  <2> QED BY <1>1, <2>1, <2>2, <2>3, <2>4, <2>5, <2>6 DEF DispatcherInv
<1>3. CASE UNCHANGED vars
  BY <1>1, <1>3
     DEF vars, historyVars, DispatcherInv, Structure, Fresh, Refreshing, CountsBehind, MemoBehind,
         MemoBehindTarget, LadderAsked, NothingOwedYet, WarningKept, NoPublicationLost, LeftMarked,
         Due, Owes, Unsettled, UnchangedSince, InQueue, Queued
<1> QED BY <1>2, <1>3

(* The inductive invariant of the dispatcher: the thread, the queue, the memo  *)
(* and what was asked of the server fit together in every reachable state.     *)
THEOREM DispatcherInvariant == Spec => []DispatcherInv
  BY DispatcherInit, DispatcherStep, PTL DEF Spec

(* A published subtitle stays queued until the server was asked for all that   *)
(* covers it (notify, _coalescer, _run).                                       *)
THEOREM PublicationsStay == Spec => []NoPublicationLost
<1>1. DispatcherInv => NoPublicationLost
  BY DEF DispatcherInv
<1> QED BY <1>1, DispatcherInvariant, PTL

(* The warning of a misplaced subtitle outlives every refresh (_run).          *)
THEOREM WarningsStay == Spec => []WarningKept
<1>1. DispatcherInv => WarningKept
  BY DEF DispatcherInv
<1> QED BY <1>1, DispatcherInvariant, PTL

(* A queue that nobody drains shows as unconfirmed (_run, status).              *)
THEOREM QuietQueuesShow == Spec => []QuietIsUnconfirmed
<1>1. DispatcherInv => QuietIsUnconfirmed
  <2> SUFFICES ASSUME DispatcherInv, Quiet, order # <<>> PROVE Synced.state = "unconfirmed"
    BY DEF QuietIsUnconfirmed, Unconfirmed
  <2>1. TypeOK /\ Structure /\ config.exists /\ server.known /\ worker.phase = "none"
    BY DEF DispatcherInv, Quiet
  <2>2. CASE server.revision = config.revision
    <3>1. Synced = server
      BY <2>1, <2>2, SyncedVisit
    <3> QED BY <2>1, <2>2, <3>1 DEF DispatcherInv, LeftMarked
  <2>3. CASE server.revision # config.revision
    BY <2>1, <2>3, SyncedVisit
  <2> QED BY <2>2, <2>3
<1> QED BY <1>1, DispatcherInvariant, PTL

(* A publication that a full queue refused is reported as queue_overflow until *)
(* everything that covers it was asked for, whatever else runs; only a rescan  *)
(* that another one overtook can take the report away (notify, covered).       *)
THEOREM OverflowsShow == Spec => OverflowReported
<1> DEFINE Inv == DispatcherInv /\ RescanAsked
<1> DEFINE Step == \A v \in Videos :
      Unreported(v)' /\ ~Unreported(v) =>
        \E r \in Rescanners : rescan[r].overtaken /\ RescanEnds(r)
<1>1. Init => Inv
  <2> SUFFICES ASSUME Init PROVE Inv
    OBVIOUS
  <2>1. \A r \in Rescanners : ~rescan[r].active
    BY DEF Init, NoRescan
  <2> QED BY <2>1, DispatcherInit DEF RescanAsked
<1>2. Inv /\ [Next]_vars => Inv'
  <2> SUFFICES ASSUME Inv, [Next]_vars PROVE Inv'
    OBVIOUS
  <2>1. DispatcherInv'
    BY DispatcherStep
  <2>2. CASE Next
    <3>1. RescanAsked'
      BY <2>1, <2>2, RescanCoversStep DEF DispatcherInv
    <3> QED BY <2>1, <3>1
  <2>3. CASE UNCHANGED vars
    BY <2>1, <2>3 DEF vars, historyVars, RescanAsked
  <2> QED BY <2>2, <2>3
<1>3. Inv /\ Inv' /\ [Next]_vars => [Step]_vars
  <2> SUFFICES ASSUME Inv, Inv', Next PROVE Step
    OBVIOUS
  <2> QED BY OverflowStep DEF DispatcherInv
<1>4. Spec => []Inv
  BY <1>1, <1>2, PTL DEF Spec
<1>5. Spec => [][Step]_vars
  BY <1>3, <1>4, PTL DEF Spec
<1> QED BY <1>5 DEF OverflowReported
==============================================================================
