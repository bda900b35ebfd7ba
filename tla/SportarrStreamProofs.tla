------------------------- MODULE SportarrStreamProofs -------------------------
(* Machine-checked properties of SportarrStream, for every value of its          *)
(* constants.                                                                    *)
EXTENDS SportarrStream, FiniteSetTheorems, TLAPS

Stages == {"none", "rest", "waiting", "fetching", "failed", "ended"}

(* TypeOK, by who keeps the variables.                                           *)
LibraryTyped ==
  /\ connection \in Connections /\ version \in [Leagues -> Versions]
  /\ log \in Seq(Events) /\ Len(log) <= MaxChanges
  /\ stored \in [Leagues -> Content]
ManagerTyped ==
  current \in Clients \cup {0} /\ made \in Clients \cup {0} /\ identity \in [Clients -> Connections]
ClientTyped ==
  stopped \in [Clients -> BOOLEAN] /\ wake \in [Clients -> BOOLEAN] /\ pending \in [Clients -> Work]
ReaderTyped ==
  /\ reader \in [Clients -> Reading \cup {"none", "down", "ended"}]
  /\ at \in [Clients -> 0..MaxChanges] /\ cursor \in [Clients -> 0..MaxChanges]
SyncTyped ==
  /\ lock \in Workers \cup {Free} /\ stage \in [Workers -> Stages]
  /\ batch \in [Workers -> Work] /\ expected \in [Workers -> Connections]
  /\ got \in [Workers -> [Leagues -> Content \cup {Unread}]]
  /\ \A w \in Workers : stage[w] = "fetching" <=> lock = w
BoundTyped == faults \in 0..MaxFaults /\ jobs \in 0..MaxJobs

(* What the shape of the state rests on: nothing names a change that has not     *)
(* happened, and a client that was not made yet runs no thread.                  *)
Bounds ==
  /\ \A l \in Leagues : version[l] <= Len(log) /\ stored[l].version <= version[l]
  /\ \A c \in Clients : at[c] <= Len(log) /\ cursor[c] <= Len(log) /\ identity[c] <= connection
  /\ \A c \in Clients : c > made => stage[c] = "none"

(* What a sync carries: nothing outside its work, under the lock the connection   *)
(* of its client, and pages read after whatever is stored was.                   *)
Carried ==
  \A w \in Workers :
    /\ stage[w] \notin {"waiting", "fetching"} => batch[w] = NoWork
    /\ w \in Clients /\ stage[w] = "fetching" => expected[w] = identity[w]
    /\ \A l \in Leagues : got[w][l] # Unread =>
         /\ stage[w] = "fetching" /\ got[w][l].connection = expected[w]
         /\ stored[l].version <= got[w][l].version /\ got[w][l].version <= version[l]

Sound == TypeOK /\ Bounds /\ Carried

-----------------------------------------------------------------------------
LEMMA Groups ==
  TypeOK <=> /\ LibraryTyped /\ ManagerTyped /\ ClientTyped
             /\ ReaderTyped /\ SyncTyped /\ BoundTyped
  BY DEF TypeOK, LibraryTyped, ManagerTyped, ClientTyped, ReaderTyped, SyncTyped, BoundTyped, Stages

LEMMA GroupsPrime ==
  TypeOK' <=> /\ LibraryTyped' /\ ManagerTyped' /\ ClientTyped'
              /\ ReaderTyped' /\ SyncTyped' /\ BoundTyped'
  BY DEF TypeOK, LibraryTyped, ManagerTyped, ClientTyped, ReaderTyped, SyncTyped, BoundTyped, Stages

LEMMA GroupsKept ==
  /\ LibraryTyped /\ UNCHANGED libraryVars => LibraryTyped'
  /\ ManagerTyped /\ UNCHANGED managerVars => ManagerTyped'
  /\ ClientTyped /\ UNCHANGED clientVars => ClientTyped'
  /\ ReaderTyped /\ UNCHANGED readerVars => ReaderTyped'
  /\ SyncTyped /\ UNCHANGED syncVars => SyncTyped'
  /\ BoundTyped /\ UNCHANGED boundVars => BoundTyped'
<1>1. LibraryTyped /\ UNCHANGED libraryVars => LibraryTyped'
  BY DEF LibraryTyped, libraryVars
<1>2. ManagerTyped /\ UNCHANGED managerVars => ManagerTyped'
  BY DEF ManagerTyped, managerVars
<1>3. ClientTyped /\ UNCHANGED clientVars => ClientTyped'
  BY DEF ClientTyped, clientVars
<1>4. ReaderTyped /\ UNCHANGED readerVars => ReaderTyped'
  BY DEF ReaderTyped, readerVars
<1>5. SyncTyped /\ UNCHANGED syncVars => SyncTyped'
  BY DEF SyncTyped, syncVars
<1>6. BoundTyped /\ UNCHANGED boundVars => BoundTyped'
  BY DEF BoundTyped, boundVars
<1> QED BY <1>1, <1>2, <1>3, <1>4, <1>5, <1>6

LEMMA Names ==
  /\ Clients \subseteq Nat \ {0} /\ Clients \subseteq Workers /\ Job \in Workers /\ Job \notin Clients
  /\ Free \notin Workers /\ MaxClients \in Nat /\ \A w \in Workers : w \in Clients \/ w = Job
  BY StreamAssumption DEF Clients, Workers

(* Work that is pending only grows, up to a full repair (enqueue).                *)
LEMMA WorkTypes ==
  /\ NoWork \in Work /\ FullRepair \in Work
  /\ NoWork.full = FALSE /\ NoWork.ids = {} /\ FullRepair.full = TRUE
  /\ \A x, y \in Work : Merged(x, y) \in Work
  /\ \A e \in Events : WorkOf(e) \in Work
  /\ \A x \in Work : Resolved(x) \subseteq Work
<1> DEFINE Ids == SUBSET [league : Leagues, form : {"league", "event"}]
<1>0. PICK yes, no : yes = TRUE /\ no = FALSE
  OBVIOUS
<1>1. NoWork \in Work /\ FullRepair \in Work /\ NoWork.full = FALSE /\ NoWork.ids = {} /\ FullRepair.full = TRUE
  BY DEF NoWork, FullRepair, Work
<1>2. \A b \in BOOLEAN, i \in Ids : [full |-> b, ids |-> i] \in Work
  BY DEF Work
<1>3. \A x \in Work : x.full \in BOOLEAN /\ x.ids \in Ids
  BY DEF Work
<1>4. ASSUME NEW x \in Work, NEW y \in Work PROVE Merged(x, y) \in Work
  <2>1. x.ids \cup y.ids \in Ids
    BY <1>3
  <2>2. [full |-> FALSE, ids |-> x.ids \cup y.ids] \in Work
    BY <1>2, <2>1
  <2> QED BY <1>1, <2>2 DEF Merged
<1>5. ASSUME NEW e \in Events PROVE WorkOf(e) \in Work
  <2>1. CASE e.form = "other"
    BY <1>1, <2>1 DEF WorkOf
  <2>2. CASE e.form # "other"
    <3>1. {e} \in Ids
      BY <2>2 DEF Events, Forms
    <3>2. [full |-> FALSE, ids |-> {e}] \in Work
      BY <1>2, <3>1
    <3> QED BY <2>2, <3>2 DEF WorkOf
  <2> QED BY <2>1, <2>2
<1>6. ASSUME NEW x \in Work, NEW y \in Resolved(x) PROVE y \in Work
  <2>1. PICK b \in {x.full, TRUE} : y = [x EXCEPT !.full = b]
    BY <1>6 DEF Resolved
  <2>2. b \in BOOLEAN
    BY <1>3, <2>1
  <2> QED BY <2>1, <2>2 DEF Work
<1> QED BY <1>1, <1>4, <1>5, <1>6

LEMMA MergedKeeps ==
  ASSUME NEW x \in Work, NEW y \in Work, NEW l \in Leagues,
         \/ x.full = TRUE \/ y.full = TRUE \/ l \in Named(x) \/ l \in Named(y)
  PROVE  Merged(x, y).full = TRUE \/ l \in Named(Merged(x, y))
<1>1. CASE x.full \/ y.full \/ Cardinality(x.ids \cup y.ids) > PendingLimit
  BY <1>1, WorkTypes DEF Merged
<1>2. CASE ~(x.full \/ y.full \/ Cardinality(x.ids \cup y.ids) > PendingLimit)
  <2>1. Merged(x, y) = [full |-> FALSE, ids |-> x.ids \cup y.ids]
    BY <1>2 DEF Merged
  <2>2. Merged(x, y).ids = x.ids \cup y.ids
    BY <2>1
  <2>3. l \in Named(x) \/ l \in Named(y)
    BY <1>2
  <2> QED BY <2>2, <2>3 DEF Named
<1> QED BY <1>1, <1>2

LEMMA EnqueueEffect ==
  ASSUME ClientTyped, NEW c \in Clients, NEW more \in Work, Enqueue(c, more)
  PROVE  /\ ClientTyped' /\ stopped' = stopped
         /\ \A d \in Clients, l \in Leagues : IsPending(d, l) => IsPending(d, l)'
         /\ ~stopped[c] => \A l \in Leagues :
              more.full = TRUE \/ l \in Named(more) => IsPending(c, l)'
<1>1. CASE stopped[c]
  <2>1. UNCHANGED clientVars
    BY <1>1 DEF Enqueue
  <2>2. stopped' = stopped /\ wake' = wake /\ pending' = pending
    BY <2>1 DEF clientVars
  <2> QED BY <1>1, <2>1, <2>2, GroupsKept DEF IsPending
<1>2. CASE ~stopped[c]
  <2>1. /\ pending' = [pending EXCEPT ![c] = Merged(pending[c], more)]
        /\ wake' = [wake EXCEPT ![c] = TRUE] /\ stopped' = stopped
    BY <1>2 DEF Enqueue
  <2>2. pending[c] \in Work /\ Merged(pending[c], more) \in Work
    BY WorkTypes DEF ClientTyped
  <2>3. pending' \in [Clients -> Work] /\ wake' \in [Clients -> BOOLEAN]
    BY <2>1, <2>2 DEF ClientTyped
  <2>4. /\ \A d \in Clients : d # c => pending'[d] = pending[d] /\ wake'[d] = wake[d]
        /\ pending'[c] = Merged(pending[c], more) /\ wake'[c] = TRUE
    BY <2>1 DEF ClientTyped
  <2>5. ASSUME NEW l \in Leagues, more.full = TRUE \/ l \in Named(more) \/ IsPending(c, l)
        PROVE  IsPending(c, l)'
    <3>1. pending[c].full = TRUE \/ more.full = TRUE \/ l \in Named(pending[c]) \/ l \in Named(more)
      <4>1. pending[c].full \in BOOLEAN
        BY <2>2 DEF Work
      <4> QED BY <2>5, <4>1 DEF IsPending
    <3>2. Merged(pending[c], more).full = TRUE \/ l \in Named(Merged(pending[c], more))
      BY <2>2, <3>1, MergedKeeps
    <3> QED BY <2>4, <3>2 DEF IsPending
  <2>6. ASSUME NEW d \in Clients, NEW l \in Leagues, IsPending(d, l) PROVE IsPending(d, l)'
    BY <2>4, <2>5, <2>6 DEF IsPending
  <2> QED BY <2>1, <2>3, <2>5, <2>6 DEF ClientTyped
<1> QED BY <1>1, <1>2

-----------------------------------------------------------------------------
LEMMA ReaderSound ==
  ASSUME Sound, ReaderOnly, ClientTyped', ReaderTyped', BoundTyped',
         \A c \in Clients : at'[c] <= Len(log) /\ cursor'[c] <= Len(log)
  PROVE  Sound'
<1>1. TypeOK'
  BY Groups, GroupsPrime, GroupsKept DEF Sound, ReaderOnly
<1>2. UNCHANGED <<connection, version, log, stored, made, identity, stage, batch, expected, got>>
  BY DEF ReaderOnly, libraryVars, managerVars, syncVars
<1>3. Bounds' /\ Carried'
  BY <1>2 DEF Sound, Bounds, Carried
<1> QED BY <1>1, <1>3 DEF Sound

LEMMA ReaderStep ==
  ASSUME Sound, NEW c \in Clients, Reader(c) \/ Resync(c) \/ StreamBreaks(c)
  PROVE  Sound' /\ ClientTyped' /\ ReaderOnly
<1>0. LibraryTyped /\ ClientTyped /\ ReaderTyped /\ BoundTyped /\ Bounds
  BY Groups DEF Sound
<1>1. Len(log) \in 0..MaxChanges /\ Len(log) \in Nat /\ MaxChanges \in Nat /\ log \in Seq(Events)
  BY <1>0, StreamAssumption DEF LibraryTyped
<1>2. ReaderOnly
  BY DEF Reader, Subscribe, Opened, Deliver, Resync, StreamBreaks, ReaderEnds
<1>3. BoundTyped'
  <2>1. UNCHANGED boundVars \/ Fault
    BY DEF Reader, Subscribe, Opened, Deliver, Resync, StreamBreaks, ReaderEnds
  <2> QED BY <2>1, <1>0, StreamAssumption DEF Fault, BoundTyped, boundVars
<1>4. CASE Subscribe(c)
  <2>1. PICK from \in {cursor[c], Len(log)} : at' = [at EXCEPT ![c] = from]
    BY <1>4 DEF Subscribe
  <2>2. from \in 0..MaxChanges /\ from <= Len(log)
    BY <1>0, <1>1 DEF ReaderTyped, Bounds
  <2>3. ReaderTyped' /\ \A d \in Clients : at'[d] <= Len(log) /\ cursor'[d] <= Len(log)
    BY <1>0, <1>4, <2>1, <2>2 DEF Subscribe, ReaderTyped, Reading, Bounds
  <2>4. ClientTyped'
    BY <1>0, <1>4, GroupsKept DEF Subscribe
  <2> QED BY <1>2, <1>3, <2>3, <2>4, ReaderSound
<1>5. CASE Opened(c)
  <2>1. ClientTyped'
    BY <1>0, <1>5, EnqueueEffect, WorkTypes DEF Opened
  <2>2. ReaderTyped' /\ \A d \in Clients : at'[d] <= Len(log) /\ cursor'[d] <= Len(log)
    BY <1>0, <1>5 DEF Opened, ReaderTyped, Reading, Bounds
  <2> QED BY <1>2, <1>3, <2>1, <2>2, ReaderSound
<1>6. CASE Deliver(c)
  <2>1. at[c] + 1 \in 1..Len(log) /\ log[at[c] + 1] \in Events
    BY <1>0, <1>1, <1>6 DEF Deliver, ReaderTyped
  <2>2. ClientTyped'
    BY <1>0, <1>6, <2>1, EnqueueEffect, WorkTypes DEF Deliver
  <2>3. at' = [at EXCEPT ![c] = at[c] + 1] /\ cursor' = [cursor EXCEPT ![c] = at[c] + 1] /\ reader' = reader
    BY <1>6 DEF Deliver
  <2>4. ReaderTyped' /\ \A d \in Clients : at'[d] <= Len(log) /\ cursor'[d] <= Len(log)
    BY <1>0, <1>1, <2>1, <2>3 DEF ReaderTyped, Bounds
  <2> QED BY <1>2, <1>3, <2>2, <2>4, ReaderSound
<1>7. CASE Resync(c)
  <2>1. ClientTyped'
    BY <1>0, <1>7, EnqueueEffect, WorkTypes DEF Resync
  <2>2. ReaderTyped' /\ \A d \in Clients : at'[d] <= Len(log) /\ cursor'[d] <= Len(log)
    BY <1>0, <1>1, <1>7 DEF Resync, ReaderTyped, Bounds
  <2> QED BY <1>2, <1>3, <2>1, <2>2, ReaderSound
<1>8. CASE StreamBreaks(c)
  <2>1. ReaderTyped' /\ \A d \in Clients : at'[d] <= Len(log) /\ cursor'[d] <= Len(log)
    BY <1>0, <1>8 DEF StreamBreaks, ReaderTyped, Bounds
  <2>2. ClientTyped'
    BY <1>0, <1>8, GroupsKept DEF StreamBreaks
  <2> QED BY <1>2, <1>3, <2>1, <2>2, ReaderSound
<1>9. CASE ReaderEnds(c)
  <2>1. ReaderTyped' /\ \A d \in Clients : at'[d] <= Len(log) /\ cursor'[d] <= Len(log)
    BY <1>0, <1>1, <1>9 DEF ReaderEnds, ReaderTyped, Bounds
  <2>2. ClientTyped'
    BY <1>0, <1>9, GroupsKept DEF ReaderEnds
  <2> QED BY <1>2, <1>3, <2>1, <2>2, ReaderSound
<1> QED BY <1>4, <1>5, <1>6, <1>7, <1>8, <1>9 DEF Reader

-----------------------------------------------------------------------------
(* The lock is held exactly by who is fetching (owner_sync_lock).                *)
LEMMA LockTyped ==
  ASSUME SyncTyped, NEW w \in Workers, NEW s \in Stages, stage' = [stage EXCEPT ![w] = s],
         \/ lock' = lock /\ (s = "fetching" <=> stage[w] = "fetching")
         \/ lock = Free /\ lock' = w /\ s = "fetching"
         \/ lock' = Released(w) /\ s # "fetching",
         batch' \in [Workers -> Work], expected' \in [Workers -> Connections],
         got' \in [Workers -> [Leagues -> Content \cup {Unread}]]
  PROVE  SyncTyped'
<1>1. /\ stage' \in [Workers -> Stages] /\ stage'[w] = s
      /\ \A v \in Workers : v # w => stage'[v] = stage[v]
  BY DEF SyncTyped
<1>2. lock' \in Workers \cup {Free}
  BY DEF SyncTyped, Released
<1>3. \A v \in Workers : stage'[v] = "fetching" <=> lock' = v
  BY <1>1, Names DEF SyncTyped, Released
<1> QED BY <1>1, <1>2, <1>3 DEF SyncTyped

(* A step of the sync of w.                                                      *)
LEMMA SyncSound ==
  ASSUME Sound, NEW w \in Workers, stage[w] # "none", WorkerOnly,
         UNCHANGED <<connection, version, log>>, stored' \in [Leagues -> Content],
         \A l \in Leagues : stored'[l] # stored[l] => lock = w /\ stored'[l].version <= version[l],
         ClientTyped', BoundTyped', SyncTyped',
         \A v \in Workers : v # w => /\ stage'[v] = stage[v] /\ batch'[v] = batch[v]
                                     /\ expected'[v] = expected[v] /\ got'[v] = got[v],
         stage'[w] \notin {"waiting", "fetching"} => batch'[w] = NoWork,
         w \in Clients /\ stage'[w] = "fetching" => expected'[w] = identity[w],
         \A l \in Leagues : got'[w][l] # Unread =>
           /\ stage'[w] = "fetching" /\ got'[w][l].connection = expected'[w]
           /\ stored'[l].version <= got'[w][l].version /\ got'[w][l].version <= version[l]
  PROVE  Sound'
<1>1. UNCHANGED <<current, made, identity, reader, at, cursor>>
  BY DEF WorkerOnly, managerVars, readerVars
<1>2. LibraryTyped'
  BY Groups DEF Sound, LibraryTyped
<1>3. TypeOK'
  BY <1>2, Groups, GroupsPrime, GroupsKept DEF Sound, WorkerOnly
<1>4. Bounds'
  <2>1. \A c \in Clients : c > made => stage'[c] = "none"
    BY Names DEF Sound, Bounds
  <2>2. \A l \in Leagues : stored'[l].version <= version[l]
    BY DEF Sound, Bounds
  <2> QED BY <1>1, <2>1, <2>2 DEF Sound, Bounds
<1>5. ASSUME NEW v \in Workers, v # w, NEW l \in Leagues, got'[v][l] # Unread
      PROVE  /\ stage'[v] = "fetching" /\ got'[v][l].connection = expected'[v]
             /\ stored'[l].version <= got'[v][l].version /\ got'[v][l].version <= version[l]
  <2>1. /\ stage[v] = "fetching" /\ got[v][l].connection = expected[v]
        /\ stored[l].version <= got[v][l].version /\ got[v][l].version <= version[l]
    BY <1>5 DEF Sound, Carried
  <2>2. lock = v
    BY <2>1 DEF Sound, TypeOK
  <2>3. stored'[l] = stored[l]
    BY <2>2, <1>5
  <2> QED BY <2>1, <2>3, <1>5
<1>6. Carried'
  <2> SUFFICES ASSUME NEW v \in Workers
               PROVE  /\ stage'[v] \notin {"waiting", "fetching"} => batch'[v] = NoWork
                      /\ v \in Clients /\ stage'[v] = "fetching" => expected'[v] = identity'[v]
                      /\ \A l \in Leagues : got'[v][l] # Unread =>
                           /\ stage'[v] = "fetching" /\ got'[v][l].connection = expected'[v]
                           /\ stored'[l].version <= got'[v][l].version /\ got'[v][l].version <= version'[l]
    BY DEF Carried
  <2>1. CASE v = w
    BY <2>1, <1>1
  <2>2. CASE v # w
    BY <2>2, <1>1, <1>5 DEF Sound, Carried
  <2> QED BY <2>1, <2>2
<1> QED BY <1>3, <1>4, <1>6 DEF Sound

(* A sync that is nowhere under the lock has read nothing.                       *)
LEMMA NothingYet ==
  ASSUME Sound, NEW w \in Workers, stage[w] # "fetching"
  PROVE  \A l \in Leagues : got[w][l] = Unread
  BY DEF Sound, Carried

LEMMA ClientBatch ==
  ASSUME Sound, NEW c \in Clients, Worker(c) \/ WorkerDies(c)
  PROVE  Sound' /\ ClientTyped'
<1>0. /\ c \in Workers /\ ClientTyped /\ SyncTyped /\ BoundTyped /\ LibraryTyped
      /\ \A l \in Leagues : stored[l] = stored[l]
  BY Groups, Names DEF Sound
<1>1. CASE Swap(c)
  <2>1. PICK work \in Resolved(pending[c]) : batch' = [batch EXCEPT ![c] = work]
    BY <1>1 DEF Swap
  <2>2. work \in Work
    BY <1>0, <2>1, WorkTypes DEF ClientTyped
  <2>3. /\ stage[c] = "rest" /\ stage' = [stage EXCEPT ![c] = "waiting"]
        /\ UNCHANGED <<connection, version, log, stored, stopped, lock, expected, got, boundVars>> /\ WorkerOnly
    BY <1>1 DEF Swap, Step, libraryVars
  <2>4. ClientTyped'
    BY <1>0, <1>1, WorkTypes DEF Swap, ClientTyped
  <2>5. batch' \in [Workers -> Work]
    BY <1>0, <2>1, <2>2 DEF SyncTyped
  <2>6. SyncTyped'
    BY <1>0, <2>3, <2>5, LockTyped DEF SyncTyped, Stages
  <2>7. /\ stage'[c] = "waiting"
        /\ \A v \in Workers : v # c => stage'[v] = stage[v] /\ batch'[v] = batch[v]
    BY <1>0, <2>1, <2>3 DEF SyncTyped
  <2>8. BoundTyped' /\ stored' \in [Leagues -> Content]
    BY <1>0, <2>3, GroupsKept DEF LibraryTyped
  <2>9. \A l \in Leagues : got'[c][l] = Unread
    BY <1>0, <2>3, NothingYet
  <2> QED BY <1>0, <2>3, <2>4, <2>6, <2>7, <2>8, <2>9, SyncSound
<1>2. ASSUME NEW s \in Stages, s \notin {"waiting", "fetching"}, stage' = [stage EXCEPT ![c] = s],
             stage[c] \in {"rest", "failed"},
             UNCHANGED <<connection, version, log, stored, lock, batch, expected, got>>,
             WorkerOnly, ClientTyped', BoundTyped'
      PROVE  Sound'
  <2>1. SyncTyped'
    BY <1>0, <1>2, LockTyped DEF SyncTyped
  <2>2. /\ stage'[c] = s /\ \A v \in Workers : v # c => stage'[v] = stage[v]
        /\ stored' \in [Leagues -> Content]
    BY <1>0, <1>2 DEF SyncTyped, LibraryTyped
  <2>3. batch'[c] = NoWork
    BY <1>0, <1>2 DEF Sound, Carried
  <2>4. \A l \in Leagues : got'[c][l] = Unread
    BY <1>0, <1>2, NothingYet
  <2> QED BY <1>0, <1>2, <2>1, <2>2, <2>3, <2>4, SyncSound
<1>3. CASE Retry(c)
  <2>1. ClientTyped'
    BY <1>0, <1>3, EnqueueEffect, WorkTypes DEF Retry
  <2>2. BoundTyped'
    BY <1>0, <1>3, GroupsKept DEF Retry
  <2> QED BY <1>2, <1>3, <2>1, <2>2 DEF Retry, Step, libraryVars, Stages
<1>4. CASE WorkerEnds(c)
  <2>1. ClientTyped' /\ BoundTyped'
    BY <1>0, <1>4, GroupsKept DEF WorkerEnds
  <2> QED BY <1>2, <1>4, <2>1 DEF WorkerEnds, Step, libraryVars, Stages
<1>5. CASE WorkerDies(c)
  <2>1. ClientTyped'
    BY <1>0, <1>5, GroupsKept DEF WorkerDies
  <2>2. BoundTyped'
    BY <1>0, <1>5, StreamAssumption DEF WorkerDies, Fault, BoundTyped
  <2> QED BY <1>2, <1>5, <2>1, <2>2 DEF WorkerDies, Step, libraryVars, Stages
<1> QED BY <1>1, <1>3, <1>4, <1>5 DEF Worker

LEMMA JobBatch ==
  ASSUME Sound, JobBegins
  PROVE  Sound'
<1>0. Job \in Workers /\ Job \notin Clients /\ ClientTyped /\ SyncTyped /\ BoundTyped /\ LibraryTyped
  BY Groups, Names DEF Sound
<1>1. PICK work \in {FullRepair} \cup {[full |-> FALSE, ids |-> {[league |-> l, form |-> "league"]}] : l \in Leagues} :
        batch' = [batch EXCEPT ![Job] = work]
  BY DEF JobBegins
<1>2. work \in Work
  <2>1. CASE work = FullRepair
    BY <2>1, WorkTypes
  <2>2. CASE \E l \in Leagues : work = [full |-> FALSE, ids |-> {[league |-> l, form |-> "league"]}]
    BY <2>2 DEF Work
  <2> QED BY <1>1, <2>1, <2>2
<1>3. /\ stage[Job] = "rest" /\ stage' = [stage EXCEPT ![Job] = "waiting"] /\ jobs < MaxJobs
      /\ jobs' = jobs + 1 /\ faults' = faults
      /\ UNCHANGED <<connection, version, log, stored, clientVars, lock, expected, got>> /\ WorkerOnly
  BY DEF JobBegins, Step, libraryVars
<1>4. ClientTyped' /\ stored' \in [Leagues -> Content]
  BY <1>0, <1>3, GroupsKept DEF LibraryTyped
<1>5. BoundTyped'
  BY <1>0, <1>3, StreamAssumption DEF BoundTyped
<1>6. batch' \in [Workers -> Work]
  BY <1>0, <1>1, <1>2 DEF SyncTyped
<1>7. SyncTyped'
  BY <1>0, <1>3, <1>6, LockTyped DEF SyncTyped, Stages
<1>8. /\ stage'[Job] = "waiting"
      /\ \A v \in Workers : v # Job => stage'[v] = stage[v] /\ batch'[v] = batch[v]
  BY <1>0, <1>1, <1>3 DEF SyncTyped
<1>9. \A l \in Leagues : got'[Job][l] = Unread
  BY <1>0, <1>3, NothingYet
<1> QED BY <1>0, <1>3, <1>4, <1>5, <1>7, <1>8, <1>9, SyncSound

LEMMA LockStep ==
  ASSUME Sound, NEW w \in Workers, TakeLock(w)
  PROVE  Sound'
<1>0. ClientTyped /\ SyncTyped /\ BoundTyped /\ LibraryTyped
  BY Groups DEF Sound
<1>1. /\ stage[w] = "waiting" /\ lock = Free /\ lock' = w /\ stage' = [stage EXCEPT ![w] = "fetching"]
      /\ expected' = [expected EXCEPT ![w] = connection]
      /\ w \in Clients => connection = identity[w]
      /\ UNCHANGED <<connection, version, log, stored, batch, got, clientVars, boundVars>> /\ WorkerOnly
  BY DEF TakeLock, LockIsFree, Step, SyncOnly, libraryVars
<1>2. ClientTyped' /\ BoundTyped' /\ stored' \in [Leagues -> Content]
  BY <1>0, <1>1, GroupsKept DEF LibraryTyped
<1>3. expected' \in [Workers -> Connections]
  BY <1>0, <1>1 DEF SyncTyped, LibraryTyped
<1>4. SyncTyped'
  BY <1>0, <1>1, <1>3, LockTyped DEF SyncTyped, Stages
<1>5. /\ stage'[w] = "fetching" /\ expected'[w] = connection
      /\ \A v \in Workers : v # w => stage'[v] = stage[v] /\ expected'[v] = expected[v]
  BY <1>0, <1>1 DEF SyncTyped
<1>6. \A l \in Leagues : got'[w][l] = Unread
  BY <1>0, <1>1, NothingYet
<1> QED BY <1>0, <1>1, <1>2, <1>4, <1>5, <1>6, SyncSound

LEMMA FetchStep ==
  ASSUME Sound, NEW w \in Workers, NEW l \in Leagues, Fetch(w, l)
  PROVE  Sound'
<1> DEFINE page == [connection |-> expected[w], version |-> version[l]]
<1>0. ClientTyped /\ SyncTyped /\ BoundTyped /\ LibraryTyped
  BY Groups DEF Sound
<1>1. /\ stage[w] = "fetching" /\ got' = [got EXCEPT ![w][l] = page]
      /\ UNCHANGED <<connection, version, log, stored, lock, stage, batch, expected, clientVars, boundVars>>
      /\ WorkerOnly
  BY DEF Fetch, SyncOnly, libraryVars
<1>2. ClientTyped' /\ BoundTyped' /\ stored' \in [Leagues -> Content]
  BY <1>0, <1>1, GroupsKept DEF LibraryTyped
<1>3. page \in Content /\ page.connection = expected[w] /\ page.version = version[l]
  BY <1>0 DEF SyncTyped, LibraryTyped, Content
<1> HIDE DEF page
<1>4. got' \in [Workers -> [Leagues -> Content \cup {Unread}]]
  BY <1>0, <1>1, <1>3 DEF SyncTyped
<1>5. SyncTyped'
  BY <1>0, <1>1, <1>4 DEF SyncTyped
<1>6. /\ \A v \in Workers : v # w => got'[v] = got[v]
      /\ got'[w][l] = page
      /\ \A m \in Leagues : m # l => got'[w][m] = got[w][m]
  BY <1>0, <1>1 DEF SyncTyped
<1>7. ASSUME NEW m \in Leagues, got'[w][m] # Unread
      PROVE  /\ got'[w][m].connection = expected[w]
             /\ stored[m].version <= got'[w][m].version /\ got'[w][m].version <= version[m]
  <2>1. CASE m = l
    <3>1. stored[l].version <= version[l] /\ version[l] \in Nat
      BY <1>0, StreamAssumption DEF Sound, Bounds, LibraryTyped, Versions
    <3> QED BY <2>1, <3>1, <1>3, <1>6
  <2>2. CASE m # l
    BY <2>2, <1>6, <1>7 DEF Sound, Carried
  <2> QED BY <2>1, <2>2
<1>8. w \in Clients => expected'[w] = identity[w]
  BY <1>1 DEF Sound, Carried
<1> QED BY <1>0, <1>1, <1>2, <1>5, <1>6, <1>7, <1>8, SyncSound

LEMMA GivesStep ==
  ASSUME Sound, NEW w \in Workers, SyncRefused(w) \/ SyncFails(w)
  PROVE  Sound'
<1>0. ClientTyped /\ SyncTyped /\ BoundTyped /\ LibraryTyped
  BY Groups DEF Sound
<1>1. /\ stage[w] \in {"waiting", "fetching"} /\ stage' = [stage EXCEPT ![w] = SyncEnds(w)]
      /\ lock' = Released(w) /\ got' = [got EXCEPT ![w] = NothingRead]
      /\ batch' = [batch EXCEPT ![w] = NoWork] /\ expected' = [expected EXCEPT ![w] = 0]
      /\ UNCHANGED <<connection, version, log, stored, clientVars>> /\ WorkerOnly
  BY DEF SyncRefused, SyncFails, Gives, Step, libraryVars
<1>2. ClientTyped' /\ stored' \in [Leagues -> Content]
  BY <1>0, <1>1, GroupsKept DEF LibraryTyped
<1>3. BoundTyped'
  <2>1. UNCHANGED boundVars \/ Fault
    BY DEF SyncRefused, SyncFails
  <2> QED BY <2>1, <1>0, StreamAssumption DEF Fault, BoundTyped, boundVars
<1>4. NothingRead \in [Leagues -> Content \cup {Unread}] /\ 0 \in Connections /\ SyncEnds(w) \in {"rest", "failed"}
  BY StreamAssumption DEF NothingRead, Connections, SyncEnds
<1>5. /\ got' \in [Workers -> [Leagues -> Content \cup {Unread}]]
      /\ batch' \in [Workers -> Work] /\ expected' \in [Workers -> Connections]
  BY <1>0, <1>1, <1>4, WorkTypes DEF SyncTyped
<1>6. SyncTyped'
  BY <1>0, <1>1, <1>4, <1>5, LockTyped DEF Stages
<1>7. /\ stage'[w] \in {"rest", "failed"} /\ batch'[w] = NoWork
      /\ \A l \in Leagues : got'[w][l] = Unread
      /\ \A v \in Workers : v # w => /\ stage'[v] = stage[v] /\ batch'[v] = batch[v]
                                     /\ expected'[v] = expected[v] /\ got'[v] = got[v]
  BY <1>0, <1>1, <1>4 DEF SyncTyped, NothingRead
<1> QED BY <1>0, <1>1, <1>2, <1>3, <1>6, <1>7, SyncSound

(* What applying does: the leagues that were read are stored, the others are     *)
(* still owed.                                                                   *)
LEMMA ApplyEffect ==
  ASSUME Sound, NEW w \in Workers, Apply(w)
  PROVE  /\ stage[w] = "fetching" /\ lock = w /\ lock' = Free /\ connection = expected[w]
         /\ UNCHANGED <<connection, version, log, clientVars, boundVars>> /\ WorkerOnly
         /\ \A l \in Leagues : stored'[l] = IF got[w][l] # Unread THEN got[w][l] ELSE stored[l]
         /\ stored' \in [Leagues -> Content]
         /\ \A l \in Leagues : got'[w][l] = Unread
         /\ \A v \in Workers : v # w => /\ stage'[v] = stage[v] /\ batch'[v] = batch[v]
                                        /\ expected'[v] = expected[v] /\ got'[v] = got[v]
         /\ SyncTyped'
         /\ \/ stage'[w] = "rest" /\ batch'[w] = NoWork
               /\ (batch[w].full \/ \A id \in batch[w].ids : got[w][id.league] # Unread)
            \/ stage'[w] = "waiting"
               /\ \A id \in batch[w].ids : got[w][id.league] = Unread => id \in batch'[w].ids
         /\ AllFetched(w)
<1> DEFINE left == {id \in batch[w].ids : id.league \notin Fetched(w)}
           over == batch[w].full \/ left = {}
<1>0. SyncTyped /\ LibraryTyped
  BY Groups DEF Sound
<1>1. /\ stage[w] = "fetching" /\ AllFetched(w) /\ connection = expected[w]
      /\ stored' = [l \in Leagues |-> IF l \in Fetched(w) THEN got[w][l] ELSE stored[l]]
      /\ got' = [got EXCEPT ![w] = NothingRead] /\ lock' = Free
      /\ expected' = [expected EXCEPT ![w] = 0]
      /\ batch' = [batch EXCEPT ![w] = IF over THEN NoWork ELSE [batch[w] EXCEPT !.ids = left]]
      /\ stage' = [stage EXCEPT ![w] = IF over THEN "rest" ELSE "waiting"]
      /\ UNCHANGED <<connection, version, log, clientVars, boundVars>> /\ WorkerOnly
  BY DEF Apply, Revalidated, Step, SyncOnly
<1>2. batch[w] \in Work /\ batch[w].ids \in SUBSET [league : Leagues, form : {"league", "event"}]
  BY <1>0 DEF SyncTyped, Work
<1>3. \A l \in Leagues : l \in Fetched(w) <=> got[w][l] # Unread
  BY DEF Fetched
<1>4. \A id \in batch[w].ids : id.league \in Leagues /\ (id \in left <=> got[w][id.league] = Unread)
  BY <1>2, <1>3
<1>5. [batch[w] EXCEPT !.ids = left] \in Work /\ [batch[w] EXCEPT !.ids = left].ids = left
  BY <1>2 DEF Work
<1> HIDE DEF left
<1>6. \A l \in Leagues : stored'[l] = IF got[w][l] # Unread THEN got[w][l] ELSE stored[l]
  BY <1>1, <1>3
<1>7. stored' \in [Leagues -> Content]
  <2>1. \A l \in Leagues : got[w][l] # Unread => got[w][l] \in Content
    BY <1>0 DEF SyncTyped
  <2>2. \A l \in Leagues : stored[l] \in Content
    BY <1>0 DEF LibraryTyped
  <2> QED BY <1>1, <1>3, <2>1, <2>2
<1>8. NothingRead \in [Leagues -> Content \cup {Unread}] /\ 0 \in Connections
  BY StreamAssumption DEF NothingRead, Connections
<1>9. lock = w
  BY <1>0, <1>1 DEF SyncTyped
<1>10. SyncTyped'
  <2>1. batch' \in [Workers -> Work] /\ expected' \in [Workers -> Connections]
    BY <1>0, <1>1, <1>5, <1>8, WorkTypes DEF SyncTyped
  <2>2. got' \in [Workers -> [Leagues -> Content \cup {Unread}]]
    BY <1>0, <1>1, <1>8 DEF SyncTyped
  <2>3. lock' = Released(w)
    BY <1>1, <1>9 DEF Released
  <2> QED BY <1>0, <1>1, <2>1, <2>2, <2>3, LockTyped DEF Stages
<1>11. /\ \A l \in Leagues : got'[w][l] = Unread
       /\ \A v \in Workers : v # w => /\ stage'[v] = stage[v] /\ batch'[v] = batch[v]
                                      /\ expected'[v] = expected[v] /\ got'[v] = got[v]
  BY <1>0, <1>1 DEF SyncTyped, NothingRead
<1>12. CASE over
  <2>1. stage'[w] = "rest" /\ batch'[w] = NoWork
    BY <1>0, <1>1, <1>12 DEF SyncTyped
  <2>2. batch[w].full \/ \A id \in batch[w].ids : got[w][id.league] # Unread
    BY <1>4, <1>12
  <2> QED BY <2>1, <2>2, <1>1, <1>6, <1>7, <1>9, <1>10, <1>11
<1>13. CASE ~over
  <2>1. stage'[w] = "waiting" /\ batch'[w] = [batch[w] EXCEPT !.ids = left]
    BY <1>0, <1>1, <1>13 DEF SyncTyped
  <2>2. \A id \in batch[w].ids : got[w][id.league] = Unread => id \in batch'[w].ids
    BY <1>4, <1>5, <2>1
  <2> QED BY <2>1, <2>2, <1>1, <1>6, <1>7, <1>9, <1>10, <1>11
<1> QED BY <1>12, <1>13

LEMMA ApplyStep ==
  ASSUME Sound, NEW w \in Workers, Apply(w)
  PROVE  Sound'
<1>1. ClientTyped' /\ BoundTyped'
  BY ApplyEffect, Groups, GroupsKept DEF Sound
<1>2. \A l \in Leagues : stored'[l] # stored[l] => stored'[l].version <= version[l]
  BY ApplyEffect DEF Sound, Carried
<1> QED BY <1>1, <1>2, ApplyEffect, SyncSound

-----------------------------------------------------------------------------
(* The manager's refresh, and the world.                                         *)
LEMMA ManagerSound ==
  ASSUME Sound, ManagerOnly, ManagerTyped', ClientTyped', BoundTyped',
         reader' \in [Clients -> Reading \cup {"none", "down", "ended"}], SyncTyped', made <= made',
         \A c \in Clients : /\ c > made' => stage'[c] = "none"
                            /\ identity'[c] <= connection
                            /\ stage'[c] # stage[c] => stage'[c] = "rest" /\ stage[c] = "none"
                            /\ stage'[c] = "fetching" => identity'[c] = identity[c],
         stage'[Job] = stage[Job]
  PROVE  Sound'
<1>1. UNCHANGED <<connection, version, log, stored, at, cursor, lock, batch, expected, got>>
  BY DEF ManagerOnly, libraryVars
<1>2. LibraryTyped' /\ ReaderTyped'
  BY <1>1, Groups DEF Sound, LibraryTyped, ReaderTyped
<1>3. TypeOK'
  BY <1>2, GroupsPrime
<1>4. Bounds'
  BY <1>1 DEF Sound, Bounds
<1>5. Carried'
  <2> SUFFICES ASSUME NEW w \in Workers
               PROVE  /\ stage'[w] \notin {"waiting", "fetching"} => batch[w] = NoWork
                      /\ w \in Clients /\ stage'[w] = "fetching" => expected[w] = identity'[w]
                      /\ \A l \in Leagues : got[w][l] # Unread =>
                           /\ stage'[w] = "fetching" /\ got[w][l].connection = expected[w]
                           /\ stored[l].version <= got[w][l].version /\ got[w][l].version <= version[l]
    BY <1>1 DEF Carried
  <2>1. \/ stage'[w] = stage[w]
        \/ w \in Clients /\ stage'[w] = "rest" /\ stage[w] = "none"
    BY Names
  <2> QED BY <2>1 DEF Sound, Carried
<1> QED BY <1>3, <1>4, <1>5 DEF Sound

LEMMA RefreshStep ==
  ASSUME Sound, Refresh \/ RefreshStartFails
  PROVE  Sound'
<1>0. /\ LibraryTyped /\ ManagerTyped /\ ClientTyped /\ ReaderTyped /\ SyncTyped /\ BoundTyped
      /\ Bounds /\ connection \in Nat /\ made \in Nat
  <2>1. LibraryTyped /\ ManagerTyped /\ ClientTyped /\ ReaderTyped /\ SyncTyped /\ BoundTyped /\ Bounds
    BY Groups DEF Sound
  <2>2. connection \in Nat
    BY <2>1, StreamAssumption DEF LibraryTyped, Connections
  <2>3. made \in Nat
    BY <2>1, Names DEF ManagerTyped
  <2> QED BY <2>1, <2>2, <2>3
<1>1. CASE RefreshStops
  <2>1. current \in Clients
    BY <1>0, <1>1 DEF RefreshStops, ManagerTyped
  <2>2. ClientTyped'
    BY <1>0, <1>1, <2>1, WorkTypes DEF RefreshStops, ClientTyped
  <2>3. /\ UNCHANGED <<current, made, identity, reader, stage, lock, batch, expected, got, boundVars>>
        /\ ManagerOnly
    BY <1>1 DEF RefreshStops, ManagerOnly, managerVars
  <2>4. ManagerTyped' /\ BoundTyped' /\ SyncTyped'
    BY <1>0, <2>3, GroupsKept DEF ManagerTyped, SyncTyped
  <2> QED BY <1>0, <2>2, <2>3, <2>4, ManagerSound DEF Bounds, ReaderTyped
<1>2. CASE RefreshDrops
  <2>1. /\ UNCHANGED <<made, identity, reader, stage, lock, batch, expected, got, clientVars, boundVars>>
        /\ ManagerOnly /\ current' = 0
    BY <1>2 DEF RefreshDrops, ManagerOnly
  <2>2. ManagerTyped' /\ ClientTyped' /\ BoundTyped' /\ SyncTyped'
    BY <1>0, <2>1, GroupsKept DEF ManagerTyped, SyncTyped
  <2> QED BY <1>0, <2>1, <2>2, ManagerSound DEF Bounds, ReaderTyped
<1>3. CASE RefreshStarts
  <2> DEFINE c == made + 1
  <2>1. c \in Clients /\ c \in Workers /\ c > made
    BY <1>0, <1>3, Names DEF RefreshStarts, Clients
  <2>2. /\ made' = c /\ current' = c /\ identity' = [identity EXCEPT ![c] = connection]
        /\ reader' = [reader EXCEPT ![c] = "down"] /\ stage' = [stage EXCEPT ![c] = "rest"]
        /\ UNCHANGED <<lock, batch, expected, got, boundVars>> /\ ManagerOnly
    BY <1>3 DEF RefreshStarts, ManagerOnly
  <2>3. stage[c] = "none" /\ connection \in Connections
    BY <1>0, <2>1 DEF Bounds, LibraryTyped
  <2>4. ClientTyped'
    BY <1>0, <1>3, <2>1, EnqueueEffect, WorkTypes DEF RefreshStarts
  <2>5. ManagerTyped'
    BY <1>0, <2>1, <2>2, <2>3 DEF ManagerTyped
  <2>6. BoundTyped' /\ reader' \in [Clients -> Reading \cup {"none", "down", "ended"}]
    BY <1>0, <2>2, GroupsKept DEF ReaderTyped
  <2>7. SyncTyped'
    BY <1>0, <2>1, <2>2, <2>3, LockTyped DEF SyncTyped, Stages
  <2>8. \A d \in Clients : stage'[d] = IF d = c THEN "rest" ELSE stage[d]
    BY <1>0, <2>2, Names DEF SyncTyped
  <2>9. \A d \in Clients : identity'[d] = IF d = c THEN connection ELSE identity[d]
    BY <1>0, <2>2 DEF ManagerTyped
  <2>10. stage'[Job] = stage[Job]
    BY <1>0, <2>1, <2>2, Names DEF SyncTyped
  <2> HIDE DEF c
  <2>11. \A d \in Clients : d > c => d > made
    BY <1>0, Names DEF c
  <2>12. made <= made'
    BY <1>0, <2>2 DEF c
  <2> QED BY <1>0, <2>2, <2>3, <2>4, <2>5, <2>6, <2>7, <2>8, <2>9, <2>10, <2>11, <2>12, ManagerSound DEF Bounds
<1>4. CASE RefreshStartFails
  <2> DEFINE c == made + 1
  <2>1. c \in Clients
    <3>1. identity \in [Clients -> Connections] /\ connection \in 0..MaxEdits /\ MaxEdits \in Nat
      BY <1>0, StreamAssumption DEF ManagerTyped, LibraryTyped, Connections
    <3>2. MaxClients - made >= MaxEdits - connection + 2
      BY <1>4 DEF RefreshStartFails, Spare
    <3> QED BY <1>0, <3>1, <3>2, Names DEF Clients
  <2>2. /\ made' = c /\ current' = current /\ identity' = [identity EXCEPT ![c] = connection]
        /\ stopped' = [stopped EXCEPT ![c] = TRUE] /\ wake' = [wake EXCEPT ![c] = TRUE]
        /\ reader' = [reader EXCEPT ![c] = "down"]
        /\ UNCHANGED <<pending, stage, lock, batch, expected, got>> /\ ManagerOnly /\ Fault
    BY <1>4 DEF RefreshStartFails, ManagerOnly
  <2>3. connection \in Connections /\ c > made
    BY <1>0 DEF LibraryTyped
  <2>4. ClientTyped' /\ ManagerTyped'
    BY <1>0, <2>1, <2>2, <2>3 DEF ClientTyped, ManagerTyped
  <2>5. reader' \in [Clients -> Reading \cup {"none", "down", "ended"}]
    BY <1>0, <2>2 DEF ReaderTyped
  <2>6. BoundTyped'
    BY <1>0, <2>2, StreamAssumption DEF Fault, BoundTyped
  <2>7. SyncTyped'
    BY <1>0, <2>2 DEF SyncTyped
  <2>8. \A d \in Clients : identity'[d] = IF d = c THEN connection ELSE identity[d]
    BY <1>0, <2>2 DEF ManagerTyped
  <2>9. stage[c] = "none"
    BY <1>0, <2>1, <2>3 DEF Bounds
  <2> HIDE DEF c
  <2>10. \A d \in Clients : d > c => d > made
    BY <1>0, Names DEF c
  <2>11. made <= made'
    BY <1>0, <2>2 DEF c
  <2> QED BY <1>0, <2>2, <2>4, <2>5, <2>6, <2>7, <2>8, <2>9, <2>10, <2>11, ManagerSound DEF Bounds
<1> QED BY <1>1, <1>2, <1>3, <1>4 DEF Refresh

LEMMA WorldStep ==
  ASSUME Sound, EditConnection \/ \E l \in Leagues : Change(l)
  PROVE  Sound'
<1>0. LibraryTyped /\ ManagerTyped /\ ClientTyped /\ ReaderTyped /\ SyncTyped /\ BoundTyped /\ Bounds
  BY Groups DEF Sound
<1>1. /\ UNCHANGED <<stored, managerVars, clientVars, readerVars, syncVars, boundVars>>
      /\ UNCHANGED <<stored, current, made, identity, at, cursor, lock, stage, batch, expected, got>>
  BY DEF EditConnection, Change, managerVars, readerVars, syncVars
<1>2. CASE EditConnection
  <2>1. connection < MaxEdits /\ connection' = connection + 1 /\ UNCHANGED <<version, log>>
    BY <1>2 DEF EditConnection
  <2>2. LibraryTyped'
    BY <1>0, <1>1, <2>1, StreamAssumption DEF LibraryTyped, Connections
  <2>3. TypeOK'
    BY <1>0, <1>1, <2>2, GroupsKept, GroupsPrime
  <2>4. \A c \in Clients : identity[c] \in Nat /\ connection \in Nat
    BY <1>0, StreamAssumption DEF ManagerTyped, LibraryTyped, Connections
  <2>5. Bounds'
    BY <1>0, <1>1, <2>1, <2>4 DEF Bounds
  <2>6. Carried'
    BY <1>1, <2>1 DEF Sound, Carried
  <2> QED BY <2>3, <2>5, <2>6 DEF Sound
<1>3. ASSUME NEW l \in Leagues, Change(l) PROVE Sound'
  <2>1. PICK form \in Forms : log' = Append(log, [league |-> l, form |-> form])
    BY <1>3 DEF Change
  <2>2. /\ Len(log) < MaxChanges /\ version' = [version EXCEPT ![l] = version[l] + 1]
        /\ connection' = connection /\ log \in Seq(Events)
    BY <1>0, <1>3 DEF Change, LibraryTyped
  <2>3. [league |-> l, form |-> form] \in Events
    BY DEF Events
  <2>4. log' \in Seq(Events) /\ Len(log') = Len(log) + 1 /\ Len(log) \in Nat
    BY <2>1, <2>2, <2>3
  <2>5. /\ \A m \in Leagues : version[m] \in Nat /\ stored[m].version \in Nat /\ version[m] <= Len(log)
        /\ \A m \in Leagues : version'[m] = IF m = l THEN version[m] + 1 ELSE version[m]
    BY <1>0, <2>2, StreamAssumption DEF LibraryTyped, Versions, Content, Bounds
  <2>6. version' \in [Leagues -> Versions]
    BY <1>0, <2>2, <2>4, <2>5, StreamAssumption DEF LibraryTyped, Versions
  <2>7. LibraryTyped'
    BY <1>0, <1>1, <2>2, <2>4, <2>6, StreamAssumption DEF LibraryTyped
  <2>8. TypeOK'
    BY <1>0, <1>1, <2>7, GroupsKept, GroupsPrime
  <2>9. \A m \in Leagues : version[m] <= version'[m] /\ version'[m] <= Len(log')
    BY <2>4, <2>5
  <2>10. \A c \in Clients : at[c] \in Nat /\ cursor[c] \in Nat
    BY <1>0, StreamAssumption DEF ReaderTyped
  <2>11. Bounds'
    BY <1>0, <1>1, <2>2, <2>4, <2>5, <2>9, <2>10 DEF Bounds
  <2>12. \A w \in Workers, m \in Leagues : got[w][m] # Unread =>
           got[w][m].version \in Nat /\ got[w][m].version <= version[m]
    BY <1>0, StreamAssumption DEF SyncTyped, Content, Versions, Sound, Carried
  <2>13. \A w \in Workers, m \in Leagues : got[w][m] # Unread => got[w][m].version <= version'[m]
    BY <2>5, <2>9, <2>12
  <2>14. Carried'
    BY <1>1, <2>13 DEF Sound, Carried
  <2> QED BY <2>8, <2>11, <2>14 DEF Sound
<1> QED BY <1>2, <1>3

-----------------------------------------------------------------------------
LEMMA SoundStep == Sound /\ [Next]_vars => Sound'
<1> SUFFICES ASSUME Sound, [Next]_vars PROVE Sound'
  OBVIOUS
<1>1. ASSUME NEW w \in Workers, Sync(w) \/ SyncFails(w) PROVE Sound'
  BY <1>1, LockStep, FetchStep, ApplyStep, GivesStep DEF Sync
<1>2. CASE UNCHANGED vars
  <2>1. TypeOK'
    BY <1>2, Groups, GroupsPrime, GroupsKept DEF Sound, vars
  <2>2. Bounds' /\ Carried'
    BY <1>2 DEF Sound, Bounds, Carried, vars, libraryVars, managerVars, readerVars, syncVars
  <2> QED BY <2>1, <2>2 DEF Sound
<1> QED BY <1>1, <1>2, ReaderStep, ClientBatch, JobBatch, RefreshStep, WorldStep DEF Next

LEMMA SoundInit == Init => Sound
<1> SUFFICES ASSUME Init PROVE Sound
  OBVIOUS
<1>1. \A w \in Workers : stage[w] \in {"rest", "none"} /\ (w \in Clients => stage[w] = "none")
  BY Names DEF Init
<1>2. LibraryTyped
  BY StreamAssumption DEF Init, LibraryTyped, Connections, Versions, Content
<1>3. ManagerTyped /\ ClientTyped /\ ReaderTyped /\ BoundTyped
  BY StreamAssumption, WorkTypes
  DEF Init, ManagerTyped, ClientTyped, ReaderTyped, BoundTyped, Connections
<1>4. SyncTyped
  <2>1. NothingRead \in [Leagues -> Content \cup {Unread}] /\ 0 \in Connections
    BY StreamAssumption DEF NothingRead, Connections
  <2>2. \A w \in Workers : stage[w] # "fetching" /\ lock # w
    BY <1>1, Names DEF Init
  <2>3. stage \in [Workers -> Stages]
    BY DEF Init, Stages
  <2> QED BY <2>1, <2>2, <2>3, WorkTypes DEF Init, SyncTyped
<1>5. Bounds
  BY <1>1, Names, StreamAssumption DEF Init, Bounds
<1>6. Carried
  BY <1>1 DEF Init, Carried, NothingRead
<1> QED BY <1>2, <1>3, <1>4, <1>5, <1>6, Groups DEF Sound

LEMMA SoundAlways == Spec => []Sound
  BY SoundInit, SoundStep, PTL DEF Spec

(* Every reachable state has the declared shape, and the owner's lock is held    *)
(* exactly by the sync that is fetching (owner_sync_lock).                       *)
THEOREM Typing == Spec => []TypeOK
<1>1. Sound => TypeOK
  BY DEF Sound
<1> QED BY <1>1, SoundAlways, PTL

-----------------------------------------------------------------------------
LEMMA NeverBackStep ==
  ASSUME Sound, [Next]_vars, NEW l \in Leagues, stored'[l] # stored[l]
  PROVE  /\ stored'[l].connection = connection /\ connection' = connection
         /\ stored[l].connection = connection => stored'[l].version > stored[l].version
<1>1. PICK w \in Workers : Apply(w)
  <2>1. \A w \in Workers : (Sync(w) \/ SyncFails(w)) /\ ~Apply(w) => stored' = stored
    BY DEF Sync, SyncFails, SyncRefused, Gives, TakeLock, Fetch, libraryVars
  <2>2. \A c \in Clients : Reader(c) \/ Resync(c) \/ StreamBreaks(c) => stored' = stored
    BY DEF Reader, Subscribe, Opened, Deliver, Resync, StreamBreaks, ReaderEnds, ReaderOnly, libraryVars
  <2>3. \A c \in Clients : Worker(c) \/ WorkerDies(c) => stored' = stored
    BY DEF Worker, Swap, Retry, WorkerEnds, WorkerDies, libraryVars
  <2>4. JobBegins \/ Refresh \/ RefreshStartFails => stored' = stored
    BY DEF JobBegins, Refresh, RefreshStops, RefreshDrops, RefreshStarts, RefreshStartFails, ManagerOnly, libraryVars
  <2>5. EditConnection \/ (\E m \in Leagues : Change(m)) \/ UNCHANGED vars => stored' = stored
    BY DEF EditConnection, Change, vars, libraryVars
  <2> QED BY <2>1, <2>2, <2>3, <2>4, <2>5 DEF Next
<1>2. got[w][l] # Unread /\ stored'[l] = got[w][l] /\ connection' = connection /\ connection = expected[w]
  BY <1>1, ApplyEffect
<1>3. stored'[l].connection = connection /\ stored[l].version <= stored'[l].version
  BY <1>2 DEF Sound, Carried
<1>4. stored[l] \in Content /\ stored'[l] \in Content
  BY <1>1, ApplyEffect DEF Sound, TypeOK
<1>5. stored[l].connection = connection => stored'[l].version # stored[l].version
  BY <1>3, <1>4 DEF Content
<1> QED BY <1>2, <1>3, <1>4, <1>5, StreamAssumption DEF Content, Versions

(* The library of a league never goes back, however many clients and jobs         *)
(* synchronise it: what replaces it is of the present connection and newer        *)
(* (revalidate, owner_sync_lock).                                                 *)
THEOREM NothingOldIsStored == Spec => LibraryNeverGoesBack
<1>1. Sound /\ [Next]_vars =>
        [\A l \in Leagues : stored'[l] # stored[l] =>
           /\ stored'[l].connection = connection
           /\ stored[l].connection = connection => stored'[l].version > stored[l].version]_vars
  BY NeverBackStep
<1> QED BY <1>1, SoundAlways, PTL DEF Spec, LibraryNeverGoesBack

-----------------------------------------------------------------------------
(* NothingForgotten, for one client and one league.                              *)
Live(c) == c = current /\ ~stopped[c] /\ IsAlive(c) /\ identity[c] = connection
Owed(c, l) ==
  \/ reader[c] # "open" \/ stage[c] = "failed"
  \/ OnStream(c, l) \/ IsPending(c, l) \/ InBatch(c, l)

LEMMA OwedAlways ==
  NothingForgotten <=> \A c \in Clients, l \in Leagues : Live(c) /\ stored[l] # Upstream(l) => Owed(c, l)
  BY DEF NothingForgotten, Live, Owed

(* What is owed stays owed while the client's sync and the league are as they    *)
(* were, and its pending batch only grows.                                       *)
LEMMA OwedKept ==
  ASSUME NEW c \in Clients, NEW l \in Leagues, Owed(c, l),
         reader'[c] = reader[c], at'[c] = at[c], log' = log,
         stage'[c] = stage[c], batch'[c] = batch[c], got'[c] = got[c],
         IsPending(c, l) => IsPending(c, l)', Upstream(l)' = Upstream(l)
  PROVE  Owed(c, l)'
<1>1. OnStream(c, l) => OnStream(c, l)'
  BY DEF OnStream
<1>2. Part(c)' = Part(c)
  BY DEF Part, Named
<1>3. InBatch(c, l) => InBatch(c, l)'
  BY <1>2 DEF InBatch
<1> QED BY <1>1, <1>3 DEF Owed

LEMMA PendingKept ==
  ASSUME NEW c, NEW l, pending'[c] = pending[c], wake'[c] = wake[c]
  PROVE  IsPending(c, l)' <=> IsPending(c, l)
  BY DEF IsPending, Named

LEMMA OwedByReader ==
  ASSUME Sound, NothingForgotten, NEW d \in Clients, Reader(d) \/ Resync(d) \/ StreamBreaks(d),
         NEW c \in Clients, NEW l \in Leagues, Live(c)', stored'[l] # Upstream(l)'
  PROVE  Owed(c, l)'
<1>0. /\ ReaderOnly /\ LibraryTyped /\ ClientTyped /\ ReaderTyped
      /\ Len(log) \in Nat /\ log \in Seq(Events)
  BY ReaderStep, Groups DEF Sound, LibraryTyped
<1>1. /\ UNCHANGED <<connection, version, log, stored, current, identity, stage, batch, got>>
      /\ Upstream(l)' = Upstream(l) /\ AliveWorker(c)' = AliveWorker(c)
  BY <1>0 DEF ReaderOnly, libraryVars, managerVars, syncVars, Upstream, AliveWorker
<1>2. stopped' = stopped /\ (IsPending(c, l) => IsPending(c, l)')
  <2>1. CASE Opened(d) \/ Resync(d)
    BY <1>0, <2>1, EnqueueEffect, WorkTypes DEF Opened, Resync
  <2>2. CASE Deliver(d)
    <3>1. log[at[d] + 1] \in Events
      BY <1>0, <2>2, StreamAssumption DEF Deliver, ReaderTyped
    <3> QED BY <1>0, <2>2, <3>1, EnqueueEffect, WorkTypes DEF Deliver
  <2>3. CASE Subscribe(d) \/ StreamBreaks(d) \/ ReaderEnds(d)
    <3>1. UNCHANGED clientVars
      BY <2>3 DEF Subscribe, StreamBreaks, ReaderEnds
    <3> QED BY <3>1, PendingKept DEF clientVars
  <2> QED BY <2>1, <2>2, <2>3 DEF Reader
<1>3. CASE c # d
  <2>1. reader'[c] = reader[c] /\ at'[c] = at[c]
    BY <1>0, <1>3 DEF Reader, Subscribe, Opened, Deliver, Resync, StreamBreaks, ReaderEnds, ReaderTyped
  <2>2. Live(c)
    BY <1>1, <1>2, <2>1 DEF Live, IsAlive, AliveReader, AliveWorker
  <2> QED BY <1>1, <1>2, <2>1, <2>2, OwedKept, OwedAlways
<1>4. CASE c = d
  <2>1. CASE Subscribe(d) \/ StreamBreaks(d)
    BY <1>0, <1>4, <2>1 DEF Subscribe, StreamBreaks, ReaderTyped, Owed
  <2>2. CASE ReaderEnds(d)
    BY <1>2, <1>4, <2>2 DEF ReaderEnds, Live
  <2>3. ~stopped[c]
    BY <1>2 DEF Live
  <2>4. CASE Opened(d) \/ Resync(d)
    <3>1. IsPending(c, l)'
      BY <1>0, <1>4, <2>3, <2>4, EnqueueEffect, WorkTypes DEF Opened, Resync
    <3> QED BY <3>1 DEF Owed
  <2>5. CASE Deliver(d)
    <3>1. /\ reader[c] = "open" /\ reader' = reader /\ at' = [at EXCEPT ![c] = at[c] + 1] /\ at[c] < Len(log)
      BY <1>4, <2>5 DEF Deliver
    <3>2. Live(c)
      BY <1>1, <1>2, <3>1 DEF Live, IsAlive, AliveReader, AliveWorker
    <3>3. Owed(c, l) /\ at[c] \in Nat /\ at'[c] = at[c] + 1
      BY <1>0, <1>1, <3>1, <3>2, OwedAlways, StreamAssumption DEF ReaderTyped
    <3>4. Part(c)' = Part(c)
      BY <1>1 DEF Part, Named
    <3>5. CASE OnStream(c, l)
      <4>1. PICK i \in (at[c] + 1)..Len(log) : log[i].league = l
        BY <3>5 DEF OnStream
      <4>2. CASE i = at[c] + 1
        <5> DEFINE e == log[at[c] + 1]
        <5>1. e \in Events /\ e.league = l
          BY <1>0, <3>1, <3>3, <4>1, <4>2
        <5>2. WorkOf(e).full = TRUE \/ l \in Named(WorkOf(e))
          <6>1. CASE e.form = "other"
            BY <6>1, WorkTypes DEF WorkOf
          <6>2. CASE e.form # "other"
            BY <5>1, <6>2 DEF WorkOf, Named
          <6> QED BY <6>1, <6>2
        <5>3. WorkOf(e) \in Work /\ FullRepair \in Work /\ FullRepair.full = TRUE
          BY <5>1, WorkTypes
        <5>4. Enqueue(c, FullRepair) \/ Enqueue(c, WorkOf(e))
          BY <1>4, <2>5 DEF Deliver
        <5>5. IsPending(c, l)'
          BY <1>0, <2>3, <5>2, <5>3, <5>4, EnqueueEffect
        <5> QED BY <5>5 DEF Owed
      <4>3. CASE i # at[c] + 1
        <5>1. i \in (at'[c] + 1)..Len(log')
          BY <1>0, <1>1, <3>3, <4>1, <4>3
        <5>2. OnStream(c, l)'
          BY <1>1, <4>1, <5>1 DEF OnStream
        <5> QED BY <5>2 DEF Owed
      <4> QED BY <4>2, <4>3
    <3>6. CASE InBatch(c, l)
      BY <1>1, <3>4, <3>6 DEF InBatch, Owed
    <3> QED BY <1>1, <1>2, <3>1, <3>3, <3>5, <3>6 DEF Owed
  <2> QED BY <2>1, <2>2, <2>4, <2>5 DEF Reader
<1> QED BY <1>3, <1>4

(* Steps of threads that leave the library as it is: only the client's own       *)
(* threads touch what it owes.                                                   *)
LEMMA OwedByBatch ==
  ASSUME Sound, NothingForgotten, NEW d \in Clients, Worker(d) \/ WorkerDies(d),
         NEW c \in Clients, NEW l \in Leagues, Live(c)', stored'[l] # Upstream(l)'
  PROVE  Owed(c, l)'
<1>0. /\ LibraryTyped /\ ClientTyped /\ SyncTyped /\ WorkerOnly /\ c \in Workers /\ d \in Workers
      /\ UNCHANGED <<connection, version, log, stored, current, identity, reader, at, got>>
  BY Groups, Names
  DEF Sound, Worker, Swap, Retry, WorkerEnds, WorkerDies, WorkerOnly, libraryVars, managerVars, readerVars
<1>1. Upstream(l)' = Upstream(l) /\ AliveReader(c)' = AliveReader(c)
  BY <1>0 DEF Upstream, AliveReader
<1>2. CASE c # d
  <2>1. stage'[c] = stage[c] /\ batch'[c] = batch[c]
    BY <1>0, <1>2 DEF Worker, Swap, Retry, WorkerEnds, WorkerDies, Step, SyncTyped
  <2>2. stopped' = stopped /\ (IsPending(c, l) => IsPending(c, l)')
    <3>1. CASE Swap(d)
      BY <1>0, <1>2, <3>1, PendingKept DEF Swap, ClientTyped
    <3>2. CASE Retry(d)
      BY <1>0, <3>2, EnqueueEffect, WorkTypes DEF Retry
    <3>3. CASE WorkerEnds(d) \/ WorkerDies(d)
      BY <3>3, PendingKept DEF WorkerEnds, WorkerDies, clientVars
    <3> QED BY <3>1, <3>2, <3>3 DEF Worker
  <2>3. Live(c)
    BY <1>0, <2>1, <2>2 DEF Live, IsAlive, AliveReader, AliveWorker
  <2> QED BY <1>0, <1>1, <2>1, <2>2, <2>3, OwedKept, OwedAlways
<1>3. CASE c = d
  <2>1. CASE WorkerEnds(d) \/ WorkerDies(d)
    BY <1>0, <1>3, <2>1 DEF WorkerEnds, WorkerDies, Step, SyncTyped, Live, IsAlive, AliveWorker
  <2>2. CASE Retry(d)
    <3>1. IsPending(c, l)'
      BY <1>0, <1>3, <2>2, EnqueueEffect, WorkTypes DEF Retry
    <3> QED BY <3>1 DEF Owed
  <2>3. CASE Swap(d)
    <3>1. PICK work \in Resolved(pending[c]) : batch' = [batch EXCEPT ![c] = work]
      BY <1>3, <2>3 DEF Swap
    <3>2. /\ stage[c] = "rest" /\ stage'[c] = "waiting" /\ batch'[c] = work /\ stopped' = stopped
      BY <1>0, <1>3, <2>3, <3>1 DEF Swap, Step, SyncTyped
    <3>3. Live(c)
      BY <1>0, <3>2 DEF Live, IsAlive, AliveReader, AliveWorker
    <3>4. Owed(c, l)
      BY <1>0, <1>1, <3>3, OwedAlways
    <3>5. ~InBatch(c, l)
      <4>1. batch[c] = NoWork
        BY <1>0, <3>2 DEF Sound, Carried
      <4> QED BY <4>1, WorkTypes DEF InBatch, Part, Named
    <3>6. CASE IsPending(c, l)
      <4>1. pending[c].full = TRUE \/ l \in Named(pending[c])
        BY <3>6 DEF IsPending
      <4>2. pending[c] \in Work /\ pending[c].full \in BOOLEAN
        BY <1>0 DEF ClientTyped, Work
      <4>3. PICK full \in {pending[c].full, TRUE} : work = [pending[c] EXCEPT !.full = full]
        BY <3>1 DEF Resolved
      <4>4. work.full = full /\ work.ids = pending[c].ids
        BY <4>2, <4>3 DEF Work
      <4>5. work.full = TRUE \/ l \in Named(work)
        BY <4>1, <4>2, <4>3, <4>4 DEF Named
      <4>6. l \in Part(c)'
        BY <3>2, <4>5 DEF Part, Named
      <4> QED BY <3>2, <4>6 DEF InBatch, Owed
    <3>7. OnStream(c, l) => OnStream(c, l)'
      BY <1>0 DEF OnStream
    <3> QED BY <1>0, <3>2, <3>4, <3>5, <3>6, <3>7 DEF Owed
  <2> QED BY <2>1, <2>2, <2>3 DEF Worker
<1> QED BY <1>2, <1>3

LEMMA StaleBefore ==
  ASSUME Sound, Sound', [Next]_vars, UNCHANGED <<connection, version>>, NEW l \in Leagues,
         stored'[l] # Upstream(l)'
  PROVE  stored[l] # Upstream(l)
<1> SUFFICES ASSUME stored[l] = Upstream(l) PROVE FALSE
  OBVIOUS
<1>1. Upstream(l)' = Upstream(l) /\ stored[l].connection = connection /\ stored[l].version = version[l]
  BY DEF Upstream
<1>2. stored'[l].version > stored[l].version
  BY <1>1, NeverBackStep
<1>3. stored'[l].version <= version[l]
  BY DEF Sound, Bounds
<1>4. version[l] \in Nat /\ stored'[l].version \in Nat
  BY StreamAssumption DEF Sound, TypeOK, Content, Versions
<1> QED BY <1>1, <1>2, <1>3, <1>4

LEMMA OwedBySync ==
  ASSUME Sound, Sound', [Next]_vars, NothingForgotten, NEW w \in Workers, Sync(w) \/ SyncFails(w),
         NEW c \in Clients, NEW l \in Leagues, Live(c)', stored'[l] # Upstream(l)'
  PROVE  Owed(c, l)'
<1>0. /\ LibraryTyped /\ SyncTyped /\ c \in Workers /\ c # Job
      /\ UNCHANGED <<connection, version, log, current, identity, reader, at, stopped, wake, pending>>
  BY Groups, Names
  DEF Sound, Sync, SyncFails, SyncRefused, Gives, TakeLock, Fetch, Apply, SyncOnly, WorkerOnly,
      libraryVars, managerVars, readerVars, clientVars
<1>1. /\ Upstream(l)' = Upstream(l) /\ AliveReader(c)' = AliveReader(c)
      /\ (IsPending(c, l)' <=> IsPending(c, l)) /\ (OnStream(c, l)' <=> OnStream(c, l))
  BY <1>0, PendingKept DEF Upstream, AliveReader, OnStream
<1>2. stored[l] # Upstream(l)
  BY <1>0, StaleBefore
<1>3. CASE c # w
  <2>1. stage'[c] = stage[c] /\ batch'[c] = batch[c] /\ got'[c] = got[c]
    <3>1. CASE Apply(w)
      BY <1>0, <1>3, <3>1, ApplyEffect
    <3>2. CASE ~Apply(w)
      BY <1>0, <1>3, <3>2 DEF Sync, SyncFails, SyncRefused, Gives, TakeLock, Fetch, Step, SyncTyped
    <3> QED BY <3>1, <3>2
  <2>2. Live(c)
    BY <1>0, <1>1, <2>1 DEF Live, IsAlive, AliveWorker
  <2> QED BY <1>0, <1>1, <1>2, <2>1, <2>2, OwedKept, OwedAlways
<1>4. CASE c = w
  <2>1. stage[c] \in {"waiting", "fetching"}
    BY <1>4 DEF Sync, SyncFails, SyncRefused, Gives, TakeLock, Fetch, Apply
  <2>2. Live(c) /\ ~stopped[c] /\ identity[c] = connection
    BY <1>0, <1>1, <2>1 DEF Live, IsAlive, AliveWorker
  <2>3. \/ reader'[c] # "open" \/ OnStream(c, l)' \/ IsPending(c, l)'
        \/ InBatch(c, l)
    BY <1>0, <1>1, <1>2, <2>1, <2>2, OwedAlways DEF Owed
  <2>4. stage[c] = "fetching" => expected[c] = connection
    BY <1>0, <2>2 DEF Sound, Carried
  <2>5. CASE TakeLock(w)
    <3>1. batch' = batch /\ got' = got /\ stage[c] = "waiting"
      BY <1>4, <2>5 DEF TakeLock
    <3>2. got'[c][l] = Unread /\ Part(c)' = Part(c)
      BY <1>0, <3>1, NothingYet DEF Part, Named
    <3> QED BY <2>3, <3>2 DEF InBatch, Owed
  <2>6. ASSUME NEW m \in Leagues, Fetch(w, m) PROVE Owed(c, l)'
    <3>1. /\ stage[c] = "fetching" /\ stage' = stage /\ batch' = batch
          /\ got' = [got EXCEPT ![c][m] = [connection |-> expected[c], version |-> version[m]]]
      BY <1>4, <2>6 DEF Fetch
    <3>2. Part(c)' = Part(c)
      BY <3>1 DEF Part, Named
    <3>3. got'[c][l] = got[c][l] \/ got'[c][l] = Upstream(l)
      BY <1>0, <2>4, <3>1 DEF SyncTyped, Upstream
    <3>4. InBatch(c, l) => InBatch(c, l)'
      BY <1>1, <3>1, <3>2, <3>3 DEF InBatch
    <3> QED BY <2>3, <3>4 DEF Owed
  <2>7. CASE Apply(w)
    <3>1. CASE InBatch(c, l)
      <4>1. l \in Part(c) /\ got[c][l] \in {Unread, Upstream(l)} /\ stage[c] = "fetching"
        BY <1>4, <2>7, <3>1, ApplyEffect DEF InBatch
      <4>2. got[c][l] = Unread
        BY <1>1, <1>4, <2>7, <4>1, ApplyEffect
      <4>3. ~batch[c].full
        BY <1>4, <2>7, <4>2, ApplyEffect DEF AllFetched, Fetched
      <4>4. PICK id \in batch[c].ids : id.league = l
        BY <4>1, <4>3 DEF Part, Named
      <4>5. stage'[c] = "waiting" /\ id \in batch'[c].ids
        BY <1>4, <2>7, <4>2, <4>3, <4>4, ApplyEffect
      <4>6. l \in Part(c)'
        BY <4>4, <4>5 DEF Part, Named
      <4> QED BY <4>5, <4>6 DEF InBatch, Owed
    <3> QED BY <2>3, <3>1 DEF Owed
  <2>8. CASE SyncRefused(w)
    <3>1. ~Cancelled(w) /\ connection = identity[w] /\ w # Job
      BY <1>0, <1>4, <2>2 DEF Cancelled
    <3>2. stage[w] = "fetching" => expected[w] = connection
      BY <1>4, <2>4
    <3> QED BY <3>1, <3>2, <2>8 DEF SyncRefused
  <2>9. CASE SyncFails(w)
    <3>1. stage'[c] = "failed"
      BY <1>0, <1>4, <2>9 DEF SyncFails, Gives, Step, SyncEnds, SyncTyped
    <3> QED BY <3>1 DEF Owed
  <2> QED BY <1>4, <2>5, <2>6, <2>7, <2>8, <2>9 DEF Sync
<1> QED BY <1>3, <1>4

LEMMA OwedByOthers ==
  ASSUME Sound, NothingForgotten, JobBegins \/ Refresh \/ RefreshStartFails \/ UNCHANGED vars,
         NEW c \in Clients, NEW l \in Leagues, Live(c)', stored'[l] # Upstream(l)'
  PROVE  Owed(c, l)'
<1>0. /\ LibraryTyped /\ ManagerTyped /\ ClientTyped /\ ReaderTyped /\ SyncTyped
      /\ c \in Workers /\ c # Job /\ c # 0
      /\ UNCHANGED <<connection, version, log, stored, at, got>>
  BY Groups, Names
  DEF Sound, JobBegins, Refresh, RefreshStops, RefreshDrops, RefreshStarts, RefreshStartFails,
      ManagerOnly, WorkerOnly, vars, libraryVars, readerVars, syncVars
<1>1. Upstream(l)' = Upstream(l)
  BY <1>0 DEF Upstream
<1>2. ASSUME UNCHANGED <<current, identity, stopped, wake, pending, reader>>,
             stage'[c] = stage[c], batch'[c] = batch[c]
      PROVE  Owed(c, l)'
  <2>1. Live(c)
    BY <1>0, <1>2 DEF Live, IsAlive, AliveReader, AliveWorker
  <2>2. IsPending(c, l)' <=> IsPending(c, l)
    BY <1>2, PendingKept
  <2> QED BY <1>0, <1>1, <1>2, <2>1, <2>2, OwedKept, OwedAlways
<1>3. CASE JobBegins
  <2>1. /\ UNCHANGED <<current, identity, stopped, wake, pending, reader>>
        /\ stage'[c] = stage[c] /\ batch'[c] = batch[c]
    BY <1>0, <1>3 DEF JobBegins, Step, WorkerOnly, managerVars, readerVars, clientVars, SyncTyped
  <2> QED BY <1>2, <2>1
<1>4. CASE UNCHANGED vars
  BY <1>2, <1>4 DEF vars, managerVars, readerVars, clientVars, syncVars
<1>5. CASE RefreshStops
  <2>1. current' = current /\ stopped' = [stopped EXCEPT ![current] = TRUE]
    BY <1>5 DEF RefreshStops, managerVars
  <2>2. c = current
    BY <2>1 DEF Live
  <2>3. stopped'[c] = TRUE
    BY <1>0, <2>1, <2>2 DEF ClientTyped
  <2> QED BY <2>3 DEF Live
<1>6. CASE RefreshDrops
  BY <1>0, <1>6 DEF RefreshDrops, Live
<1>7. CASE RefreshStarts
  <2>1. current' = made + 1 /\ reader' = [reader EXCEPT ![made + 1] = "down"]
    BY <1>7 DEF RefreshStarts
  <2>2. c = made + 1
    BY <2>1 DEF Live
  <2>3. reader'[c] = "down"
    BY <1>0, <2>1, <2>2 DEF ReaderTyped
  <2> QED BY <2>3 DEF Owed
<1>8. CASE RefreshStartFails
  <2> DEFINE n == made + 1
  <2>1. /\ UNCHANGED <<current, stage, batch, pending>>
        /\ identity' = [identity EXCEPT ![n] = connection]
        /\ stopped' = [stopped EXCEPT ![n] = TRUE] /\ wake' = [wake EXCEPT ![n] = TRUE]
        /\ reader' = [reader EXCEPT ![n] = "down"]
    BY <1>8 DEF RefreshStartFails, ManagerOnly
  <2>2. c # n
    <3>1. c = n => stopped'[c] = TRUE
      BY <1>0, <2>1 DEF ClientTyped
    <3> QED BY <3>1 DEF Live
  <2>3. /\ identity'[c] = identity[c] /\ stopped'[c] = stopped[c] /\ wake'[c] = wake[c]
        /\ reader'[c] = reader[c] /\ pending'[c] = pending[c]
    BY <1>0, <2>1, <2>2 DEF ManagerTyped, ClientTyped, ReaderTyped
  <2>4. Live(c)
    BY <1>0, <2>1, <2>3 DEF Live, IsAlive, AliveReader, AliveWorker
  <2>5. IsPending(c, l)' <=> IsPending(c, l)
    BY <2>3, PendingKept
  <2> QED BY <1>0, <1>1, <2>1, <2>3, <2>4, <2>5, OwedKept, OwedAlways
<1> QED BY <1>3, <1>4, <1>5, <1>6, <1>7, <1>8 DEF Refresh

(* A change in Sportarr reaches every open stream as an event that is still to    *)
(* come; an edit of the connection leaves no client that is of it.                *)
LEMMA OwedByWorld ==
  ASSUME Sound, NothingForgotten, EditConnection \/ \E m \in Leagues : Change(m),
         NEW c \in Clients, NEW l \in Leagues, Live(c)', stored'[l] # Upstream(l)'
  PROVE  Owed(c, l)'
<1>0. /\ LibraryTyped /\ ManagerTyped /\ ReaderTyped /\ Bounds
      /\ UNCHANGED <<stored, current, identity, stopped, wake, pending, reader, at, stage, batch, got>>
  BY Groups
  DEF Sound, EditConnection, Change, managerVars, clientVars, readerVars, syncVars
<1>1. CASE EditConnection
  <2>1. connection' = connection + 1 /\ identity[c] <= connection /\ identity'[c] = connection'
    BY <1>0, <1>1 DEF EditConnection, Bounds, Live
  <2>2. identity[c] \in Nat /\ connection \in Nat
    BY <1>0, StreamAssumption DEF ManagerTyped, LibraryTyped, Connections
  <2> QED BY <1>0, <2>1, <2>2
<1>2. ASSUME NEW m \in Leagues, Change(m) PROVE Owed(c, l)'
  <2>1. PICK form \in Forms : log' = Append(log, [league |-> m, form |-> form])
    BY <1>2 DEF Change
  <2>2. /\ version' = [version EXCEPT ![m] = version[m] + 1] /\ connection' = connection
        /\ log \in Seq(Events) /\ Len(log) \in Nat
    BY <1>0, <1>2 DEF Change, LibraryTyped
  <2>3. at[c] \in Nat /\ at[c] <= Len(log)
    BY <1>0, StreamAssumption DEF ReaderTyped, Bounds
  <2>4. /\ Len(log') = Len(log) + 1 /\ log'[Len(log) + 1].league = m
        /\ \A i \in 1..Len(log) : log'[i] = log[i]
    BY <2>1, <2>2
  <2>5. CASE l = m
    <3>1. Len(log) + 1 \in (at'[c] + 1)..Len(log')
      BY <1>0, <2>2, <2>3, <2>4
    <3>2. OnStream(c, l)'
      BY <2>4, <2>5, <3>1 DEF OnStream
    <3> QED BY <3>2 DEF Owed
  <2>6. CASE l # m
    <3>1. Upstream(l)' = Upstream(l)
      BY <1>0, <2>2, <2>6 DEF Upstream, LibraryTyped
    <3>2. Live(c) /\ stored[l] # Upstream(l)
      BY <1>0, <2>2, <3>1 DEF Live, IsAlive, AliveReader, AliveWorker
    <3>3. ASSUME OnStream(c, l) PROVE OnStream(c, l)'
      <4>1. PICK i \in (at[c] + 1)..Len(log) : log[i].league = l
        BY <3>3 DEF OnStream
      <4>2. i \in (at'[c] + 1)..Len(log') /\ log'[i].league = l
        BY <1>0, <2>2, <2>3, <2>4, <4>1
      <4> QED BY <4>2 DEF OnStream
    <3>4. (IsPending(c, l)' <=> IsPending(c, l)) /\ Part(c)' = Part(c)
      BY <1>0, PendingKept DEF Part, Named
    <3>5. InBatch(c, l) => InBatch(c, l)'
      BY <1>0, <3>1, <3>4 DEF InBatch
    <3> QED BY <1>0, <3>2, <3>3, <3>4, <3>5, OwedAlways DEF Owed
  <2> QED BY <2>5, <2>6
<1> QED BY <1>1, <1>2

LEMMA ForgottenStep == Sound /\ NothingForgotten /\ [Next]_vars => NothingForgotten'
<1> SUFFICES ASSUME Sound, NothingForgotten, [Next]_vars PROVE NothingForgotten'
  OBVIOUS
<1>1. Sound'
  BY SoundStep
<1>2. SUFFICES ASSUME NEW c \in Clients, NEW l \in Leagues, Live(c)', stored'[l] # Upstream(l)'
               PROVE  Owed(c, l)'
  BY DEF NothingForgotten, Live, Owed
<1> QED BY <1>1, <1>2, OwedByReader, OwedByBatch, OwedBySync, OwedByOthers, OwedByWorld DEF Next

(* Nothing a running client received, or may have missed, is forgotten, in       *)
(* whatever order events, syncs, faults, edits and clients follow one another    *)
(* (enqueue, dispatch, _opened, _work).                                          *)
THEOREM NothingIsForgotten == Spec => []NothingForgotten
<1>1. Init => NothingForgotten
  <2>1. Init => current = 0
    BY DEF Init
  <2> QED BY <2>1, Names DEF NothingForgotten
<1> QED BY <1>1, SoundAlways, ForgottenStep, PTL DEF Spec
===============================================================================
