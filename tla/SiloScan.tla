------------------------------- MODULE SiloScan -------------------------------
(***************************************************************************)
(* The confirmed refresh of one file by Silo (silo/scans.py).  The client   *)
(* subscribes to Silo's scan events, submits a scan of the file it changed, *)
(* and calls it confirmed only when the events prove that a scan which      *)
(* began after the change read the file and ended clean.                    *)
(*                                                                         *)
(* Silo is the environment: it answers a scan of a file that is being       *)
(* scanned with the scan that runs already, others ask it for scans too,    *)
(* and its events come late, twice, out of order or not at all.  Its clock  *)
(* advances with what it does.                                              *)
(***************************************************************************)
EXTENDS Naturals, Sequences, FiniteSets, SequencesExt

CONSTANTS
  Runs,        \* the scans there may be
  PostLimit,   \* _POST_LIMIT
  MaxOthers,   \* bound on scans that others ask for
  MaxUpsets    \* bound on events lost, repeated, passed over or published late,
               \* and on changes of Silo within one tick of its clock

ASSUME ScanAssumption ==
  IsFiniteSet(Runs) /\ PostLimit \in Nat \ {0} /\ MaxOthers \in Nat /\ MaxUpsets \in Nat

VARIABLES
  clock,     \* Silo's clock
  run,       \* run[r]: the scan r in Silo
  wire,      \* the events under way, in the order of their publication
  others,    \* scans that others asked for
  upsets,    \* irregularities so far
  phase,     \* where the client is
  outcome,   \* what it reports, once it is done
  attempt,   \* scans submitted
  seen,      \* runs: what the client remembers of each scan
  watermark, \* the latest stamp it has seen
  boundary   \* the watermark when it last submitted a scan

siloVars == <<clock, run, wire, others>>
clientVars == <<phase, outcome, attempt, seen, watermark, boundary>>
vars == <<siloVars, upsets, clientVars>>

Active == {"accepted", "running"}
Terminal == {"clean", "unclean"}           \* completed without counters; any other end
Modes == {"file", "library"}               \* of the file, or of a tree that holds it
Times == 0..(3 * Cardinality(Runs))        \* a scan changes three times
Never == 3 * Cardinality(Runs) + 1         \* a stamp that is missing
Stamps == Times \cup {Never}

(* sees: the scan began after the file was changed.                           *)
NoRun == [mode |-> "file", status |-> "none", started |-> Never, completed |-> Never, sees |-> FALSE]
Rows == [mode : Modes, status : {"none"} \cup Active \cup Terminal,
         started : Stamps, completed : Stamps, sees : BOOLEAN]
Events == [id : Runs, row : Rows, stamp : Times]

(* fresh: first above baseline.  announced: the first event of the scan was    *)
(* scan.accepted; since is that first event's stamp, last the latest one's.    *)
Unseen == [row |-> NoRun, fresh |-> FALSE, announced |-> FALSE, since |-> Never, last |-> Never,
           ambiguous |-> FALSE]
Observed == [row : Rows, fresh : BOOLEAN, announced : BOOLEAN, since : Stamps, last : Stamps,
             ambiguous : BOOLEAN]
Known == {r \in Runs : seen[r] # Unseen}

(* Events are listened to from the snapshot to the end.                       *)
Listening == phase \in {"waiting", "posting", "observing"}

(* The type invariant; the watermark covers every stamp that is remembered.   *)
TypeOK ==
  /\ clock \in Times /\ run \in [Runs -> Rows] /\ wire \in Seq(Events)
  /\ others \in 0..MaxOthers /\ upsets \in 0..MaxUpsets
  /\ phase \in {"before", "connecting", "snapshot", "waiting", "posting", "observing", "done"}
  /\ outcome \in {"none", "confirmed", "incomplete", "unclean", "error"}
  /\ attempt \in 0..PostLimit /\ seen \in [Runs -> Observed]
  /\ watermark \in Times /\ boundary \in Times
  /\ Listening =>
       \A r \in Known : \A t \in {seen[r].last, seen[r].row.started, seen[r].row.completed} :
         t = Never \/ t <= watermark

Init ==
  /\ clock = 0 /\ run = [r \in Runs |-> NoRun] /\ wire = <<>> /\ others = 0 /\ upsets = 0
  /\ phase = "before" /\ outcome = "none" /\ attempt = 0
  /\ seen = [r \in Runs |-> Unseen] /\ watermark = 0 /\ boundary = 0

Upset == upsets < MaxUpsets /\ upsets' = upsets + 1

-----------------------------------------------------------------------------
(* Silo.                                                                      *)

(* Something changes at the next tick, or within this one.                    *)
Ticks == (clock' = clock + 1 /\ UNCHANGED upsets) \/ (clock' = clock /\ Upset)
(* Scan r becomes row, and an event says so.                                  *)
Becomes(r, row) ==
  /\ run' = [run EXCEPT ![r] = row]
  /\ wire' = Append(wire, [id |-> r, row |-> row, stamp |-> clock'])
FileIsScanned == \E r \in Runs : run[r].status \in Active /\ run[r].mode = "file"
Accepted(mode) == [NoRun EXCEPT !.mode = mode, !.status = "accepted"]

(* Somebody else asks for a scan that covers the file.                        *)
OthersAsk(r, mode) ==
  /\ others < MaxOthers /\ others' = others + 1 /\ run[r] = NoRun
  /\ mode = "file" => ~FileIsScanned
  /\ Ticks /\ Becomes(r, Accepted(mode))
  /\ UNCHANGED clientVars

ScanStarts(r) ==
  /\ run[r].status = "accepted" /\ Ticks
  /\ Becomes(r, [run[r] EXCEPT !.status = "running", !.started = clock', !.sees = phase # "before"])
  /\ UNCHANGED <<others, clientVars>>

ScanEnds(r, status) ==
  /\ run[r].status = "running" /\ Ticks
  /\ Becomes(r, [run[r] EXCEPT !.status = status, !.completed = clock'])
  /\ UNCHANGED <<others, clientVars>>

(* An event gets lost, or what is said of a scan from event i on is published  *)
(* late.                                                                      *)
EventIsLost(i) ==
  /\ Upset /\ wire' = RemoveAt(wire, i)
  /\ UNCHANGED <<clock, run, others, clientVars>>
EventsAreLate(i) ==
  /\ Upset /\ wire[i].stamp < clock
  /\ wire' = [k \in DOMAIN wire |-> IF k >= i /\ wire[k].id = wire[i].id
                                   THEN [wire[k] EXCEPT !.stamp = clock] ELSE wire[k]]
  /\ UNCHANGED <<clock, run, others, clientVars>>

-----------------------------------------------------------------------------
(* The client: the handshake.                                                 *)

NothingSeen == [r \in Runs |-> Unseen]
(* The refresh is over, and forgets what it observed.                         *)
Ends(how) ==
  /\ phase' = "done" /\ outcome' = how
  /\ attempt' = 0 /\ seen' = NothingSeen /\ watermark' = 0 /\ boundary' = 0 /\ wire' = <<>>
ClientOnly == UNCHANGED <<siloVars, upsets>>
Stops(how) == Ends(how) /\ UNCHANGED <<clock, run, others, upsets>>

(* The subtitle was written; the refresh is under way.                        *)
Mutated ==
  /\ phase = "before" /\ phase' = "connecting"
  /\ UNCHANGED <<outcome, attempt, seen, watermark, boundary>> /\ ClientOnly

(* Subscribed: Silo reads which scans are active...                           *)
SnapshotRead ==
  /\ phase = "connecting" /\ phase' = "snapshot"
  /\ seen' = [r \in Runs |-> IF run[r].status \in Active THEN [Unseen EXCEPT !.row = run[r], !.ambiguous = TRUE]
                                                          ELSE Unseen]
  /\ UNCHANGED <<outcome, attempt, watermark, boundary>> /\ ClientOnly

(* ...and stamps the snapshot after it; no scan in it started later.          *)
SnapshotTaken ==
  /\ phase = "snapshot" /\ phase' = "waiting"
  /\ watermark' = clock
  /\ UNCHANGED <<outcome, attempt, seen, boundary>> /\ ClientOnly

-----------------------------------------------------------------------------
(* The listener: _Observation.remember.                                       *)

(* Mutant: the first start of a scan counts as another start.                 *)
StartIsDoubtful(o, e) == e.stamp < o.last \/ o.row.started # e.row.started
(* What is known no longer tells a cause: an earlier stamp after a later one,  *)
(* or another start of the same scan.                                         *)
Doubtful(o, e) ==
  \/ o.last # Never /\ e.stamp < o.last
  \/ o.row.started # Never /\ o.row.started # e.row.started

Updated(o, e) ==
  IF o = Unseen
  THEN [row |-> e.row, fresh |-> TRUE, announced |-> e.row.status = "accepted", since |-> e.stamp,
        last |-> e.stamp, ambiguous |-> FALSE]
  ELSE [o EXCEPT !.row = e.row, !.last = e.stamp, !.ambiguous = @ \/ Doubtful(o, e)]

Later(a, b) == IF b # Never /\ b > a THEN b ELSE a
(* Mutant: the watermark is the stamp of the event that came last.            *)
WatermarkOfLast(e) == e.stamp
WatermarkAfter(e) == Later(Later(Later(watermark, e.stamp), e.row.started), e.row.completed)

(* Event i is delivered, in its turn or before it; it may come again.         *)
Remember(i, again) ==
  /\ Listening
  /\ IF i = 1 /\ ~again THEN UNCHANGED upsets ELSE Upset
  /\ LET e == wire[i]
         o == seen[e.id]
     IN IF o.row.status \in Terminal /\ e.row.status # o.row.status
        THEN Ends("incomplete")
        ELSE /\ wire' = IF again THEN wire ELSE RemoveAt(wire, i)
             /\ seen' = [seen EXCEPT ![e.id] = Updated(o, e)]
             /\ watermark' = WatermarkAfter(e)
             /\ UNCHANGED <<phase, outcome, attempt, boundary>>
  /\ UNCHANGED <<clock, run, others>>

-----------------------------------------------------------------------------
(* The client: _submit_and_observe.                                           *)

Idle == \A r \in Known : seen[r].row.status \notin Active

(* wait_idle is over: from here what comes is fresh, beyond this boundary.    *)
Submit ==
  /\ phase = "waiting" /\ Idle /\ attempt < PostLimit
  /\ phase' = "posting" /\ attempt' = attempt + 1
  /\ boundary' = watermark
  /\ seen' = [r \in Runs |-> [seen[r] EXCEPT !.fresh = FALSE]]
  /\ UNCHANGED <<outcome, watermark>> /\ ClientOnly

(* The limit of the attempts is reached.                                      *)
GiveUp ==
  /\ phase = "waiting" /\ attempt = PostLimit
  /\ Stops("incomplete")

(* Silo accepts the scan, as the one that is active, if there is one.         *)
Posted ==
  /\ phase = "posting" /\ phase' = "observing"
  /\ \/ /\ FileIsScanned /\ UNCHANGED <<clock, run, wire, upsets>>
     \/ /\ ~FileIsScanned /\ Ticks
        /\ \E r \in Runs : run[r] = NoRun /\ Becomes(r, Accepted("file"))
  /\ UNCHANGED <<others, outcome, attempt, seen, watermark, boundary>>

Fresh == {r \in Known : seen[r].fresh}
Candidates ==
  {r \in Fresh : seen[r].announced /\ seen[r].since > boundary /\ seen[r].row.mode = "file"}

(* Mutant: a clean scan of the file that was announced is proof enough.       *)
CausalByAcceptance(o) == ~o.ambiguous /\ o.since > boundary
(* _causal_completion                                                         *)
Causal(o) ==
  /\ ~o.ambiguous /\ Never \notin {o.since, o.row.started, o.row.completed, o.last}
  /\ o.since > boundary /\ boundary < o.row.started
  /\ o.row.started <= o.row.completed /\ o.row.completed <= o.last /\ o.since <= o.last

Proven(r) == Fresh = {r} /\ Causal(seen[r])

(* The one candidate ended: it is the proof, or another scan is needed.       *)
CandidateEnded(r) ==
  /\ phase = "observing" /\ Candidates = {r}
  /\ \/ seen[r].row.status = "unclean" /\ Stops("unclean")
     \/ seen[r].row.status = "clean" /\ Proven(r) /\ Stops("confirmed")
     \/ /\ seen[r].row.status = "clean" /\ ~Proven(r) /\ phase' = "waiting"
        /\ UNCHANGED <<outcome, attempt, seen, watermark, boundary>> /\ ClientOnly

TwoCandidates ==
  /\ phase = "observing" /\ Cardinality(Candidates) > 1 /\ Stops("incomplete")

(* A reused scan, or one whose acceptance was missed, has ended.              *)
OnlyABarrier ==
  /\ phase = "observing" /\ Candidates = {} /\ Fresh # {} /\ Idle
  /\ phase' = "waiting"
  /\ UNCHANGED <<outcome, attempt, seen, watermark, boundary>> /\ ClientOnly

(* The deadline of the whole refresh passed, a request was refused, the stream  *)
(* broke, or the server's settings were edited meanwhile (ensure_current).    *)
Fails == phase \notin {"before", "done"} /\ Stops("error")

-----------------------------------------------------------------------------
Silo ==
  \/ \E r \in Runs : \/ \E mode \in Modes : OthersAsk(r, mode)
                     \/ ScanStarts(r)
                     \/ \E status \in Terminal : ScanEnds(r, status)
  \/ \E i \in DOMAIN wire : EventIsLost(i) \/ EventsAreLate(i)
Client ==
  \/ Mutated \/ SnapshotRead \/ SnapshotTaken
  \/ \E i \in DOMAIN wire, again \in BOOLEAN : Remember(i, again)
  \/ Submit \/ GiveUp \/ Posted
  \/ (\E r \in Runs : CandidateEnded(r)) \/ TwoCandidates \/ OnlyABarrier
  \/ Fails
Next == phase # "done" /\ (Silo \/ Client)
Spec == Init /\ [][Next]_vars

-----------------------------------------------------------------------------
(* Properties.                                                                *)

(* A refresh is confirmed only when a scan of the file that began after the    *)
(* file was changed has ended clean, whichever events were lost, repeated,     *)
(* late or out of order, and whoever's scan it was.                           *)
ConfirmedScanSawTheChange ==
  outcome = "confirmed" =>
    \E r \in Runs : run[r].mode = "file" /\ run[r].status = "clean" /\ run[r].sees

(* Left alone, a refresh is never given up: the evidence that is asked for is   *)
(* evidence that Silo gives when nobody else scans and no event is irregular.  *)
IncompleteOnlyWhenDisturbed == outcome = "incomplete" => others > 0 \/ upsets > 0
=============================================================================
