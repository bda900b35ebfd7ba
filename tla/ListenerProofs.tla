---------------------------- MODULE ListenerProofs ----------------------------
(* Machine-checked properties of the two components that listen to another   *)
(* server, for every value of their constants: of SiloScan, and below of     *)
(* SignalrFeed.                                                              *)
EXTENDS SiloScan, SignalrFeed, SequenceTheorems, FiniteSetTheorems, TLAPS

(* What Silo says of a scan fits together, and none of it is in the future.  *)
RowOK(row, now) ==
  /\ row.status = "none" => row = NoRun
  /\ row.status \in {"none", "accepted"} <=> row.started = Never
  /\ row.status \notin Terminal <=> row.completed = Never
  /\ row.started # Never => row.started <= now
  /\ row.completed # Never => row.completed <= now
RunsOK == \A r \in Runs : RowOK(run[r], clock)

(* A tick of the clock is a change of a scan, and a scan changes three times.*)
Asked == {r \in Runs : run[r].status # "none"}
Started == {r \in Runs : run[r].started # Never}
Completed == {r \in Runs : run[r].completed # Never}
ClockCounted == clock <= Cardinality(Asked) + Cardinality(Started) + Cardinality(Completed)

(* The snapshot is read before it is stamped.                                *)
SnapshotOK ==
  phase = "snapshot" =>
    \A r \in Runs : \A t \in {seen[r].last, seen[r].row.started, seen[r].row.completed} :
      t = Never \/ t <= clock

(* What is said of a scan was true when it was said, and the scan went on to *)
(* what it is now.                                                           *)
Told(row, now) ==
  /\ row.status # "none" /\ now.status # "none" /\ row.mode = now.mode
  /\ row.started # Never => row.started = now.started
  /\ row.status \in Terminal => row.status = now.status
SeenTold == \A r \in Known : Told(seen[r].row, run[r])
WireTold == \A i \in DOMAIN wire : Told(wire[i].row, run[wire[i].id])
Sighted == phase \in {"snapshot", "waiting", "posting", "observing"}
Evidence == WireTold /\ (Sighted => SeenTold)

(* A scan that began too early began before the boundary.                    *)
Blind(r) == run[r].started # Never /\ ~run[r].sees
BoundaryOK ==
  /\ phase \in {"waiting", "posting", "observing"} =>
       \A r \in Runs : Blind(r) => run[r].started <= watermark
  /\ phase \in {"posting", "observing"} =>
       \A r \in Runs : Blind(r) => run[r].started <= boundary

(* Undisturbed, the one scan is the client's, and its three events come in   *)
(* turn: k were published and d of them delivered.                           *)
RunningRow == [Accepted("file") EXCEPT !.status = "running", !.started = 2, !.sees = TRUE]
RowAt(k, status) ==
  IF k = 1 THEN Accepted("file")
  ELSE IF k = 2 THEN RunningRow
  ELSE [RunningRow EXCEPT !.status = status, !.completed = 3]
Announced(row, yes, last, no) ==
  [row |-> row, fresh |-> yes, announced |-> yes, since |-> 1, last |-> last, ambiguous |-> no]
Heard(d, status) == IF d = 0 THEN Unseen ELSE Announced(RowAt(d, status), TRUE, d, FALSE)
OwnScan(r, k, d, status) ==
  /\ clock = k /\ watermark = d
  /\ run = [q \in Runs |-> IF q = r THEN RowAt(k, status) ELSE NoRun]
  /\ seen = [q \in Runs |-> IF q = r THEN Heard(d, status) ELSE Unseen]
  /\ wire = [i \in 1..(k - d) |-> [id |-> r, row |-> RowAt(d + i, status), stamp |-> d + i]]
NoScan ==
  /\ clock = 0 /\ watermark = 0 /\ wire = <<>>
  /\ run = [r \in Runs |-> NoRun] /\ seen = NothingSeen
Calm == others = 0 /\ upsets = 0
Quiet ==
  /\ phase \in {"before", "connecting", "snapshot", "waiting"} => attempt = 0 /\ NoScan
  /\ phase = "posting" => NoScan /\ boundary = 0
  /\ phase = "observing" =>
       /\ boundary = 0
       /\ \E r \in Runs, k \in 1..3, d \in 0..3, status \in Terminal : d <= k /\ OwnScan(r, k, d, status)
  /\ outcome # "incomplete"
Undisturbed == Calm => Quiet

NotYetDone == phase # "done" => outcome = "none"
SiloInv ==
  /\ TypeOK /\ RunsOK /\ ClockCounted /\ SnapshotOK /\ Evidence /\ BoundaryOK
  /\ Undisturbed /\ ConfirmedScanSawTheChange /\ NotYetDone

-----------------------------------------------------------------------------
(* Numbers: a scan that is not yet asked for, started or completed leaves room *)
(* on the clock.                                                             *)

LEMMA Numbers ==
  /\ Cardinality(Runs) \in Nat /\ Times \subseteq Nat /\ Never \in Nat /\ Never \notin Times
  /\ 0 \in Times /\ \A t \in Stamps : t # Never => t \in Times
  /\ \A t \in Nat : t \in Times <=> t < Never
<1>1. Cardinality(Runs) \in Nat
  BY FS_CardinalityType, ScanAssumption
<1> QED BY <1>1 DEF Times, Never, Stamps

LEMMA Room ==
  ASSUME NEW X \in SUBSET Runs
  PROVE  /\ IsFiniteSet(X) /\ Cardinality(X) \in Nat /\ Cardinality(X) <= Cardinality(Runs)
         /\ \A r \in Runs \ X : /\ Cardinality(X \cup {r}) = Cardinality(X) + 1
                                /\ Cardinality(X) + 1 <= Cardinality(Runs)
<1>1. IsFiniteSet(Runs)
  BY ScanAssumption
<1>2. IsFiniteSet(X) /\ Cardinality(X) <= Cardinality(Runs)
  BY <1>1, FS_Subset
<1>3. ASSUME NEW r \in Runs \ X
      PROVE  Cardinality(X \cup {r}) = Cardinality(X) + 1 /\ Cardinality(X) + 1 <= Cardinality(Runs)
  <2>1. Cardinality(X \cup {r}) = Cardinality(X) + 1
    BY <1>2, <1>3, FS_AddElement
  <2>2. X \cup {r} \in SUBSET Runs
    BY <1>3
  <2>3. Cardinality(X \cup {r}) <= Cardinality(Runs)
    BY <1>1, <2>2, FS_Subset
  <2> QED BY <2>1, <2>3
<1> QED BY <1>2, <1>3, FS_CardinalityType

LEMMA ClockRoom ==
  ASSUME TypeOK, ClockCounted, NEW r \in Runs, r \notin Asked \/ r \notin Started \/ r \notin Completed
  PROVE  clock + 1 \in Times
<1>1. Asked \in SUBSET Runs /\ Started \in SUBSET Runs /\ Completed \in SUBSET Runs
  BY DEF Asked, Started, Completed
<1>2. /\ Cardinality(Runs) \in Nat /\ Cardinality(Asked) \in Nat
      /\ Cardinality(Started) \in Nat /\ Cardinality(Completed) \in Nat
      /\ Cardinality(Asked) <= Cardinality(Runs) /\ Cardinality(Started) <= Cardinality(Runs)
      /\ Cardinality(Completed) <= Cardinality(Runs)
      /\ \/ Cardinality(Asked) + 1 <= Cardinality(Runs)
         \/ Cardinality(Started) + 1 <= Cardinality(Runs)
         \/ Cardinality(Completed) + 1 <= Cardinality(Runs)
  BY <1>1, Room, Numbers
<1>3. clock \in Nat
  BY Numbers DEF TypeOK
<1>4. clock + 1 <= 3 * Cardinality(Runs)
  BY <1>2, <1>3 DEF ClockCounted
<1> QED BY <1>2, <1>3, <1>4 DEF Times

-----------------------------------------------------------------------------
(* The steps of Silo, in the terms of the invariants.                        *)

LEMMA ScanRecords ==
  /\ NoRun \in Rows /\ NoRun.status = "none" /\ NoRun.started = Never /\ NoRun.completed = Never
  /\ \A mode \in Modes :
       /\ Accepted(mode) \in Rows /\ Accepted(mode).mode = mode
       /\ Accepted(mode).status = "accepted" /\ Accepted(mode).sees = FALSE
       /\ Accepted(mode).started = Never /\ Accepted(mode).completed = Never
  /\ Unseen \in Observed /\ Unseen.row = NoRun /\ Unseen.last = Never
  BY DEF NoRun, Rows, Accepted, Modes, Active, Stamps, Unseen, Observed

(* Scan r goes on to row.                                                    *)
GoesOn(r, row) ==
  \/ run[r] = NoRun /\ \E mode \in Modes : row = Accepted(mode)
  \/ /\ run[r].status = "accepted"
     /\ row = [run[r] EXCEPT !.status = "running", !.started = clock', !.sees = phase # "before"]
  \/ /\ run[r].status = "running"
     /\ \E status \in Terminal : row = [run[r] EXCEPT !.status = status, !.completed = clock']
Change(r, row) ==
  /\ clock' \in Times /\ clock <= clock' /\ clock' <= clock + 1 /\ upsets' \in 0..MaxUpsets
  /\ row \in Rows /\ GoesOn(r, row) /\ Becomes(r, row)

LEMMA ScanChanges ==
  ASSUME TypeOK, RunsOK, ClockCounted, NEW r \in Runs, NEW row, Ticks, Becomes(r, row), GoesOn(r, row)
  PROVE  Change(r, row)
<1>1. run[r] \in Rows /\ clock \in Times /\ clock \in Nat /\ RowOK(run[r], clock)
  BY Numbers DEF TypeOK, RunsOK
<1>2. r \notin Asked \/ r \notin Started \/ r \notin Completed
  BY <1>1, ScanRecords DEF GoesOn, RowOK, Asked, Started, Completed, Terminal
<1>3. clock' \in Times /\ clock <= clock' /\ clock' <= clock + 1 /\ upsets' \in 0..MaxUpsets
  BY <1>1, <1>2, ClockRoom, ScanAssumption DEF Ticks, Upset, TypeOK
<1>4. row \in Rows
  <2>1. clock' \in Stamps /\ (phase # "before") \in BOOLEAN
    BY <1>3 DEF Stamps
  <2>2. CASE run[r] = NoRun /\ \E mode \in Modes : row = Accepted(mode)
    BY <2>2, ScanRecords
  <2>3. CASE row = [run[r] EXCEPT !.status = "running", !.started = clock', !.sees = phase # "before"]
    BY <1>1, <2>1, <2>3 DEF Rows, Active
  <2>4. ASSUME NEW status \in Terminal, row = [run[r] EXCEPT !.status = status, !.completed = clock']
        PROVE  row \in Rows
    BY <1>1, <2>1, <2>4 DEF Rows
  <2> QED BY <2>2, <2>3, <2>4 DEF GoesOn
<1> QED BY <1>3, <1>4 DEF Change

(* What a change keeps of what is known of the scan.                         *)
LEMMA ChangedScan ==
  ASSUME TypeOK, RunsOK, NEW r \in Runs, NEW row, Change(r, row)
  PROVE  /\ row.status # "none" /\ RowOK(row, clock')
         /\ run'[r] = row /\ \A q \in Runs : q # r => run'[q] = run[q]
         /\ run[r].status # "none" => row.mode = run[r].mode
         /\ run[r].status \notin Terminal
         /\ run[r].started # Never => row.started = run[r].started /\ row.sees = run[r].sees
         /\ run[r].started = Never /\ row.started # Never => row.sees = (phase # "before")
<1>1. run[r] \in Rows /\ clock \in Nat /\ clock' \in Nat /\ clock' # Never /\ clock' <= clock'
  <2>1. run[r] \in Rows
    BY DEF TypeOK
  <2>2. clock \in Times /\ clock' \in Times
    BY DEF TypeOK, Change
  <2>3. clock \in Nat /\ clock' \in Nat /\ clock' # Never
    BY <2>2, Numbers
  <2> QED BY <2>1, <2>3
<1>2. /\ run[r].started \in Nat /\ run[r].completed \in Nat
      /\ RowOK(run[r], clock) /\ clock <= clock'
  BY <1>1, Numbers DEF RunsOK, Rows, Stamps, Change
<1>3. run'[r] = row /\ \A q \in Runs : q # r => run'[q] = run[q]
  BY DEF Change, Becomes, TypeOK
<1>4. CASE run[r] = NoRun /\ \E mode \in Modes : row = Accepted(mode)
  <2>1. /\ row.status = "accepted" /\ row.started = Never /\ row.completed = Never
        /\ run[r].status = "none" /\ run[r].started = Never
    BY <1>4, ScanRecords
  <2> QED BY <1>3, <2>1 DEF RowOK, Terminal
<1>5. CASE /\ run[r].status = "accepted"
           /\ row = [run[r] EXCEPT !.status = "running", !.started = clock', !.sees = phase # "before"]
  <2>1. /\ row.status = "running" /\ row.started = clock' /\ row.sees = (phase # "before")
        /\ row.mode = run[r].mode /\ row.completed = run[r].completed
    BY <1>1, <1>5 DEF Rows
  <2>2. run[r].started = Never /\ run[r].completed = Never
    BY <1>2, <1>5 DEF RowOK, Terminal
  <2> QED BY <1>1, <1>3, <1>5, <2>1, <2>2 DEF RowOK, Terminal
<1>6. ASSUME run[r].status = "running", NEW status \in Terminal,
             row = [run[r] EXCEPT !.status = status, !.completed = clock']
      PROVE  /\ row.status # "none" /\ RowOK(row, clock') /\ row.mode = run[r].mode
             /\ run[r].started # Never /\ row.started = run[r].started /\ row.sees = run[r].sees
  <2>1. /\ row.status = status /\ row.started = run[r].started /\ row.sees = run[r].sees
        /\ row.mode = run[r].mode /\ row.completed = clock'
    BY <1>1, <1>6 DEF Rows
  <2>2. run[r].started # Never /\ run[r].started <= clock
    BY <1>2, <1>6 DEF RowOK
  <2>3. run[r].started <= clock'
    BY <1>1, <1>2, <2>2
  <2> QED BY <1>1, <1>6, <2>1, <2>2, <2>3 DEF RowOK, Terminal
<1> QED BY <1>3, <1>4, <1>5, <1>6 DEF Change, GoesOn, Terminal

LEMMA RunsChange ==
  ASSUME TypeOK, RunsOK, NEW r \in Runs, NEW row, Change(r, row)
  PROVE  RunsOK'
<1> SUFFICES ASSUME NEW q \in Runs PROVE RowOK(run'[q], clock')
  BY DEF RunsOK
<1>1. CASE q = r
  BY <1>1, ChangedScan
<1>2. CASE q # r
  <2>1. run'[q] = run[q] /\ RowOK(run[q], clock)
    BY <1>2, ChangedScan DEF RunsOK
  <2>2. clock \in Nat /\ clock' \in Nat /\ clock <= clock'
    BY Numbers DEF TypeOK, Change
  <2>3. run[q].started \in Nat /\ run[q].completed \in Nat
    BY Numbers DEF TypeOK, Rows, Stamps
  <2> QED BY <2>1, <2>2, <2>3 DEF RowOK
<1> QED BY <1>1, <1>2

LEMMA ClockChange ==
  ASSUME TypeOK, RunsOK, ClockCounted, NEW r \in Runs, NEW row, Change(r, row)
  PROVE  ClockCounted'
<1>1. /\ Asked \in SUBSET Runs /\ Started \in SUBSET Runs /\ Completed \in SUBSET Runs
      /\ clock \in Nat /\ clock' \in Nat /\ clock' <= clock + 1
  BY Numbers DEF Asked, Started, Completed, TypeOK, Change
<1>2. /\ Cardinality(Asked) \in Nat /\ Cardinality(Started) \in Nat /\ Cardinality(Completed) \in Nat
      /\ clock <= Cardinality(Asked) + Cardinality(Started) + Cardinality(Completed)
  BY <1>1, Room DEF ClockCounted
<1>3. /\ run'[r] = row /\ \A q \in Runs : q # r => run'[q] = run[q]
      /\ run[r] \in Rows /\ RowOK(run[r], clock) /\ clock' # Never
  BY ChangedScan, Numbers DEF TypeOK, RunsOK, Change
<1>4. CASE run[r] = NoRun /\ \E mode \in Modes : row = Accepted(mode)
  <2>1. Asked' = Asked \cup {r} /\ r \notin Asked /\ Started' = Started /\ Completed' = Completed
    BY <1>3, <1>4, ScanRecords DEF Asked, Started, Completed
  <2>2. Cardinality(Asked') = Cardinality(Asked) + 1
    BY <1>1, <2>1, Room
  <2> QED BY <1>1, <1>2, <2>1, <2>2 DEF ClockCounted
<1>5. CASE /\ run[r].status = "accepted"
           /\ row = [run[r] EXCEPT !.status = "running", !.started = clock', !.sees = phase # "before"]
  <2>1. row.status = "running" /\ row.started = clock' /\ row.completed = run[r].completed
    BY <1>3, <1>5 DEF Rows
  <2>5. run[r].status = "accepted" /\ run[r].started = Never
    BY <1>3, <1>5 DEF RowOK
  <2>2. Asked' = Asked /\ Completed' = Completed
    BY <1>3, <2>1, <2>5 DEF Asked, Completed
  <2>4. Started' = Started \cup {r} /\ r \notin Started
    BY <1>3, <2>1, <2>5 DEF Started
  <2>3. Cardinality(Started') = Cardinality(Started) + 1
    BY <1>1, <2>4, Room
  <2> QED BY <1>1, <1>2, <2>2, <2>3 DEF ClockCounted
<1>6. ASSUME run[r].status = "running", NEW status \in Terminal,
             row = [run[r] EXCEPT !.status = status, !.completed = clock']
      PROVE  ClockCounted'
  <2>1. row.status = status /\ row.started = run[r].started /\ row.completed = clock'
    BY <1>3, <1>6 DEF Rows
  <2>2. Asked' = Asked /\ Started' = Started /\ r \notin Completed /\ Completed' = Completed \cup {r}
    BY <1>3, <1>6, <2>1 DEF Asked, Started, Completed, RowOK, Terminal
  <2>3. Cardinality(Completed') = Cardinality(Completed) + 1
    BY <1>1, <2>2, Room
  <2> QED BY <1>1, <1>2, <2>2, <2>3 DEF ClockCounted
<1> QED BY <1>4, <1>5, <1>6 DEF Change, GoesOn

(* The three steps of Silo that change a scan.                               *)
ScanStep ==
  \E r \in Runs : \/ \E mode \in Modes : OthersAsk(r, mode)
                  \/ ScanStarts(r)
                  \/ \E status \in Terminal : ScanEnds(r, status)

LEMMA EveryScanStep ==
  ASSUME TypeOK, RunsOK, ClockCounted, ScanStep
  PROVE  /\ others' \in 0..MaxOthers /\ UNCHANGED clientVars
         /\ \E r \in Runs : \E row : Change(r, row)
<1>1. ASSUME NEW r \in Runs, NEW mode \in Modes, OthersAsk(r, mode)
      PROVE  /\ others' \in 0..MaxOthers /\ UNCHANGED clientVars
             /\ \E q \in Runs : \E row : Change(q, row)
  <2>1. Change(r, Accepted(mode))
    BY <1>1, ScanChanges DEF OthersAsk, GoesOn
  <2> QED BY <1>1, <2>1, ScanAssumption DEF OthersAsk, TypeOK
<1>2. ASSUME NEW r \in Runs, ScanStarts(r)
      PROVE  /\ others' \in 0..MaxOthers /\ UNCHANGED clientVars
             /\ \E q \in Runs : \E row : Change(q, row)
  <2> DEFINE row == [run[r] EXCEPT !.status = "running", !.started = clock', !.sees = phase # "before"]
  <2>1. GoesOn(r, row) /\ Ticks /\ Becomes(r, row)
    BY <1>2 DEF ScanStarts, GoesOn
  <2> HIDE DEF row
  <2>2. Change(r, row)
    BY <2>1, ScanChanges
  <2> QED BY <1>2, <2>2 DEF ScanStarts, TypeOK
<1>3. ASSUME NEW r \in Runs, NEW status \in Terminal, ScanEnds(r, status)
      PROVE  /\ others' \in 0..MaxOthers /\ UNCHANGED clientVars
             /\ \E q \in Runs : \E row : Change(q, row)
  <2> DEFINE row == [run[r] EXCEPT !.status = status, !.completed = clock']
  <2>1. GoesOn(r, row) /\ Ticks /\ Becomes(r, row)
    BY <1>3 DEF ScanEnds, GoesOn
  <2> HIDE DEF row
  <2>2. Change(r, row)
    BY <2>1, ScanChanges
  <2> QED BY <1>3, <2>2 DEF ScanEnds, TypeOK
<1> QED BY <1>1, <1>2, <1>3 DEF ScanStep

-----------------------------------------------------------------------------
(* The events under way, and the steps of the client.                        *)

(* Every event of new says what an event of wire says.                       *)
WireKept(new) ==
  /\ new \in Seq(Events)
  /\ \A j \in DOMAIN new : \E k \in DOMAIN wire : new[j].id = wire[k].id /\ new[j].row = wire[k].row

LEMMA WireEvents ==
  ASSUME TypeOK
  PROVE  /\ Len(wire) \in Nat /\ DOMAIN wire = 1..Len(wire)
         /\ \A i \in DOMAIN wire : wire[i] \in Events
<1>1. wire \in Seq(Events)
  BY DEF TypeOK
<1> QED BY <1>1, LenProperties, ElementOfSeq

LEMMA RemovedAt ==
  ASSUME TypeOK, NEW i \in DOMAIN wire
  PROVE  /\ WireKept(RemoveAt(wire, i)) /\ Len(RemoveAt(wire, i)) = Len(wire) - 1
         /\ DOMAIN RemoveAt(wire, i) = 1..(Len(wire) - 1)
         /\ \A k \in 1..(Len(wire) - 1) : RemoveAt(wire, i)[k] = IF k < i THEN wire[k] ELSE wire[k + 1]
<1> DEFINE a == SubSeq(wire, 1, i - 1)
           b == SubSeq(wire, i + 1, Len(wire))
<1>0. wire \in Seq(Events) /\ Len(wire) \in Nat /\ i \in 1..Len(wire) /\ DOMAIN wire = 1..Len(wire)
  BY WireEvents DEF TypeOK
<1>1. /\ a \in Seq(Events) /\ Len(a) = i - 1
      /\ \A k \in 1..(i - 1) : a[k] = wire[k]
  BY <1>0, SubSeqProperties
<1>2. /\ b \in Seq(Events) /\ Len(b) = Len(wire) - i
      /\ \A k \in 1..(Len(wire) - i) : b[k] = wire[i + k]
  BY <1>0, SubSeqProperties
<1> HIDE DEF a, b
<1>3. a \o b \in Seq(Events) /\ Len(a \o b) = Len(a) + Len(b)
  BY <1>1, <1>2, ConcatProperties
<1>8. Len(wire) \in Nat /\ i \in 1..Len(wire)
  BY <1>0
<1>9. Len(a \o b) = Len(wire) - 1
  BY <1>1, <1>2, <1>3, <1>8
<1>4. Len(a \o b) = Len(wire) - 1 /\ DOMAIN (a \o b) = 1..(Len(wire) - 1)
  BY <1>3, <1>9, LenProperties
<1>10. \A k \in 1..(Len(a) + Len(b)) : (a \o b)[k] = IF k <= Len(a) THEN a[k] ELSE b[k - Len(a)]
  BY <1>1, <1>2, ConcatProperties
<1>5. \A k \in 1..(Len(wire) - 1) : (a \o b)[k] = IF k < i THEN wire[k] ELSE wire[k + 1]
  <2> SUFFICES ASSUME NEW k \in 1..(Len(wire) - 1)
               PROVE  (a \o b)[k] = IF k < i THEN wire[k] ELSE wire[k + 1]
    OBVIOUS
  <2>1. (a \o b)[k] = IF k <= i - 1 THEN a[k] ELSE b[k - (i - 1)]
    BY <1>1, <1>2, <1>8, <1>10
  <2>2. CASE k < i
    BY <1>1, <1>8, <2>1, <2>2
  <2>3. CASE ~(k < i)
    <3>1. k - (i - 1) \in 1..(Len(wire) - i) /\ i + (k - (i - 1)) = k + 1
      BY <1>8, <2>3
    <3> QED BY <1>2, <1>8, <2>1, <2>3, <3>1
  <2> QED BY <2>2, <2>3
<1>6. \A j \in DOMAIN (a \o b) : \E k \in DOMAIN wire : (a \o b)[j] = wire[k]
  <2> SUFFICES ASSUME NEW j \in 1..(Len(wire) - 1)
               PROVE  \E k \in 1..Len(wire) : (a \o b)[j] = wire[k]
    BY <1>0, <1>4
  <2>1. j \in 1..Len(wire) /\ j + 1 \in 1..Len(wire)
    BY <1>8
  <2> QED BY <1>5, <2>1
<1>7. WireKept(a \o b)
  BY <1>3, <1>6 DEF WireKept
<1> QED BY <1>4, <1>5, <1>7 DEF RemoveAt, a, b

LEMMA LateEvents ==
  ASSUME TypeOK, NEW i \in DOMAIN wire, EventsAreLate(i)
  PROVE  WireKept(wire')
<1>1. /\ Len(wire) \in Nat /\ DOMAIN wire = 1..Len(wire) /\ \A k \in DOMAIN wire : wire[k] \in Events
      /\ clock \in Times
  BY WireEvents DEF TypeOK
<1>2. wire' = [k \in 1..Len(wire) |-> IF k >= i /\ wire[k].id = wire[i].id
                                     THEN [wire[k] EXCEPT !.stamp = clock] ELSE wire[k]]
  BY <1>1 DEF EventsAreLate
<1>3. \A k \in 1..Len(wire) :
        wire'[k] \in Events /\ wire'[k].id = wire[k].id /\ wire'[k].row = wire[k].row
  BY <1>1, <1>2 DEF Events
<1>4. DOMAIN wire' = 1..Len(wire)
  BY <1>2
<1>5. wire' = [k \in 1..Len(wire) |-> wire'[k]]
  BY <1>2
<1>6. wire' \in Seq(Events)
  BY <1>1, <1>3, <1>5, IsASeq
<1> QED BY <1>1, <1>3, <1>4, <1>6 DEF WireKept

LEMMA EventSaid ==
  ASSUME TypeOK, NEW r \in Runs, NEW row, Change(r, row)
  PROVE  /\ wire' \in Seq(Events)
         /\ \A j \in DOMAIN wire' : \/ j \in DOMAIN wire /\ wire'[j] = wire[j]
                                    \/ wire'[j].id = r /\ wire'[j].row = row
<1> DEFINE e == [id |-> r, row |-> row, stamp |-> clock']
<1>1. e \in Events /\ e.id = r /\ e.row = row
  BY DEF Change, Events
<1>2. wire \in Seq(Events) /\ wire' = Append(wire, e)
  BY DEF TypeOK, Change, Becomes
<1> HIDE DEF e
<1>3. /\ wire' \in Seq(Events) /\ Len(wire') = Len(wire) + 1
      /\ \A j \in 1..Len(wire) : wire'[j] = wire[j] /\ wire'[Len(wire) + 1] = e
  BY <1>1, <1>2, AppendProperties
<1>4. wire'[Len(wire) + 1] = e
  BY <1>1, <1>2, AppendProperties
<1>5. DOMAIN wire' = 1..Len(wire) + 1 /\ DOMAIN wire = 1..Len(wire) /\ Len(wire) \in Nat
  BY <1>2, <1>3, LenProperties
<1> QED BY <1>1, <1>3, <1>4, <1>5

(* What is remembered of a scan is covered by a watermark.                   *)
CoveredBy(o, mark) == \A t \in {o.last, o.row.started, o.row.completed} : t = Never \/ t <= mark

LEMMA Watermarks ==
  ASSUME TypeOK, NEW e \in Events
  PROVE  /\ WatermarkAfter(e) \in Times /\ watermark <= WatermarkAfter(e)
         /\ e.stamp <= WatermarkAfter(e)
         /\ e.row.started # Never => e.row.started <= WatermarkAfter(e)
         /\ e.row.completed # Never => e.row.completed <= WatermarkAfter(e)
<1>1. /\ watermark \in Times /\ e.stamp \in Times /\ e.row.started \in Stamps /\ e.row.completed \in Stamps
  BY DEF TypeOK, Events, Rows
<1>2. \A a \in Times : \A b \in Stamps :
        Later(a, b) \in Times /\ a <= Later(a, b) /\ (b # Never => b <= Later(a, b))
  BY Numbers DEF Later, Stamps
<1> DEFINE m1 == Later(watermark, e.stamp)
           m2 == Later(m1, e.row.started)
           m3 == Later(m2, e.row.completed)
<1>3. m1 \in Times /\ watermark <= m1 /\ e.stamp <= m1
  BY <1>1, <1>2, Numbers DEF Stamps
<1>4. m2 \in Times /\ m1 <= m2 /\ (e.row.started # Never => e.row.started <= m2)
  BY <1>1, <1>2, <1>3
<1>5. m3 \in Times /\ m2 <= m3 /\ (e.row.completed # Never => e.row.completed <= m3)
  BY <1>1, <1>2, <1>4
<1>6. WatermarkAfter(e) = m3
  BY DEF WatermarkAfter
<1> HIDE DEF m1, m2, m3
<1>7. /\ m1 \in Nat /\ m2 \in Nat /\ m3 \in Nat /\ watermark \in Nat /\ e.stamp \in Nat
      /\ e.row.started \in Nat /\ e.row.completed \in Nat
  BY <1>1, <1>3, <1>4, <1>5, Numbers
<1> QED BY <1>3, <1>4, <1>5, <1>6, <1>7

LEMMA UpdatedRecord ==
  ASSUME TypeOK, NEW e \in Events, NEW o \in Observed
  PROVE  /\ Updated(o, e) \in Observed /\ Updated(o, e).row = e.row /\ Updated(o, e).last = e.stamp
         /\ CoveredBy(Updated(o, e), WatermarkAfter(e))
<1>1. /\ e.row \in Rows /\ e.stamp \in Times /\ e.stamp \in Stamps
      /\ (e.row.status = "accepted") \in BOOLEAN /\ Doubtful(o, e) \in BOOLEAN
  BY DEF Events, Stamps, Doubtful
<1>2. /\ Updated(o, e) \in Observed /\ Updated(o, e).row = e.row /\ Updated(o, e).last = e.stamp
  <2>1. CASE o = Unseen
    BY <1>1, <2>1 DEF Updated, Observed
  <2>2. CASE o # Unseen
    <3>1. (o.ambiguous \/ Doubtful(o, e)) \in BOOLEAN
      BY <1>1
    <3> QED BY <1>1, <2>2, <3>1 DEF Updated, Observed
  <2> QED BY <2>1, <2>2
<1>3. CoveredBy(Updated(o, e), WatermarkAfter(e))
  BY <1>2, Watermarks DEF CoveredBy
<1> QED BY <1>2, <1>3

LEMMA CoveredKept ==
  ASSUME NEW o \in Observed, NEW a \in Nat, NEW b \in Nat, a <= b, CoveredBy(o, a)
  PROVE  CoveredBy(o, b)
<1>1. o.last \in Nat /\ o.row.started \in Nat /\ o.row.completed \in Nat
  BY Numbers DEF Observed, Rows, Stamps
<1> QED BY <1>1 DEF CoveredBy

(* Event e is delivered.                                                     *)
Learns(e) ==
  /\ Listening /\ e \in Events /\ \E i \in DOMAIN wire : e = wire[i]
  /\ upsets' \in 0..MaxUpsets /\ WireKept(wire')
  /\ seen' = [seen EXCEPT ![e.id] = Updated(seen[e.id], e)] /\ watermark' = WatermarkAfter(e)
  /\ UNCHANGED <<clock, run, others, phase, outcome, attempt, boundary>>
(* The refresh is over.                                                      *)
Outcomes == {"confirmed", "incomplete", "unclean", "error"}
Closes(how) ==
  /\ how \in Outcomes /\ Ends(how)
  /\ UNCHANGED <<clock, run, others>> /\ upsets' \in 0..MaxUpsets
(* Another scan is needed.                                                   *)
Again ==
  /\ phase = "observing" /\ phase' = "waiting"
  /\ UNCHANGED <<outcome, attempt, seen, watermark, boundary>> /\ ClientOnly
Handshake == Mutated \/ SnapshotRead \/ SnapshotTaken \/ Submit

LEMMA RememberStep ==
  ASSUME TypeOK, NEW i \in DOMAIN wire, NEW again \in BOOLEAN, Remember(i, again)
  PROVE  Closes("incomplete") \/ Learns(wire[i])
<1>1. wire[i] \in Events /\ Listening /\ UNCHANGED <<clock, run, others>>
  BY WireEvents DEF Remember
<1>2. upsets' \in 0..MaxUpsets
  <2>1. upsets \in 0..MaxUpsets /\ (UNCHANGED upsets \/ Upset)
    BY DEF Remember, TypeOK
  <2> QED BY <2>1, ScanAssumption DEF Upset
<1>3. CASE seen[wire[i].id].row.status \in Terminal /\ wire[i].row.status # seen[wire[i].id].row.status
  <2>1. Ends("incomplete")
    BY <1>3 DEF Remember
  <2> QED BY <1>1, <1>2, <2>1 DEF Closes, Outcomes
<1>4. CASE ~(seen[wire[i].id].row.status \in Terminal /\ wire[i].row.status # seen[wire[i].id].row.status)
  <2>1. /\ wire' = IF again THEN wire ELSE RemoveAt(wire, i)
        /\ seen' = [seen EXCEPT ![wire[i].id] = Updated(seen[wire[i].id], wire[i])]
        /\ watermark' = WatermarkAfter(wire[i])
        /\ UNCHANGED <<phase, outcome, attempt, boundary>>
    BY <1>4 DEF Remember
  <2>2. WireKept(wire) /\ WireKept(RemoveAt(wire, i))
    BY RemovedAt DEF WireKept, TypeOK
  <2> QED BY <1>1, <1>2, <2>1, <2>2 DEF Learns
<1> QED BY <1>3, <1>4

LEMMA StopsStep ==
  ASSUME TypeOK, NEW how \in Outcomes, Stops(how)
  PROVE  Closes(how)
BY DEF Stops, Closes, TypeOK

LEMMA ClientStep ==
  ASSUME TypeOK, Client
  PROVE  \/ Handshake \/ Posted \/ Again \/ \E how \in Outcomes : Closes(how)
         \/ \E e \in Events : Learns(e)
<1>1. ASSUME NEW i \in DOMAIN wire, NEW again \in BOOLEAN, Remember(i, again)
      PROVE  (\E how \in Outcomes : Closes(how)) \/ \E e \in Events : Learns(e)
  BY <1>1, RememberStep, WireEvents DEF Outcomes
<1>2. CASE GiveUp \/ TwoCandidates \/ Fails
  <2>1. \E how \in Outcomes : Stops(how)
    BY <1>2 DEF GiveUp, TwoCandidates, Fails, Outcomes
  <2> QED BY <2>1, StopsStep
<1>3. ASSUME NEW r \in Runs, CandidateEnded(r)
      PROVE  Again \/ \E how \in Outcomes : Closes(how)
  <2>1. Again \/ \E how \in Outcomes : Stops(how)
    BY <1>3 DEF CandidateEnded, Again, Outcomes
  <2> QED BY <2>1, StopsStep
<1>4. CASE OnlyABarrier
  BY <1>4 DEF OnlyABarrier, Again
<1> QED BY <1>1, <1>2, <1>3, <1>4 DEF Client, Handshake

LEMMA PostedStep ==
  ASSUME TypeOK, RunsOK, ClockCounted, Posted
  PROVE  /\ phase = "posting" /\ phase' = "observing"
         /\ UNCHANGED <<others, outcome, attempt, seen, watermark, boundary>>
         /\ \/ FileIsScanned /\ UNCHANGED <<clock, run, wire, upsets>>
            \/ \E r \in Runs : run[r] = NoRun /\ Change(r, Accepted("file"))
<1>1. ASSUME ~FileIsScanned, Ticks, NEW r \in Runs, run[r] = NoRun, Becomes(r, Accepted("file"))
      PROVE  Change(r, Accepted("file"))
  <2>1. GoesOn(r, Accepted("file"))
    BY <1>1 DEF GoesOn, Modes
  <2> QED BY <1>1, <2>1, ScanChanges
<1> QED BY <1>1 DEF Posted

-----------------------------------------------------------------------------
(* Types.                                                                    *)

Phases == {"before", "connecting", "snapshot", "waiting", "posting", "observing", "done"}
SiloTyped ==
  /\ clock \in Times /\ run \in [Runs -> Rows] /\ wire \in Seq(Events)
  /\ others \in 0..MaxOthers /\ upsets \in 0..MaxUpsets
ClientTyped ==
  /\ phase \in Phases /\ outcome \in {"none"} \cup Outcomes
  /\ attempt \in 0..PostLimit /\ seen \in [Runs -> Observed]
  /\ watermark \in Times /\ boundary \in Times
SeenCovered == Listening => \A r \in Known : CoveredBy(seen[r], watermark)

LEMMA TypeParts ==
  /\ TypeOK <=> SiloTyped /\ ClientTyped /\ SeenCovered
  /\ TypeOK' <=> SiloTyped' /\ ClientTyped' /\ SeenCovered'
BY DEF TypeOK, SiloTyped, ClientTyped, SeenCovered, CoveredBy, Phases, Outcomes

LEMMA SeenClient ==
  ASSUME TypeOK, UNCHANGED clientVars
  PROVE  ClientTyped' /\ SeenCovered'
BY TypeParts DEF clientVars, ClientTyped, SeenCovered, CoveredBy, Listening, Known

LEMMA SeenNothing ==
  ASSUME TypeOK, NEW how \in Outcomes, Closes(how)
  PROVE  TypeOK'
<1>1. SiloTyped'
  <2>1. <<>> \in Seq(Events)
    BY EmptySeq
  <2> QED BY <2>1, TypeParts DEF SiloTyped, Closes, Ends
<1>2. ClientTyped'
  <2>1. 0 \in Times /\ 0 \in 0..PostLimit /\ NothingSeen \in [Runs -> Observed]
    BY Numbers, ScanRecords, ScanAssumption DEF NothingSeen
  <2> QED BY <2>1 DEF ClientTyped, Closes, Ends, Phases
<1>3. SeenCovered'
  BY DEF SeenCovered, Listening, Closes, Ends
<1> QED BY <1>1, <1>2, <1>3, TypeParts

LEMMA HandshakeTyped ==
  ASSUME TypeOK, RunsOK, SnapshotOK, Handshake
  PROVE  TypeOK'
<1>1. SiloTyped /\ ClientTyped /\ SeenCovered
  BY TypeParts
<1>2. SiloTyped'
  BY <1>1 DEF SiloTyped, Handshake, Mutated, SnapshotRead, SnapshotTaken, Submit, ClientOnly,
     siloVars
<1>3. CASE Mutated
  BY <1>1, <1>2, <1>3, TypeParts DEF Mutated, ClientTyped, SeenCovered, Listening, Phases
<1>4. CASE SnapshotRead
  <2>1. \A r \in Runs : [Unseen EXCEPT !.row = run[r], !.ambiguous = TRUE] \in Observed
    BY <1>1, ScanRecords DEF SiloTyped, Observed, Unseen
  <2>2. seen' \in [Runs -> Observed]
    BY <1>4, <2>1, ScanRecords DEF SnapshotRead
  <2> QED BY <1>1, <1>2, <1>4, <2>2, TypeParts DEF SnapshotRead, ClientTyped, SeenCovered,
      Listening, Phases
<1>5. CASE SnapshotTaken
  <2>1. ClientTyped'
    BY <1>1, <1>5 DEF SnapshotTaken, ClientTyped, SiloTyped, Phases
  <2>2. SeenCovered'
    BY <1>5 DEF SnapshotTaken, SeenCovered, SnapshotOK, CoveredBy, Known
  <2> QED BY <1>2, <2>1, <2>2, TypeParts
<1>6. CASE Submit
  <2>1. /\ \A r \in Runs : [seen[r] EXCEPT !.fresh = FALSE] \in Observed
        /\ \A r \in Runs : [seen[r] EXCEPT !.fresh = FALSE].row = seen[r].row
        /\ \A r \in Runs : [seen[r] EXCEPT !.fresh = FALSE].last = seen[r].last
    BY <1>1 DEF ClientTyped, Observed
  <2>2. ClientTyped'
    <3>1. attempt + 1 \in 0..PostLimit
      BY <1>1, <1>6, ScanAssumption DEF Submit, ClientTyped
    <3> QED BY <1>1, <1>6, <2>1, <3>1 DEF Submit, ClientTyped, Phases
  <2>3. ASSUME NEW r \in Runs, seen'[r] # Unseen PROVE CoveredBy(seen'[r], watermark')
    <3>1. seen'[r] = [seen[r] EXCEPT !.fresh = FALSE] /\ watermark' = watermark
      BY <1>6 DEF Submit
    <3>2. CASE seen[r] = Unseen
      BY <2>1, <3>1, <3>2, ScanRecords DEF CoveredBy
    <3>3. CASE seen[r] # Unseen
      <4>1. CoveredBy(seen[r], watermark)
        BY <1>1, <1>6, <3>3 DEF SeenCovered, Listening, Submit, Known
      <4>2. seen'[r].row = seen[r].row /\ seen'[r].last = seen[r].last
        BY <2>1, <3>1
      <4> QED BY <3>1, <4>1, <4>2 DEF CoveredBy
    <3> QED BY <3>2, <3>3
  <2> QED BY <1>2, <2>2, <2>3, TypeParts DEF SeenCovered, Known
<1> QED BY <1>3, <1>4, <1>5, <1>6 DEF Handshake

LEMMA LearnsTyped ==
  ASSUME TypeOK, NEW e \in Events, Learns(e)
  PROVE  TypeOK'
<1>1. SiloTyped /\ ClientTyped /\ SeenCovered
  BY TypeParts
<1>2. SiloTyped'
  BY <1>1 DEF SiloTyped, Learns, WireKept
<1>3. /\ e.id \in Runs /\ seen[e.id] \in Observed
      /\ seen' = [seen EXCEPT ![e.id] = Updated(seen[e.id], e)]
      /\ watermark' = WatermarkAfter(e) /\ phase' = phase /\ Listening
  BY <1>1 DEF Events, ClientTyped, Learns
<1>4. seen' \in [Runs -> Observed] /\ watermark' \in Times
  BY <1>1, <1>3, UpdatedRecord, Watermarks DEF ClientTyped
<1>5. ClientTyped'
  BY <1>1, <1>4 DEF ClientTyped, Learns
<1>6. ASSUME NEW r \in Runs, seen'[r] # Unseen PROVE CoveredBy(seen'[r], watermark')
  <2>1. CASE r = e.id
    BY <1>1, <1>3, <2>1, UpdatedRecord DEF ClientTyped
  <2>2. CASE r # e.id
    <3>1. seen'[r] = seen[r]
      BY <1>1, <1>3, <2>2 DEF ClientTyped
    <3>2. CoveredBy(seen[r], watermark)
      BY <1>1, <1>3, <1>6, <3>1 DEF SeenCovered, Known
    <3>3. watermark \in Nat /\ watermark' \in Nat /\ watermark <= watermark' /\ seen[r] \in Observed
      BY <1>1, <1>3, <1>4, Watermarks, Numbers DEF ClientTyped
    <3> QED BY <3>1, <3>2, <3>3, CoveredKept
  <2> QED BY <2>1, <2>2
<1> QED BY <1>2, <1>5, <1>6, TypeParts DEF SeenCovered, Known

LEMMA ChangeTyped ==
  ASSUME TypeOK, NEW r \in Runs, NEW row, Change(r, row), others' \in 0..MaxOthers
  PROVE  SiloTyped'
<1>1. run' \in [Runs -> Rows]
  BY DEF TypeOK, Change, Becomes
<1> QED BY <1>1, EventSaid DEF SiloTyped, Change

LEMMA NextTyped ==
  ASSUME TypeOK, RunsOK, ClockCounted, SnapshotOK, Next
  PROVE  TypeOK'
<1>0. SiloTyped /\ ClientTyped /\ SeenCovered
  BY TypeParts
<1>1. CASE ScanStep
  BY <1>1, EveryScanStep, ChangeTyped, SeenClient, TypeParts
<1>2. ASSUME NEW i \in DOMAIN wire, EventIsLost(i) \/ EventsAreLate(i) PROVE TypeOK'
  <2>1. wire' \in Seq(Events)
    BY <1>2, LateEvents, RemovedAt DEF EventIsLost, WireKept
  <2>2. UNCHANGED <<clock, run, others, clientVars>> /\ upsets' \in 0..MaxUpsets
    BY <1>0, <1>2, ScanAssumption DEF EventIsLost, EventsAreLate, Upset, SiloTyped
  <2>3. SiloTyped'
    BY <1>0, <2>1, <2>2 DEF SiloTyped
  <2> QED BY <2>2, <2>3, SeenClient, TypeParts
<1>3. CASE Posted
  <2>1. SiloTyped'
    <3>1. CASE UNCHANGED <<clock, run, wire, upsets, others>>
      BY <1>0, <3>1 DEF SiloTyped
    <3>2. others' \in 0..MaxOthers
      BY <1>0, <1>3, PostedStep DEF SiloTyped
    <3> QED BY <1>3, <3>1, <3>2, PostedStep, ChangeTyped
  <2>2. ClientTyped' /\ SeenCovered'
    BY <1>0, <1>3, PostedStep DEF ClientTyped, SeenCovered, CoveredBy, Known, Listening, Phases
  <2> QED BY <2>1, <2>2, TypeParts
<1>4. CASE Again
  <2>1. SiloTyped'
    BY <1>0, <1>4 DEF Again, SiloTyped, ClientOnly, siloVars
  <2>2. ClientTyped' /\ SeenCovered'
    BY <1>0, <1>4 DEF Again, ClientTyped, SeenCovered, CoveredBy, Known, Listening, Phases
  <2> QED BY <2>1, <2>2, TypeParts
<1> QED BY <1>1, <1>2, <1>3, <1>4, HandshakeTyped, SeenNothing, LearnsTyped, ClientStep DEF Next,
    Silo, ScanStep

-----------------------------------------------------------------------------
(* The clock, and the snapshot.                                              *)

(* A step that changes no scan: the clock rests too.                         *)
LEMMA RestStep ==
  ASSUME TypeOK, RunsOK, ClockCounted, Next
  PROVE  \/ UNCHANGED <<clock, run>>
         \/ \E r \in Runs : \E row : Change(r, row)
<1>1. CASE Client
  <2>1. CASE Handshake \/ Again
    BY <2>1 DEF Handshake, Mutated, SnapshotRead, SnapshotTaken, Submit, Again, ClientOnly, siloVars
  <2>2. CASE \E how \in Outcomes : Closes(how)
    BY <2>2 DEF Closes
  <2>3. CASE \E e \in Events : Learns(e)
    BY <2>3 DEF Learns
  <2>4. CASE Posted
    BY <2>4, PostedStep
  <2> QED BY <1>1, <2>1, <2>2, <2>3, <2>4, ClientStep
<1>2. CASE Silo
  <2>1. CASE ScanStep
    BY <2>1, EveryScanStep
  <2> QED BY <1>2, <2>1 DEF Silo, ScanStep, EventIsLost, EventsAreLate
<1> QED BY <1>1, <1>2 DEF Next

LEMMA RunsStep ==
  ASSUME TypeOK, RunsOK, ClockCounted, Next
  PROVE  RunsOK' /\ ClockCounted'
<1>1. CASE UNCHANGED <<clock, run>>
  BY <1>1 DEF RunsOK, RowOK, ClockCounted, Asked, Started, Completed
<1>2. ASSUME NEW r \in Runs, NEW row, Change(r, row) PROVE RunsOK' /\ ClockCounted'
  BY <1>2, RunsChange, ClockChange
<1> QED BY <1>1, <1>2, RestStep

LEMMA SnapshotStep ==
  ASSUME TypeOK, RunsOK, ClockCounted, SnapshotOK, Next
  PROVE  SnapshotOK'
<1> SUFFICES ASSUME phase' = "snapshot", NEW r \in Runs PROVE CoveredBy(seen'[r], clock')
  BY DEF SnapshotOK, CoveredBy
<1>0. clock \in Nat /\ clock' \in Nat /\ clock <= clock' /\ seen[r] \in Observed
  <2>1. clock \in Times /\ clock \in Nat
    BY Numbers DEF TypeOK
  <2>2. clock' = clock \/ (clock' \in Times /\ clock <= clock')
    BY RestStep DEF Change
  <2>3. clock' \in Nat
    BY <2>1, <2>2, Numbers
  <2>4. clock <= clock'
    BY <2>1, <2>2
  <2>5. seen[r] \in Observed
    BY DEF TypeOK
  <2> QED BY <2>1, <2>3, <2>4, <2>5
<1>1. CASE SnapshotRead
  <2>1. seen'[r] = IF run[r].status \in Active THEN [Unseen EXCEPT !.row = run[r], !.ambiguous = TRUE]
                                               ELSE Unseen
    BY <1>1 DEF SnapshotRead
  <2>2. [Unseen EXCEPT !.row = run[r], !.ambiguous = TRUE].row = run[r]
        /\ [Unseen EXCEPT !.row = run[r], !.ambiguous = TRUE].last = Never
    BY DEF Unseen
  <2>3. RowOK(run[r], clock) /\ clock' = clock
    BY <1>1 DEF RunsOK, SnapshotRead, ClientOnly, siloVars
  <2> QED BY <2>1, <2>2, <2>3, ScanRecords DEF CoveredBy, RowOK
<1>2. CASE phase = "snapshot" /\ seen' = seen
  BY <1>0, <1>2, CoveredKept DEF SnapshotOK, CoveredBy
<1>3. CASE Client
  <2>1. CASE Handshake
    BY <1>1, <2>1 DEF Handshake, Mutated, SnapshotTaken, Submit
  <2>2. ~Posted /\ ~Again /\ (\A how \in Outcomes : ~Closes(how)) /\ \A e \in Events : ~Learns(e)
    BY DEF Posted, Again, Closes, Ends, Learns, Listening
  <2> QED BY <1>3, <2>1, <2>2, ClientStep
<1>4. CASE Silo
  <2>1. UNCHANGED clientVars
    BY <1>4 DEF Silo, OthersAsk, ScanStarts, ScanEnds, EventIsLost, EventsAreLate
  <2> QED BY <1>2, <2>1 DEF clientVars
<1> QED BY <1>3, <1>4 DEF Next

-----------------------------------------------------------------------------
(* What the client was told of a scan.                                       *)

LEMMA ToldKept ==
  ASSUME TypeOK, RunsOK, NEW r \in Runs, NEW row, Change(r, row),
         NEW q \in Runs, NEW old, Told(old, run[q])
  PROVE  Told(old, run'[q])
<1>1. CASE q # r
  BY <1>1, ChangedScan
<1>2. CASE q = r
  <2>1. /\ run'[r] = row /\ row.status # "none" /\ run[r].status \notin Terminal
        /\ run[r].status # "none" => row.mode = run[r].mode
        /\ run[r].started # Never => row.started = run[r].started
    BY ChangedScan
  <2> QED BY <1>2, <2>1 DEF Told
<1> QED BY <1>1, <1>2

LEMMA ToldNow ==
  ASSUME TypeOK, RunsOK, NEW r \in Runs, NEW row, Change(r, row)
  PROVE  Told(row, run'[r])
BY ChangedScan DEF Told

LEMMA SubmitSeen ==
  ASSUME TypeOK, Submit, NEW r \in Runs
  PROVE  seen'[r].row = seen[r].row /\ (seen[r] = Unseen => seen'[r] = Unseen)
<1>1. seen'[r] = [seen[r] EXCEPT !.fresh = FALSE] /\ seen[r] \in Observed
  BY DEF Submit, TypeOK
<1>2. Unseen.fresh = FALSE /\ Unseen \in Observed
  BY ScanRecords DEF Unseen
<1>3. [Unseen EXCEPT !.fresh = FALSE] = Unseen
  BY <1>2 DEF Observed
<1> QED BY <1>1, <1>3 DEF Observed

LEMMA WireAfterChange ==
  ASSUME TypeOK, RunsOK, WireTold, NEW r \in Runs, NEW row, Change(r, row)
  PROVE  WireTold'
<1> SUFFICES ASSUME NEW j \in DOMAIN wire' PROVE Told(wire'[j].row, run'[wire'[j].id])
  BY DEF WireTold
<1>1. CASE j \in DOMAIN wire /\ wire'[j] = wire[j]
  <2>1. wire[j].id \in Runs /\ Told(wire[j].row, run[wire[j].id])
    BY <1>1, WireEvents DEF WireTold, Events
  <2> QED BY <1>1, <2>1, ToldKept
<1>2. CASE wire'[j].id = r /\ wire'[j].row = row
  BY <1>2, ToldNow
<1> QED BY <1>1, <1>2, EventSaid

LEMMA SeenAfterChange ==
  ASSUME TypeOK, RunsOK, SeenTold, NEW r \in Runs, NEW row, Change(r, row), seen' = seen
  PROVE  SeenTold'
BY ToldKept DEF SeenTold, Known

LEMMA WireAfterLoss ==
  ASSUME TypeOK, WireTold, WireKept(wire'), run' = run
  PROVE  WireTold'
BY DEF WireTold, WireKept

LEMMA EvidenceStep ==
  ASSUME TypeOK, RunsOK, ClockCounted, Evidence, Next
  PROVE  Evidence'
<1>0. WireTold /\ (Sighted => SeenTold)
  BY DEF Evidence
<1>1. CASE ScanStep
  <2>1. PICK r \in Runs : \E row : Change(r, row)
    BY <1>1, EveryScanStep
  <2>2. seen' = seen /\ phase' = phase
    BY <1>1, EveryScanStep DEF clientVars
  <2> QED BY <1>0, <2>1, <2>2, WireAfterChange, SeenAfterChange DEF Evidence, Sighted
<1>2. ASSUME NEW i \in DOMAIN wire, EventIsLost(i) \/ EventsAreLate(i) PROVE Evidence'
  <2>1. WireKept(wire') /\ UNCHANGED <<run, seen, phase>>
    BY <1>2, LateEvents, RemovedAt DEF EventIsLost, EventsAreLate, clientVars
  <2> QED BY <1>0, <2>1, WireAfterLoss DEF Evidence, Sighted, SeenTold, Known
<1>3. ASSUME NEW how \in Outcomes, Closes(how) PROVE Evidence'
  BY <1>3 DEF Closes, Ends, Evidence, WireTold, Sighted
<1>4. ASSUME NEW e \in Events, Learns(e) PROVE Evidence'
  <2>1. WireTold'
    BY <1>0, <1>4, WireAfterLoss DEF Learns
  <2>2. /\ SeenTold /\ run' = run /\ e.id \in Runs /\ Told(e.row, run[e.id])
        /\ seen' = [seen EXCEPT ![e.id] = Updated(seen[e.id], e)] /\ seen \in [Runs -> Observed]
    BY <1>0, <1>4 DEF Learns, Listening, Sighted, WireTold, Events, TypeOK
  <2>3. Updated(seen[e.id], e).row = e.row
    BY <2>2, UpdatedRecord
  <2>4. SeenTold'
    BY <2>2, <2>3 DEF SeenTold, Known
  <2> QED BY <2>1, <2>4 DEF Evidence
<1>5. CASE Posted
  <2>1. seen' = seen /\ phase = "posting"
    BY <1>5, PostedStep
  <2>2. CASE UNCHANGED <<run, wire>>
    BY <1>0, <2>1, <2>2 DEF Evidence, WireTold, SeenTold, Known, Sighted
  <2>3. ASSUME NEW r \in Runs, Change(r, Accepted("file")) PROVE Evidence'
    BY <1>0, <2>1, <2>3, WireAfterChange, SeenAfterChange DEF Evidence, Sighted
  <2> QED BY <1>5, <2>2, <2>3, PostedStep
<1>6. CASE Handshake \/ Again
  <2>1. UNCHANGED <<run, wire>>
    BY <1>6 DEF Handshake, Mutated, SnapshotRead, SnapshotTaken, Submit, Again, ClientOnly, siloVars
  <2>2. WireTold'
    BY <1>0, <2>1 DEF WireTold
  <2>3. CASE Mutated
    BY <2>2, <2>3 DEF Evidence, Mutated, Sighted
  <2>4. CASE SnapshotRead
    <3>1. ASSUME NEW r \in Runs, seen'[r] # Unseen PROVE Told(seen'[r].row, run[r])
      <4>1. /\ run[r].status \in Active
            /\ seen'[r] = [Unseen EXCEPT !.row = run[r], !.ambiguous = TRUE]
        BY <2>4, <3>1 DEF SnapshotRead
      <4>2. seen'[r].row = run[r]
        BY <4>1 DEF Unseen
      <4> QED BY <4>1, <4>2 DEF Told, Active
    <3> QED BY <2>1, <2>2, <3>1 DEF Evidence, SeenTold, Known
  <2>5. CASE SnapshotTaken \/ Again
    BY <1>0, <2>1, <2>2, <2>5 DEF Evidence, SnapshotTaken, Again, SeenTold, Known, Sighted
  <2>6. CASE Submit
    <3>1. \A r \in Runs : seen'[r].row = seen[r].row /\ (seen[r] = Unseen => seen'[r] = Unseen)
      BY <2>6, SubmitSeen
    <3> QED BY <1>0, <2>1, <2>2, <2>6, <3>1 DEF Evidence, SeenTold, Known, Sighted, Submit
  <2> QED BY <1>6, <2>3, <2>4, <2>5, <2>6 DEF Handshake
<1> QED BY <1>1, <1>2, <1>3, <1>4, <1>5, <1>6, ClientStep DEF Next, Silo, ScanStep

-----------------------------------------------------------------------------
(* The boundary.                                                             *)

LEMMA BlindBefore ==
  ASSUME TypeOK, RunsOK, NEW r \in Runs, NEW row, Change(r, row), phase # "before",
         NEW q \in Runs, Blind(q)'
  PROVE  Blind(q) /\ run'[q].started = run[q].started
<1>1. CASE q # r
  BY <1>1, ChangedScan DEF Blind
<1>2. CASE q = r
  <2>1. row.started # Never /\ ~row.sees
    BY <1>2, ChangedScan DEF Blind
  <2>2. run[r].started # Never
    BY <2>1, ChangedScan
  <2> QED BY <1>2, <2>1, <2>2, ChangedScan DEF Blind
<1> QED BY <1>1, <1>2

LEMMA BoundaryKept ==
  ASSUME TypeOK, RunsOK, ClockCounted, BoundaryOK, Next,
         phase \in {"waiting", "posting", "observing"},
         NEW q \in Runs, Blind(q)'
  PROVE  Blind(q) /\ run'[q].started = run[q].started
<1>1. CASE UNCHANGED <<clock, run>>
  BY <1>1 DEF Blind
<1> QED BY <1>1, RestStep, BlindBefore

LEMMA BoundaryStep ==
  ASSUME TypeOK, RunsOK, ClockCounted, BoundaryOK, Next
  PROVE  BoundaryOK'
<1>0. /\ watermark \in Nat /\ boundary \in Nat /\ \A r \in Runs : run[r].started \in Nat
  BY Numbers DEF TypeOK, Rows, Stamps
<1>1. CASE phase' = phase /\ watermark' = watermark /\ boundary' = boundary
  BY <1>1, BoundaryKept DEF BoundaryOK
<1>2. CASE Client
  <2>1. CASE Mutated \/ SnapshotRead \/ \E how \in Outcomes : Closes(how)
    BY <2>1 DEF Mutated, SnapshotRead, Closes, Ends, BoundaryOK
  <2>2. CASE SnapshotTaken
    <3>1. run' = run /\ watermark' = clock /\ phase' = "waiting"
      BY <2>2 DEF SnapshotTaken, ClientOnly, siloVars
    <3> QED BY <3>1 DEF BoundaryOK, Blind, RunsOK, RowOK
  <2>3. CASE Submit
    <3>1. run' = run /\ watermark' = watermark /\ boundary' = watermark /\ phase = "waiting"
      BY <2>3 DEF Submit, ClientOnly, siloVars
    <3> QED BY <3>1 DEF BoundaryOK, Blind
  <2>4. CASE Posted \/ Again
    <3>1. /\ phase \in {"posting", "observing"} /\ phase' \in {"waiting", "observing"}
          /\ watermark' = watermark /\ boundary' = boundary
      BY <2>4, PostedStep DEF Again
    <3> QED BY <3>1, BoundaryKept DEF BoundaryOK
  <2>5. ASSUME NEW e \in Events, Learns(e) PROVE BoundaryOK'
    <3>1. /\ run' = run /\ boundary' = boundary /\ phase' = phase
          /\ watermark <= watermark' /\ watermark' \in Nat
      BY <2>5, Watermarks, Numbers DEF Learns
    <3>2. ASSUME NEW r \in Runs, Blind(r), phase \in {"waiting", "posting", "observing"}
          PROVE  run[r].started <= watermark'
      BY <1>0, <3>1, <3>2 DEF BoundaryOK
    <3> QED BY <3>1, <3>2 DEF BoundaryOK, Blind
  <2> QED BY <1>2, <2>1, <2>2, <2>3, <2>4, <2>5, ClientStep DEF Handshake
<1>3. CASE Silo
  BY <1>1, <1>3 DEF Silo, OthersAsk, ScanStarts, ScanEnds, EventIsLost, EventsAreLate, clientVars
<1> QED BY <1>2, <1>3 DEF Next

-----------------------------------------------------------------------------
(* What is confirmed.                                                        *)

LEMMA Confirming ==
  ASSUME TypeOK, Next, outcome = "none", outcome' = "confirmed"
  PROVE  /\ run' = run /\ phase = "observing"
         /\ \E r \in Runs : Candidates = {r} /\ seen[r].row.status = "clean" /\ Proven(r)
<1>1. CASE Silo
  BY <1>1 DEF Silo, OthersAsk, ScanStarts, ScanEnds, EventIsLost, EventsAreLate, clientVars
<1>2. ASSUME NEW r \in Runs, CandidateEnded(r)
      PROVE  /\ run' = run /\ phase = "observing"
             /\ \E q \in Runs : Candidates = {q} /\ seen[q].row.status = "clean" /\ Proven(q)
  BY <1>2 DEF CandidateEnded, Stops, Ends
<1>3. ASSUME NEW i \in DOMAIN wire, NEW again \in BOOLEAN, Remember(i, again) PROVE FALSE
  BY <1>3, RememberStep DEF Closes, Ends, Learns
<1> QED BY <1>1, <1>2, <1>3 DEF Next, Client, Mutated, SnapshotRead, SnapshotTaken, Submit, GiveUp,
    Posted, TwoCandidates, OnlyABarrier, Fails, Stops, Ends

LEMMA DoneStep ==
  ASSUME TypeOK, NotYetDone, Next
  PROVE  outcome = "none" /\ NotYetDone'
<1>1. outcome = "none"
  BY DEF Next, NotYetDone
<1>2. CASE Silo
  BY <1>1, <1>2 DEF Silo, OthersAsk, ScanStarts, ScanEnds, EventIsLost, EventsAreLate, clientVars,
     NotYetDone
<1>3. CASE Client
  BY <1>1, <1>3, ClientStep DEF Handshake, Mutated, SnapshotRead, SnapshotTaken, Submit, Posted,
     Again, Closes, Ends, Learns, NotYetDone
<1> QED BY <1>1, <1>2, <1>3 DEF Next

LEMMA ConfirmedStep ==
  ASSUME TypeOK, RunsOK, Evidence, BoundaryOK, NotYetDone, Next
  PROVE  ConfirmedScanSawTheChange'
<1> SUFFICES ASSUME outcome' = "confirmed"
             PROVE  \E r \in Runs : run'[r].mode = "file" /\ run'[r].status = "clean" /\ run'[r].sees
  BY DEF ConfirmedScanSawTheChange
<1>1. /\ run' = run /\ phase = "observing"
      /\ \E r \in Runs : Candidates = {r} /\ seen[r].row.status = "clean" /\ Proven(r)
  BY Confirming, DoneStep
<1>2. PICK r \in Runs : Candidates = {r} /\ seen[r].row.status = "clean" /\ Proven(r)
  BY <1>1
<1>3. r \in Known /\ seen[r].row.mode = "file"
  BY <1>2 DEF Candidates, Fresh
<1>4. seen[r].row.started # Never /\ boundary < seen[r].row.started
  BY <1>2 DEF Proven, Causal
<1>5. Told(seen[r].row, run[r])
  BY <1>1, <1>3 DEF Evidence, SeenTold, Sighted
<1>6. run[r].mode = "file" /\ run[r].status = "clean" /\ run[r].started = seen[r].row.started
  BY <1>2, <1>3, <1>4, <1>5 DEF Told, Terminal
<1>7. boundary \in Nat /\ run[r].started \in Nat
  BY Numbers DEF TypeOK, Rows, Stamps
<1>8. ~Blind(r)
  BY <1>1, <1>4, <1>6, <1>7 DEF BoundaryOK
<1> QED BY <1>1, <1>4, <1>6, <1>8 DEF Blind

-----------------------------------------------------------------------------
(* Undisturbed.                                                              *)

(* The steps of a refresh that nobody disturbs.                              *)
LEMMA CalmSteps ==
  ASSUME TypeOK, Next, Calm'
  PROVE  /\ Calm
         /\ \/ \E r \in Runs : ScanStarts(r) /\ clock' = clock + 1
            \/ \E r \in Runs, status \in Terminal : ScanEnds(r, status) /\ clock' = clock + 1
            \/ 1 \in DOMAIN wire /\ Remember(1, FALSE)
            \/ Handshake \/ Posted \/ GiveUp \/ Fails
            \/ (\E r \in Runs : CandidateEnded(r)) \/ TwoCandidates \/ OnlyABarrier
<1>0. others \in Nat /\ upsets \in Nat /\ others' = 0 /\ upsets' = 0
  BY ScanAssumption DEF TypeOK, Calm
<1>1. ~Upset
  BY <1>0 DEF Upset
<1>2. ASSUME NEW r \in Runs, NEW mode \in Modes PROVE ~OthersAsk(r, mode)
  BY <1>0 DEF OthersAsk
<1>3. ASSUME NEW r \in Runs, ScanStarts(r) PROVE Calm /\ clock' = clock + 1
  BY <1>0, <1>1, <1>3 DEF ScanStarts, Ticks, Calm
<1>4. ASSUME NEW r \in Runs, NEW status \in Terminal, ScanEnds(r, status)
      PROVE  Calm /\ clock' = clock + 1
  BY <1>0, <1>1, <1>4 DEF ScanEnds, Ticks, Calm
<1>5. ASSUME NEW i \in DOMAIN wire PROVE ~EventIsLost(i) /\ ~EventsAreLate(i)
  BY <1>1 DEF EventIsLost, EventsAreLate
<1>6. ASSUME NEW i \in DOMAIN wire, NEW again \in BOOLEAN, Remember(i, again)
      PROVE  Calm /\ i = 1 /\ again = FALSE
  BY <1>0, <1>1, <1>6 DEF Remember, Calm
<1>7. CASE Handshake \/ OnlyABarrier
  BY <1>0, <1>7 DEF Handshake, Mutated, SnapshotRead, SnapshotTaken, Submit, OnlyABarrier,
     ClientOnly,
                    siloVars, Calm
<1>8. CASE Posted
  BY <1>0, <1>1, <1>8 DEF Posted, Ticks, Calm
<1>9. CASE GiveUp \/ Fails \/ TwoCandidates
  BY <1>0, <1>9 DEF GiveUp, Fails, TwoCandidates, Stops, Calm
<1>10. ASSUME NEW r \in Runs, CandidateEnded(r) PROVE Calm
  BY <1>0, <1>10 DEF CandidateEnded, Stops, ClientOnly, siloVars, Calm
<1> QED
  BY <1>2, <1>3, <1>4, <1>5, <1>6, <1>7, <1>8, <1>9, <1>10 DEF Next, Silo, Client, Handshake

(* What the three events of the one scan say.                                *)
LEMMA OwnRows ==
  ASSUME NEW r \in Runs, NEW status \in Terminal
  PROVE  /\ 3 < Never /\ Never \in Nat
         /\ RowAt(1, status) = Accepted("file") /\ RowAt(1, status).mode = "file"
         /\ RowAt(1, status).status = "accepted"
         /\ RowAt(1, status).started = Never /\ RowAt(1, status).completed = Never
         /\ RowAt(2, status).mode = "file" /\ RowAt(2, status).status = "running"
         /\ RowAt(2, status).started = 2 /\ RowAt(2, status).completed = Never
         /\ RowAt(3, status).mode = "file" /\ RowAt(3, status).status = status
         /\ RowAt(3, status).started = 2 /\ RowAt(3, status).completed = 3
<1>1. Cardinality(Runs) # 0 /\ Cardinality(Runs) \in Nat
  BY FS_EmptySet, Numbers, ScanAssumption
<1>2. 3 < Never /\ Never \in Nat
  BY <1>1 DEF Never
<1>3. /\ Accepted("file") \in Rows /\ Accepted("file").mode = "file" /\ Accepted("file").status = "accepted"
      /\ Accepted("file").started = Never /\ Accepted("file").completed = Never
  BY ScanRecords DEF Modes
<1>4. /\ RowAt(2, status).mode = "file" /\ RowAt(2, status).status = "running"
      /\ RowAt(2, status).started = 2 /\ RowAt(2, status).completed = Never
  BY <1>3 DEF RowAt, RunningRow, Rows
<1>5. /\ RowAt(3, status).mode = "file" /\ RowAt(3, status).status = status
      /\ RowAt(3, status).started = 2 /\ RowAt(3, status).completed = 3
  BY <1>3 DEF RowAt, RunningRow, Rows
<1> QED BY <1>2, <1>3, <1>4, <1>5 DEF RowAt

LEMMA OwnHeard ==
  ASSUME NEW r \in Runs, NEW status \in Terminal, NEW d \in 0..3
  PROVE  /\ Heard(d, status).row.status \in Terminal <=> d = 3
         /\ d = 0 <=> Heard(d, status) = Unseen
         /\ d # 0 => /\ Heard(d, status).row = RowAt(d, status) /\ Heard(d, status).fresh
                     /\ Heard(d, status).announced /\ Heard(d, status).since = 1
                     /\ Heard(d, status).last = d /\ ~Heard(d, status).ambiguous
                     /\ Heard(d, status).row.mode = "file"
<1>1. CASE d = 0
  BY <1>1, ScanRecords DEF Heard, Terminal
<1>2. CASE d # 0
  <2>1. /\ Heard(d, status).row = RowAt(d, status) /\ Heard(d, status).fresh
        /\ Heard(d, status).announced /\ Heard(d, status).since = 1
        /\ Heard(d, status).last = d /\ ~Heard(d, status).ambiguous
    BY <1>2 DEF Heard, Announced
  <2>2. Unseen.fresh = FALSE
    BY DEF Unseen
  <2>3. d = 1 \/ d = 2 \/ d = 3
    BY <1>2
  <2>4. RowAt(d, status).mode = "file" /\ (RowAt(d, status).status \in Terminal <=> d = 3)
    BY <2>3, OwnRows DEF Terminal
  <2> QED BY <1>2, <2>1, <2>2, <2>4
<1> QED BY <1>1, <1>2

LEMMA OwnNext ==
  ASSUME NEW status \in Terminal, NEW d \in {1, 2}
  PROVE  Heard(d + 1, status)
           = [Heard(d, status) EXCEPT !.row = RowAt(d + 1, status), !.last = d + 1, !.ambiguous = FALSE]
<1>1. PICK yes, no, a, b : yes = TRUE /\ no = FALSE /\ a = RowAt(d, status) /\ b = RowAt(d + 1, status)
  BY Zenon
<1>2. d # 0 /\ d + 1 # 0
  OBVIOUS
<1>3. /\ Heard(d, status) = Announced(a, yes, d, no)
      /\ Heard(d + 1, status) = Announced(b, yes, d + 1, no)
  BY <1>1, <1>2, Zenon DEF Heard
<1>4. [Announced(a, yes, d, no) EXCEPT !.row = b] = Announced(b, yes, d, no)
  BY DEF Announced
<1>5. [Announced(b, yes, d, no) EXCEPT !.last = d + 1] = Announced(b, yes, d + 1, no)
  BY DEF Announced
<1>6. [Announced(b, yes, d + 1, no) EXCEPT !.ambiguous = no] = Announced(b, yes, d + 1, no)
  BY DEF Announced
<1>7. [Announced(a, yes, d, no) EXCEPT !.row = b, !.last = d + 1, !.ambiguous = no]
        = [[[Announced(a, yes, d, no) EXCEPT !.row = b] EXCEPT !.last = d + 1] EXCEPT !.ambiguous = no]
  BY Zenon
<1>8. [Announced(a, yes, d, no) EXCEPT !.row = b, !.last = d + 1, !.ambiguous = no]
        = Announced(b, yes, d + 1, no)
  BY <1>4, <1>5, <1>6, <1>7, Zenon
<1> QED BY <1>1, <1>3, <1>8, Zenon

(* The next event of the one scan is delivered.                              *)
LEMMA OwnUpdated ==
  ASSUME NEW r \in Runs, NEW status \in Terminal, NEW d \in 0..2, NEW e,
         e = [id |-> r, row |-> RowAt(d + 1, status), stamp |-> d + 1], watermark = d
  PROVE  Updated(Heard(d, status), e) = Heard(d + 1, status) /\ WatermarkAfter(e) = d + 1
<1>0. /\ 3 < Never /\ Never \in Nat /\ e.stamp = d + 1 /\ e.row = RowAt(d + 1, status)
      /\ d = 0 \/ d = 1 \/ d = 2
  BY OwnRows
<1>1. CASE d = 0
  <2>1. Heard(d, status) = Unseen
    BY <1>1 DEF Heard
  <2>2. e.stamp = 1 /\ e.row = RowAt(1, status) /\ (e.row.status = "accepted") = TRUE
    BY <1>0, <1>1, OwnRows
  <2>5. Heard(1, status) = [row |-> RowAt(1, status), fresh |-> TRUE, announced |-> TRUE, since |-> 1,
                           last |-> 1, ambiguous |-> FALSE]
    BY DEF Heard, Announced
  <2>6. Updated(Unseen, e) = [row |-> e.row, fresh |-> TRUE, announced |-> e.row.status = "accepted",
                             since |-> e.stamp, last |-> e.stamp, ambiguous |-> FALSE]
    BY Zenon DEF Updated
  <2>3. Updated(Heard(d, status), e) = Heard(1, status)
    BY <2>1, <2>2, <2>5, <2>6, Zenon
  <2>4. WatermarkAfter(e) = 1
    BY <1>0, <1>1, <2>2, OwnRows DEF WatermarkAfter, Later
  <2> QED BY <1>1, <2>3, <2>4
<1>2. CASE d = 1
  <2>1. /\ e.stamp = 2 /\ e.row = RowAt(2, status) /\ e.row.started = 2 /\ e.row.completed = Never
    BY <1>0, <1>2, OwnRows
  <2>2. /\ Heard(1, status) # Unseen /\ Heard(1, status).last = 1
        /\ Heard(1, status).row.started = Never
    BY OwnHeard, OwnRows
  <2>3. Doubtful(Heard(1, status), e) = FALSE
    BY <2>1, <2>2 DEF Doubtful
  <2>6. (Heard(1, status).ambiguous \/ Doubtful(Heard(1, status), e)) = FALSE
    BY <2>3, OwnHeard
  <2>7. Updated(Heard(1, status), e)
          = [Heard(1, status) EXCEPT !.row = RowAt(2, status), !.last = 2, !.ambiguous = FALSE]
    BY <2>1, <2>2, <2>6, Zenon DEF Updated
  <2>8. Heard(1 + 1, status)
          = [Heard(1, status) EXCEPT !.row = RowAt(1 + 1, status), !.last = 1 + 1, !.ambiguous = FALSE]
    BY OwnNext
  <2>9. 1 + 1 = 2
    OBVIOUS
  <2>4. Updated(Heard(1, status), e) = Heard(2, status)
    BY <2>7, <2>8, <2>9, Zenon
  <2>5. WatermarkAfter(e) = 2
    BY <1>0, <1>2, <2>1 DEF WatermarkAfter, Later
  <2> QED BY <1>2, <2>4, <2>5
<1>3. CASE d = 2
  <2>1. /\ e.stamp = 3 /\ e.row = RowAt(3, status) /\ e.row.started = 2 /\ e.row.completed = 3
    BY <1>0, <1>3, OwnRows
  <2>2. /\ Heard(2, status) # Unseen /\ Heard(2, status).last = 2
        /\ Heard(2, status).row.started = 2
    BY OwnHeard, OwnRows
  <2>3. Doubtful(Heard(2, status), e) = FALSE
    BY <2>1, <2>2 DEF Doubtful
  <2>6. (Heard(2, status).ambiguous \/ Doubtful(Heard(2, status), e)) = FALSE
    BY <2>3, OwnHeard
  <2>7. Updated(Heard(2, status), e)
          = [Heard(2, status) EXCEPT !.row = RowAt(3, status), !.last = 3, !.ambiguous = FALSE]
    BY <2>1, <2>2, <2>6, Zenon DEF Updated
  <2>8. Heard(2 + 1, status)
          = [Heard(2, status) EXCEPT !.row = RowAt(2 + 1, status), !.last = 2 + 1, !.ambiguous = FALSE]
    BY OwnNext
  <2>9. 2 + 1 = 3
    OBVIOUS
  <2>4. Updated(Heard(2, status), e) = Heard(3, status)
    BY <2>7, <2>8, <2>9, Zenon
  <2>5. WatermarkAfter(e) = 3
    BY <1>0, <1>3, <2>1 DEF WatermarkAfter, Later
  <2> QED BY <1>3, <2>4, <2>5
<1> QED BY <1>0, <1>1, <1>2, <1>3

LEMMA WireLength ==
  ASSUME TypeOK, NEW n \in Nat, DOMAIN wire = 1..n
  PROVE  Len(wire) = n
<1>1. Len(wire) \in Nat /\ 1..Len(wire) = 1..n
  BY WireEvents
<1>2. (n \in 1..n \/ n = 0) /\ (Len(wire) \in 1..Len(wire) \/ Len(wire) = 0)
  BY <1>1
<1>3. \A m \in 1..n : m <= n
  OBVIOUS
<1>4. \A m \in 1..Len(wire) : m <= Len(wire)
  BY <1>1
<1> QED BY <1>1, <1>2, <1>3, <1>4

(* The one scan goes on.                                                     *)
LEMMA OwnGoesOn ==
  ASSUME TypeOK, NEW r \in Runs, NEW k \in 1..2, NEW d \in 0..k, NEW old \in Terminal, NEW new \in Terminal,
         OwnScan(r, k, d, old), clock' = k + 1, Becomes(r, RowAt(k + 1, new)), UNCHANGED clientVars
  PROVE  OwnScan(r, k + 1, d, new)'
<1> DEFINE Event(j) == [id |-> r, row |-> RowAt(j, new), stamp |-> j]
<1>1. \A j \in 1..2 : RowAt(j, old) = RowAt(j, new)
  BY DEF RowAt
<1>2. Heard(d, old) = Heard(d, new)
  <2>1. d = 0 \/ RowAt(d, old) = RowAt(d, new)
    BY <1>1
  <2> QED BY <2>1, Zenon DEF Heard
<1>3. wire = [i \in 1..(k - d) |-> Event(d + i)]
  <2>1. \A i \in 1..(k - d) : RowAt(d + i, old) = RowAt(d + i, new)
    BY <1>1
  <2> QED BY <2>1 DEF OwnScan
<1>4. wire' = Append(wire, Event(k + 1))
  BY DEF Becomes
<1>5. k - d \in Nat /\ Len(wire) = k - d /\ wire \in Seq(Events)
  <2>1. k - d \in Nat /\ DOMAIN wire = 1..(k - d)
    BY <1>3
  <2> QED BY <2>1, WireLength DEF TypeOK
<1>6. /\ DOMAIN wire' = 1..(k + 1 - d) /\ wire' = [i \in DOMAIN wire' |-> wire'[i]]
      /\ \A i \in 1..(k + 1 - d) : wire'[i] = Event(d + i)
  <2> DEFINE e == Event(k + 1)
             all == Events \cup {e}
  <2>1. wire \in Seq(all) /\ e \in all
    <3>1. \A i \in 1..Len(wire) : wire[i] \in all
      BY WireEvents
    <3>2. wire = [i \in 1..Len(wire) |-> wire[i]]
      BY <1>3, <1>5
    <3> QED BY <1>5, <3>1, <3>2, IsASeq
  <2>2. wire' = Append(wire, e)
    BY <1>4
  <2> HIDE DEF e, all
  <2>3. /\ wire' \in Seq(all) /\ Len(wire') = Len(wire) + 1
        /\ \A i \in 1..Len(wire) : wire'[i] = wire[i]
        /\ wire'[Len(wire) + 1] = e
    BY <2>1, <2>2, AppendProperties
  <2>4. Len(wire') = k + 1 - d /\ k + 1 - d \in Nat
    BY <1>5, <2>3
  <2>5. DOMAIN wire' = 1..(k + 1 - d) /\ wire' = [i \in DOMAIN wire' |-> wire'[i]]
    BY <2>3, <2>4, LenProperties
  <2>6. ASSUME NEW i \in 1..(k + 1 - d) PROVE wire'[i] = Event(d + i)
    <3>1. CASE i \in 1..(k - d)
      BY <1>3, <1>5, <2>3, <3>1
    <3>2. CASE i = k + 1 - d
      <4>1. i = Len(wire) + 1 /\ d + i = k + 1
        BY <1>5, <3>2
      <4> QED BY <2>3, <4>1 DEF e
    <3> QED BY <3>1, <3>2
  <2> QED BY <2>5, <2>6
<1>7. wire' = [i \in 1..(k + 1 - d) |-> Event(d + i)]
  BY <1>6
<1>8. run' = [q \in Runs |-> IF q = r THEN RowAt(k + 1, new) ELSE NoRun]
  BY DEF Becomes, OwnScan
<1>9. watermark' = d /\ seen' = [q \in Runs |-> IF q = r THEN Heard(d, new) ELSE Unseen]
  BY <1>2 DEF OwnScan, clientVars
<1> QED BY <1>7, <1>8, <1>9 DEF OwnScan

(* The next of its events is delivered.                                      *)
LEMMA OwnDelivered ==
  ASSUME TypeOK, NEW r \in Runs, NEW k \in 1..3, NEW d \in 0..k, NEW status \in Terminal,
         OwnScan(r, k, d, status), 1 \in DOMAIN wire, Remember(1, FALSE)
  PROVE  /\ d < k /\ OwnScan(r, k, d + 1, status)'
         /\ UNCHANGED <<phase, outcome, attempt, boundary>>
<1> DEFINE Event(j) == [id |-> r, row |-> RowAt(j, status), stamp |-> j]
<1>1. wire = [i \in 1..(k - d) |-> Event(d + i)] /\ watermark = d /\ clock = k
  BY DEF OwnScan
<1>2. d < k /\ d \in 0..2 /\ d \in 0..3 /\ k - d \in Nat
  BY <1>1
<1>3. Len(wire) = k - d /\ wire[1] = Event(d + 1) /\ wire[1].id = r
  BY <1>1, <1>2, WireLength
<1>4. seen[r] = Heard(d, status) /\ seen[r].row.status \notin Terminal
  BY <1>2, OwnHeard DEF OwnScan
<1>5. /\ wire' = RemoveAt(wire, 1) /\ seen' = [seen EXCEPT ![r] = Updated(Heard(d, status), wire[1])]
      /\ watermark' = WatermarkAfter(wire[1])
      /\ UNCHANGED <<phase, outcome, attempt, boundary, clock, run>>
  BY <1>3, <1>4 DEF Remember
<1>6. watermark' = d + 1 /\ seen' = [seen EXCEPT ![r] = Heard(d + 1, status)]
  <2>1. wire[1] = [id |-> r, row |-> RowAt(d + 1, status), stamp |-> d + 1]
    BY <1>3
  <2>2. Updated(Heard(d, status), wire[1]) = Heard(d + 1, status) /\ WatermarkAfter(wire[1]) = d + 1
    BY <1>1, <1>2, <2>1, OwnUpdated, Zenon
  <2> QED BY <1>5, <2>2, Zenon
<1>7. seen' = [q \in Runs |-> IF q = r THEN Heard(d + 1, status) ELSE Unseen]
  BY <1>6 DEF OwnScan
<1>8. wire' = [i \in 1..(k - (d + 1)) |-> Event((d + 1) + i)]
  <2>1. /\ wire' \in Seq(Events) /\ DOMAIN wire' = 1..(Len(wire) - 1)
        /\ \A i \in 1..(Len(wire) - 1) : wire'[i] = IF i < 1 THEN wire[i] ELSE wire[i + 1]
    BY <1>5, RemovedAt DEF WireKept
  <2>2. DOMAIN wire' = 1..(k - (d + 1)) /\ Len(wire) - 1 = k - (d + 1)
    BY <1>2, <1>3, <2>1
  <2>3. ASSUME NEW i \in 1..(k - (d + 1)) PROVE wire'[i] = Event((d + 1) + i)
    <3>1. i + 1 \in 1..(k - d) /\ d + (i + 1) = (d + 1) + i /\ ~(i < 1)
      BY <1>2
    <3>2. wire'[i] = wire[i + 1]
      BY <2>1, <2>2, <3>1
    <3>3. wire[i + 1] = Event(d + (i + 1))
      BY <1>1, <3>1
    <3> QED BY <3>1, <3>2, <3>3
  <2>4. wire' = [i \in DOMAIN wire' |-> wire'[i]]
    BY <2>1, LenProperties
  <2> QED BY <2>2, <2>3, <2>4
<1>9. run' = [q \in Runs |-> IF q = r THEN RowAt(k, status) ELSE NoRun] /\ clock' = k
  BY <1>1, <1>5 DEF OwnScan
<1> QED BY <1>2, <1>5, <1>6, <1>7, <1>8, <1>9 DEF OwnScan

(* The client's verdict on it: it is the proof when it is clean.             *)
LEMMA OwnVerdict ==
  ASSUME TypeOK, NEW r \in Runs, NEW k \in 1..3, NEW d \in 0..3, NEW status \in Terminal,
         OwnScan(r, k, d, status), boundary = 0
  PROVE  /\ Candidates \subseteq {r} /\ Fresh \subseteq Candidates
         /\ r \in Candidates /\ seen[r].row.status = "clean" => Proven(r)
<1>1. seen[r] = Heard(d, status) /\ \A q \in Runs : q # r => seen[q] = Unseen
  BY DEF OwnScan
<1>2. Known \subseteq {r} /\ (r \in Known => d # 0)
  BY <1>1, OwnHeard DEF Known
<1>3. Candidates \subseteq {r}
  BY <1>2 DEF Candidates, Fresh
<1>4. ASSUME r \in Known PROVE Fresh = {r} /\ Candidates = {r}
  <2>1. /\ seen[r].fresh /\ seen[r].announced /\ seen[r].since = 1 /\ seen[r].row.mode = "file"
    BY <1>1, <1>2, <1>4, OwnHeard
  <2>2. seen[r].since > boundary
    BY <2>1
  <2> QED BY <1>2, <1>4, <2>1, <2>2 DEF Fresh, Candidates
<1>5. Fresh \subseteq Candidates
  BY <1>2, <1>4 DEF Fresh
<1>6. ASSUME r \in Candidates, seen[r].row.status = "clean" PROVE Proven(r)
  <2>1. r \in Known /\ d = 3
    BY <1>1, <1>6, OwnHeard DEF Candidates, Fresh, Terminal
  <2>2. /\ seen[r].row.started = 2 /\ seen[r].row.completed = 3 /\ seen[r].since = 1
        /\ seen[r].last = 3 /\ ~seen[r].ambiguous /\ 3 < Never /\ Never \in Nat
    BY <1>1, <2>1, OwnHeard, OwnRows
  <2>3. Causal(seen[r])
    BY <2>2 DEF Causal
  <2> QED BY <1>4, <2>1, <2>3 DEF Proven
<1> QED BY <1>3, <1>5, <1>6

LEMMA NoScanSteps ==
  ASSUME NoScan
  PROVE  /\ 1 \notin DOMAIN wire
         /\ \A r \in Runs : ~ScanStarts(r) /\ \A status \in Terminal : ~ScanEnds(r, status)
<1>1. \A r \in Runs : run[r].status = "none"
  BY ScanRecords DEF NoScan
<1>2. wire = <<>>
  BY DEF NoScan
<1>3. 1 \notin DOMAIN wire
  <2>1. Len(wire) = 0
    BY <1>2
  <2> QED BY <1>2, <2>1
<1>4. ASSUME NEW r \in Runs PROVE ~ScanStarts(r) /\ \A status \in Terminal : ~ScanEnds(r, status)
  BY <1>1 DEF ScanStarts, ScanEnds
<1> QED BY <1>3, <1>4

(* Silo's steps on the client's scan.                                        *)
LEMMA OwnStarts ==
  ASSUME TypeOK, Calm, Calm', Quiet, phase # "done", NEW r \in Runs, ScanStarts(r), clock' = clock + 1
  PROVE  Quiet'
<1>1. phase = "observing" /\ UNCHANGED clientVars
  BY NoScanSteps DEF Quiet, TypeOK, ScanStarts
<1>2. PICK q \in Runs, k \in 1..3, d \in 0..3, status \in Terminal : d <= k /\ OwnScan(q, k, d, status)
  BY <1>1 DEF Quiet
<1>3. run[r].status = "accepted" /\ run[r] = IF r = q THEN RowAt(k, status) ELSE NoRun
  BY <1>2 DEF ScanStarts, OwnScan
<1>4. r = q /\ k = 1
  BY <1>3, OwnRows, ScanRecords DEF Terminal
<1>5. clock' = 2 /\ run[r] = Accepted("file") /\ d \in 0..1
  BY <1>2, <1>3, <1>4, OwnRows DEF OwnScan
<1>6. (phase # "before") = TRUE
  BY <1>1
<1>7. Becomes(r, RowAt(1 + 1, status))
  <2>1. Becomes(r, RunningRow)
    BY <1>5, <1>6, Zenon DEF ScanStarts, RunningRow
  <2>2. RowAt(1 + 1, status) = RunningRow
    BY DEF RowAt
  <2> QED BY <2>1, <2>2
<1>8. OwnScan(r, 1 + 1, d, status)'
  BY <1>1, <1>2, <1>4, <1>5, <1>7, OwnGoesOn
<1> QED BY <1>1, <1>5, <1>8 DEF Quiet, clientVars

LEMMA OwnEnds ==
  ASSUME TypeOK, Calm, Calm', Quiet, phase # "done", NEW r \in Runs, NEW new \in Terminal,
         ScanEnds(r, new), clock' = clock + 1
  PROVE  Quiet'
<1>1. phase = "observing" /\ UNCHANGED clientVars
  BY NoScanSteps DEF Quiet, TypeOK, ScanEnds
<1>2. PICK q \in Runs, k \in 1..3, d \in 0..3, status \in Terminal : d <= k /\ OwnScan(q, k, d, status)
  BY <1>1 DEF Quiet
<1>3. run[r].status = "running" /\ run[r] = IF r = q THEN RowAt(k, status) ELSE NoRun
  BY <1>2 DEF ScanEnds, OwnScan
<1>4. r = q /\ k = 2
  BY <1>3, OwnRows, ScanRecords DEF Terminal
<1>5. clock' = 3 /\ run[r] = RunningRow /\ d \in 0..2
  BY <1>2, <1>3, <1>4 DEF OwnScan, RowAt
<1>6. Becomes(r, RowAt(2 + 1, new))
  <2>1. Becomes(r, [RunningRow EXCEPT !.status = new, !.completed = 3])
    BY <1>5, Zenon DEF ScanEnds
  <2>2. RowAt(2 + 1, new) = [RunningRow EXCEPT !.status = new, !.completed = 3]
    BY DEF RowAt
  <2> QED BY <2>1, <2>2
<1>7. OwnScan(r, 2 + 1, d, new)'
  BY <1>1, <1>2, <1>4, <1>5, <1>6, OwnGoesOn
<1> QED BY <1>1, <1>5, <1>7 DEF Quiet, clientVars

(* Its scan is accepted: nobody else scans the file.                         *)
LEMMA OwnPosted ==
  ASSUME TypeOK, Calm, Calm', Quiet, Posted
  PROVE  Quiet'
<1>1. /\ phase = "posting" /\ phase' = "observing" /\ NoScan /\ boundary = 0 /\ boundary' = 0
      /\ UNCHANGED <<outcome, seen, watermark>> /\ outcome # "incomplete"
  BY DEF Posted, Quiet
<1>2. ~FileIsScanned
  BY <1>1, ScanRecords DEF NoScan, FileIsScanned, Active
<1>3. PICK r \in Runs : Ticks /\ Becomes(r, Accepted("file"))
  BY <1>2 DEF Posted
<1>4. clock' = 1
  BY <1>1, <1>3 DEF Ticks, Upset, Calm, NoScan
<1>5. run' = [q \in Runs |-> IF q = r THEN RowAt(1, "clean") ELSE NoRun]
  BY <1>1, <1>3 DEF NoScan, Becomes, RowAt
<1>6. seen' = [q \in Runs |-> IF q = r THEN Heard(0, "clean") ELSE Unseen] /\ watermark' = 0
  BY <1>1 DEF NoScan, NothingSeen, Heard
<1>7. wire' = [i \in 1..(1 - 0) |-> [id |-> r, row |-> RowAt(0 + i, "clean"), stamp |-> 0 + i]]
  <2> DEFINE e == [id |-> r, row |-> RowAt(1, "clean"), stamp |-> 1]
  <2>1. wire' = Append(<<>>, e)
    BY <1>1, <1>3, <1>4 DEF NoScan, Becomes, RowAt
  <2>2. wire' = <<e>>
    BY <2>1
  <2>3. wire' = [i \in 1..1 |-> e]
    BY <2>2
  <2>4. \A i \in 1..1 : [id |-> r, row |-> RowAt(0 + i, "clean"), stamp |-> 0 + i] = e
    OBVIOUS
  <2> QED BY <2>3, <2>4
<1>8. OwnScan(r, 1, 0, "clean")'
  BY <1>4, <1>5, <1>6, <1>7 DEF OwnScan
<1> QED BY <1>1, <1>8 DEF Quiet, Terminal

(* The client's own steps, up to the submission.                             *)
LEMMA OwnHandshake ==
  ASSUME TypeOK, Calm, Calm', Quiet, Handshake
  PROVE  Quiet'
<1>1. NoScan /\ attempt = 0 /\ outcome # "incomplete"
  BY DEF Handshake, Mutated, SnapshotRead, SnapshotTaken, Submit, Quiet
<1>2. UNCHANGED <<clock, run, wire, outcome>>
  BY DEF Handshake, Mutated, SnapshotRead, SnapshotTaken, Submit, ClientOnly, siloVars
<1>3. CASE Mutated
  BY <1>1, <1>2, <1>3 DEF Mutated, Quiet, NoScan
<1>4. CASE SnapshotRead
  <2>1. \A r \in Runs : run[r].status \notin Active
    BY <1>1, ScanRecords DEF NoScan, Active
  <2>2. seen' = NothingSeen
    BY <1>4, <2>1 DEF SnapshotRead, NothingSeen
  <2> QED BY <1>1, <1>2, <1>4, <2>2 DEF SnapshotRead, Quiet, NoScan
<1>5. CASE SnapshotTaken
  BY <1>1, <1>2, <1>5 DEF SnapshotTaken, Quiet, NoScan
<1>6. CASE Submit
  <2>1. \A r \in Runs : seen[r] = Unseen /\ seen'[r] = Unseen
    BY <1>1, <1>6, SubmitSeen DEF NoScan, NothingSeen
  <2>2. seen' = [r \in Runs |-> seen'[r]]
    BY <1>6 DEF Submit
  <2>3. seen' = NothingSeen
    BY <2>1, <2>2 DEF NothingSeen
  <2> QED BY <1>1, <1>2, <1>6, <2>3 DEF Submit, Quiet, NoScan
<1> QED BY <1>3, <1>4, <1>5, <1>6 DEF Handshake

(* Its verdict: no other scan is in doubt.                                   *)
LEMMA OwnVerdicts ==
  ASSUME TypeOK, Calm, Calm', Quiet,
         GiveUp \/ Fails \/ (\E r \in Runs : CandidateEnded(r)) \/ TwoCandidates \/ OnlyABarrier
  PROVE  Quiet'
<1>1. ~GiveUp
  BY ScanAssumption DEF GiveUp, Quiet
<1>2. CASE Fails
  BY <1>2 DEF Fails, Stops, Ends, Quiet
<1>3. CASE ~Fails
  <2>1. phase = "observing" /\ boundary = 0
    BY <1>1, <1>3 DEF CandidateEnded, TwoCandidates, OnlyABarrier, Quiet
  <2>2. PICK q \in Runs, k \in 1..3, d \in 0..3, status \in Terminal : d <= k /\ OwnScan(q, k, d, status)
    BY <2>1 DEF Quiet
  <2>3. /\ Candidates \subseteq {q} /\ Fresh \subseteq Candidates
        /\ q \in Candidates /\ seen[q].row.status = "clean" => Proven(q)
    BY <2>1, <2>2, OwnVerdict
  <2>4. ~OnlyABarrier
    BY <2>3 DEF OnlyABarrier
  <2>5. ~TwoCandidates
    <3>1. IsFiniteSet({q}) /\ Cardinality({q}) = 1
      BY FS_Singleton
    <3>2. Cardinality(Candidates) <= 1 /\ IsFiniteSet(Candidates)
      BY <2>3, <3>1, FS_Subset
    <3>3. Cardinality(Candidates) \in Nat
      BY <3>2, FS_CardinalityType
    <3> QED BY <3>2, <3>3 DEF TwoCandidates
  <2>6. PICK r \in Runs : CandidateEnded(r)
    BY <1>1, <1>3, <2>4, <2>5
  <2>7. r = q /\ q \in Candidates
    BY <2>3, <2>6 DEF CandidateEnded
  <2>8. phase' = "done" /\ outcome' # "incomplete"
    BY <2>3, <2>6, <2>7 DEF CandidateEnded, Stops, Ends
  <2> QED BY <2>8 DEF Quiet
<1> QED BY <1>2, <1>3

LEMMA OwnRemembered ==
  ASSUME TypeOK, Calm, Calm', Quiet, 1 \in DOMAIN wire, Remember(1, FALSE)
  PROVE  Quiet'
<1>1. phase = "observing" /\ boundary = 0 /\ outcome # "incomplete"
  BY NoScanSteps DEF Quiet, Remember, Listening
<1>2. PICK r \in Runs, k \in 1..3, d \in 0..3, status \in Terminal : d <= k /\ OwnScan(r, k, d, status)
  BY <1>1 DEF Quiet
<1>3. d \in 0..k
  BY <1>2
<1>4. d < k /\ OwnScan(r, k, d + 1, status)' /\ UNCHANGED <<phase, outcome, attempt, boundary>>
  BY <1>2, <1>3, OwnDelivered
<1>5. d + 1 \in 0..3 /\ d + 1 <= k
  BY <1>3, <1>4
<1> QED BY <1>1, <1>4, <1>5 DEF Quiet

LEMMA UndisturbedStep ==
  ASSUME TypeOK, Undisturbed, Next
  PROVE  Undisturbed'
<1> SUFFICES ASSUME Calm' PROVE Quiet'
  BY DEF Undisturbed
<1>1. Calm /\ phase # "done"
  BY CalmSteps DEF Next
<1>2. Quiet
  BY <1>1 DEF Undisturbed
<1> QED
  BY <1>1, <1>2, CalmSteps, OwnStarts, OwnEnds, OwnPosted, OwnHandshake, OwnVerdicts, OwnRemembered

-----------------------------------------------------------------------------
(* The theorems.                                                             *)

LEMMA SiloInit == Init => SiloInv
<1> SUFFICES ASSUME Init PROVE SiloInv
  OBVIOUS
<1>1. /\ \A r \in Runs : run[r] = NoRun /\ seen[r] = Unseen
      /\ wire = <<>> /\ clock = 0 /\ phase = "before" /\ outcome = "none"
  BY DEF Init
<1>2. TypeOK
  <2>1. /\ 0 \in Times /\ 0 \in 0..MaxOthers /\ 0 \in 0..MaxUpsets /\ 0 \in 0..PostLimit
        /\ <<>> \in Seq(Events)
    BY Numbers, ScanAssumption, EmptySeq
  <2> QED BY <2>1, ScanRecords DEF Init, TypeOK, Listening
<1>3. RunsOK
  BY <1>1, ScanRecords DEF RunsOK, RowOK, Terminal
<1>4. ClockCounted
  <2>1. Asked \in SUBSET Runs /\ Started \in SUBSET Runs /\ Completed \in SUBSET Runs
    BY DEF Asked, Started, Completed
  <2>2. /\ Cardinality(Asked) \in Nat /\ Cardinality(Started) \in Nat /\ Cardinality(Completed) \in Nat
    BY <2>1, Room
  <2> QED BY <1>1, <2>2 DEF ClockCounted
<1>5. SnapshotOK /\ Evidence /\ BoundaryOK /\ ConfirmedScanSawTheChange /\ NotYetDone
  BY <1>1 DEF SnapshotOK, Evidence, WireTold, Sighted, BoundaryOK, ConfirmedScanSawTheChange,
     NotYetDone
<1>6. Undisturbed
  BY DEF Init, Undisturbed, Quiet, NoScan, NothingSeen
<1> QED BY <1>2, <1>3, <1>4, <1>5, <1>6 DEF SiloInv

LEMMA SiloStep == SiloInv /\ [Next]_vars => SiloInv'
<1>1. ASSUME SiloInv, Next PROVE SiloInv'
  BY <1>1, NextTyped, RunsStep, SnapshotStep, EvidenceStep, BoundaryStep, UndisturbedStep,
     ConfirmedStep, DoneStep DEF SiloInv
<1>2. ASSUME SiloInv, UNCHANGED vars PROVE SiloInv'
  <2>1. TypeOK' /\ RunsOK' /\ ClockCounted' /\ SnapshotOK'
    BY <1>2 DEF SiloInv, vars, siloVars, clientVars, TypeOK, Listening, Known, RunsOK, RowOK,
       ClockCounted, Asked, Started, Completed, SnapshotOK
  <2>2. Evidence' /\ BoundaryOK' /\ ConfirmedScanSawTheChange' /\ NotYetDone'
    BY <1>2 DEF SiloInv, vars, siloVars, clientVars, Evidence, WireTold, SeenTold, Sighted, Known,
       BoundaryOK, Blind, ConfirmedScanSawTheChange, NotYetDone
  <2>3. Undisturbed'
    BY <1>2 DEF SiloInv, vars, siloVars, clientVars, Undisturbed, Calm, Quiet, NoScan, OwnScan
  <2> QED BY <2>1, <2>2, <2>3 DEF SiloInv
<1> QED BY <1>1, <1>2

THEOREM Invariant == Spec => []SiloInv
BY SiloInit, SiloStep, PTL DEF Spec

(* The type invariant: among the rest, the watermark covers every stamp that *)
(* the client remembers, and Silo's clock stays within its bound, which is   *)
(* counted by the changes of the scans (_Observation.remember).              *)
THEOREM Typing == Spec => []TypeOK
<1>1. SiloInv => TypeOK
  BY DEF SiloInv
<1> QED BY <1>1, Invariant, PTL

(* For any number of scans, attempts, irregular events and scans of others: a*)
(* confirmed refresh has a scan of the file that began after the file was    *)
(* changed and ended clean (_causal_completion, _submit_and_observe).        *)
THEOREM ConfirmedScansSaw == Spec => []ConfirmedScanSawTheChange
<1>1. SiloInv => ConfirmedScanSawTheChange
  BY DEF SiloInv
<1> QED BY <1>1, Invariant, PTL

(* A refresh that ends incomplete was disturbed: undisturbed, the three events *)
(* of the client's one scan come in turn and are the proof it asks for.      *)
THEOREM OnlyDisturbedGiveUp == Spec => []IncompleteOnlyWhenDisturbed
<1>1. SiloInv => IncompleteOnlyWhenDisturbed
  BY ScanAssumption DEF SiloInv, TypeOK, Undisturbed, Calm, Quiet, IncompleteOnlyWhenDisturbed
<1> QED BY <1>1, Invariant, PTL

-----------------------------------------------------------------------------
(* SignalrFeed.                                                              *)
Attached == {"looping", "starting", "checking"}
(* Threads and connections belong to starts and clients that were made.      *)
StartsMade ==
  /\ \A t \in Starts : t > starts => stage[t] = "none" /\ link[t] # "active"
  /\ \A t \in Starts : client[t] <= made
  /\ \A i \in DOMAIN extras : extras[i] <= made
(* No two starts of a client that are past their beginning began the same    *)
(* generation.                                                               *)
Generations ==
  /\ \A t \in Starts : stage[t] \in Connecting => mine[t] <= generation[client[t]]
  /\ \A t, u \in Starts :
       t # u /\ client[t] = client[u] /\ stage[t] \in Connecting /\ stage[u] \in Connecting
         => mine[t] # mine[u]
(* What a client has and what its starts use was built for it.               *)
Connected ==
  /\ \A c \in Clients : connection[c] # None => connection[c] <= starts /\ client[connection[c]] = c
  /\ \A t \in Starts : stage[t] \in Attached => uses[t] # None
  /\ \A t \in Starts : stage[t] \in Attached \cup {"closing"} /\ uses[t] # None =>
       uses[t] <= starts /\ client[uses[t]] = client[t]
(* A current start uses what the client has, and the client is wanted.       *)
Current ==
  /\ \A t \in Starts : stage[t] \in Attached /\ IsCurrent(t) => uses[t] = connection[client[t]]
  /\ \A t \in Starts : stage[t] \in Connecting /\ IsCurrent(t) => wanted[client[t]]
Locked ==
  /\ \A c \in Clients : holder[c] # None => stage[holder[c]] = "joining" /\ client[holder[c]] = c
  /\ \A t \in Starts : stage[t] = "joining" => holder[client[t]] = t /\ IsCurrent(t)
(* Somebody is about to close the connection.                                *)
Closer(k) ==
  \/ \E f \in Fanners : step[f] = "closing" /\ closing[f] = k
  \/ \E t \in Starts : stage[t] = "closing" /\ uses[t] = k
  \/ \E t \in Starts : stage[t] = "checking" /\ uses[t] = k /\ ~IsCurrent(t)
Owned ==
  \A k \in Starts : link[k] = "active" =>
    Closer(k) \/ (connection[client[k]] = k /\ wanted[client[k]])
JoinedClosed ==
  \A t, k \in Starts :
    stage[t] = "joining" /\ connection[client[t]] = k /\ link[k] = "active" => Closer(k)
Dismissed(c) == dismissed[c] /\ ~wanted[c]
Listed ==
  /\ \A f, g \in Fanners : step[f] # "idle" /\ step[g] # "idle" => f = g
  /\ \A f \in Fanners : step[f] = "binding" => extras = <<>>
  /\ \A c \in 1..made : c \in ToSet(extras) \/ Dismissed(c)
  /\ \A f \in Fanners : step[f] \in {"retiring", "closing"} =>
       \A c \in ToSet(extras) : c \in ToSet(todo[f]) \/ Dismissed(c)

-----------------------------------------------------------------------------
(* FeedTypeOK, by who keeps the variables.                                   *)
FanTyped ==
  /\ enabled \subseteq Instances /\ edits \in 0..MaxEdits
  /\ step \in [Fanners -> {"idle", "enumerating", "retiring", "closing", "binding"}]
  /\ list \in [Fanners -> SUBSET Instances] /\ idle \in BOOLEAN /\ raced \in BOOLEAN
  /\ todo \in [Fanners -> Seq(Clients)] /\ closing \in [Fanners -> Starts \cup {None}]
ExtrasTyped ==
  /\ extras \in Seq(Clients \ {Singleton}) /\ IsInjective(extras)
  /\ raced \/ Len(extras) < Max({1, Cardinality(Instances)})
ClientsTyped ==
  /\ bound \in [Clients -> Instances \cup {None}] /\ generation \in [Clients -> Nat]
  /\ connection \in [Clients -> Starts \cup {None}] /\ wanted \in [Clients -> BOOLEAN]
  /\ holder \in [Clients -> Starts \cup {None}] /\ dismissed \in [Clients -> BOOLEAN]
  /\ made \in 0..MaxExtras /\ starts \in 0..MaxStarts
StartTyped ==
  /\ stage \in [Starts -> {"none", "ended"} \cup UnderWay] /\ client \in [Starts -> Clients]
  /\ on \in [Starts -> Starts \cup {None}]
  /\ mine \in [Starts -> Nat] /\ uses \in [Starts -> Starts \cup {None}]
  /\ link \in [Starts -> {"none", "built", "active", "closed"}]

Typed == FanTyped /\ ExtrasTyped /\ ClientsTyped /\ StartTyped

(* FeedTypeOK is the types of its parts.                                     *)
LEMMA FeedParts == FeedTypeOK <=> FanTyped /\ ExtrasTyped /\ ClientsTyped /\ StartTyped
BY DEF FeedTypeOK, FanTyped, ExtrasTyped, ClientsTyped, StartTyped

(* The numbers that the constants stand for.                                 *)
LEMMA FeedNumbers ==
  /\ MaxEdits \in Nat /\ MaxExtras \in Nat /\ MaxStarts \in Nat
  /\ Clients = 0..MaxExtras /\ Starts = 1..MaxStarts /\ Starts \subseteq Nat \ {0}
  /\ Clients \subseteq Nat /\ None = 0 /\ Singleton = 0 /\ Singleton \in Clients
BY FeedAssumption DEF Clients, Starts, None, Singleton

LEMMA ClosedTyped ==
  ASSUME StartTyped, NEW k \in Starts \cup {None}
  PROVE  /\ Closed(k) \in [Starts -> {"none", "built", "active", "closed"}]
         /\ \A j \in Starts : Closed(k)[j] = IF j = k THEN "closed" ELSE link[j]
BY FeedNumbers DEF StartTyped, Closed

LEMMA MostExtras ==
  /\ Cardinality(Instances) \in Nat
  /\ Max({1, Cardinality(Instances)}) \in Nat
  /\ 0 < Max({1, Cardinality(Instances)})
  /\ Cardinality(Instances) <= Max({1, Cardinality(Instances)})
<1> DEFINE n == Cardinality(Instances)
<1>1. n \in Nat
  BY FeedAssumption, FS_CardinalityType
<1>2. \E x \in {1, n} : \A y \in {1, n} : x >= y
  BY <1>1
<1>3. Max({1, n}) \in {1, n} /\ \A y \in {1, n} : Max({1, n}) >= y
  BY <1>2 DEF Max
<1> QED BY <1>1, <1>3

LEMMA HeadTail ==
  ASSUME FanTyped, NEW f \in Fanners, todo[f] # <<>>
  PROVE  /\ Head(todo[f]) \in Clients /\ Tail(todo[f]) \in Seq(Clients)
         /\ \A c \in ToSet(todo[f]) : c = Head(todo[f]) \/ c \in ToSet(Tail(todo[f]))
<1>1. todo[f] \in Seq(Clients)
  BY DEF FanTyped
<1>2. Head(todo[f]) \in Clients /\ Tail(todo[f]) \in Seq(Clients)
  BY <1>1, HeadTailProperties
<1>3. ASSUME NEW c \in ToSet(todo[f]) PROVE c = Head(todo[f]) \/ c \in ToSet(Tail(todo[f]))
  <2>1. PICK i \in DOMAIN todo[f] : c = todo[f][i]
    BY <1>3 DEF ToSet
  <2>2. CASE i = 1
    BY <2>1, <2>2, <1>1
  <2>3. CASE i # 1
    <3>1. i - 1 \in DOMAIN Tail(todo[f]) /\ Tail(todo[f])[i - 1] = c
      BY <2>1, <2>3, <1>1
    <3> QED BY <3>1 DEF ToSet
  <2> QED BY <2>2, <2>3
<1> QED BY <1>2, <1>3

-----------------------------------------------------------------------------
(* Types: the steps of a start, of a fan-out, and the binding that ends one. *)
LEMMA StartTypes ==
  ASSUME Typed, NEW t \in Starts, Start(t)
  PROVE  (FanTyped /\ ExtrasTyped /\ ClientsTyped /\ StartTyped)'
<1> USE FeedNumbers DEF Typed
<1>1. CASE Errs(t)
  <2>1. FanTyped' BY <1>1 DEF FanTyped, Errs, fanVars, clientsVars, startVars
  <2>2. ExtrasTyped'
    BY <1>1 DEF ExtrasTyped, FanTyped, Errs, fanVars, clientsVars, startVars
  <2>3. ClientsTyped'
    <3>1. UNCHANGED <<bound, generation, connection, wanted, holder, dismissed, made>>
      BY <1>1 DEF Errs, clientsVars
    <3>2. starts' \in 0..MaxStarts
      BY <1>1 DEF ClientsTyped, Errs
    <3> QED BY <3>1, <3>2 DEF ClientsTyped
  <2>4. StartTyped'
    BY <1>1, ClosedTyped DEF ClientsTyped, StartTyped, UnderWay, Restarting, Connecting, Errs,
       fanVars, clientsVars, startVars
  <2> QED BY <2>1, <2>2, <2>3, <2>4
<1>2. CASE Restart(t)
  <2>1. FanTyped'
    BY <1>2 DEF FanTyped, Restart, Goes, StartOnly, Onward, fanVars,
       clientsVars, startVars
  <2>2. ExtrasTyped'
    BY <1>2 DEF ExtrasTyped, FanTyped, Restart, Goes, StartOnly, Onward,
       fanVars, clientsVars, startVars
  <2>3. ClientsTyped'
    BY <1>2 DEF ClientsTyped, StartTyped, Restart, Goes, StartOnly, Onward,
       fanVars, clientsVars, startVars
  <2>4. StartTyped'
    BY <1>2, ClosedTyped DEF ClientsTyped, StartTyped, UnderWay, Restarting, Connecting, Restart,
       Goes, StartOnly, Onward, fanVars,
       clientsVars, startVars
  <2> QED BY <2>1, <2>2, <2>3, <2>4
<1>3. CASE StopItself(t)
  <2>1. FanTyped'
    BY <1>3 DEF FanTyped, StopItself, Goes, StartOnly, fanVars, clientsVars,
       startVars
  <2>2. ExtrasTyped'
    BY <1>3 DEF ExtrasTyped, FanTyped, StopItself, Goes, StartOnly, fanVars,
       clientsVars, startVars
  <2>3. ClientsTyped'
    BY <1>3 DEF ClientsTyped, StartTyped, StopItself, Goes, StartOnly, fanVars,
       clientsVars, startVars
  <2>4. StartTyped'
    BY <1>3, ClosedTyped DEF ClientsTyped, StartTyped, UnderWay, Restarting, Connecting, StopItself,
       Goes, StartOnly, fanVars, clientsVars,
       startVars
  <2> QED BY <2>1, <2>2, <2>3, <2>4
<1>4. CASE CloseItself(t)
  <2>1. FanTyped'
    BY <1>4 DEF FanTyped, CloseItself, Goes, StartOnly, Onward, Closed,
       fanVars, clientsVars, startVars
  <2>2. ExtrasTyped'
    BY <1>4 DEF ExtrasTyped, FanTyped, CloseItself, Goes, StartOnly, Onward, Closed, fanVars,
       clientsVars, startVars
  <2>3. ClientsTyped'
    BY <1>4 DEF ClientsTyped, StartTyped, CloseItself, Goes, StartOnly, Onward, Closed, fanVars,
       clientsVars, startVars
  <2>4. StartTyped'
    BY <1>4, ClosedTyped DEF ClientsTyped, StartTyped, UnderWay, Restarting, Connecting,
       CloseItself, Goes, StartOnly, Onward, fanVars,
       clientsVars, startVars
  <2> QED BY <2>1, <2>2, <2>3, <2>4
<1>5. CASE Begin(t)
  <2>1. FanTyped'
    BY <1>5 DEF FanTyped, Begin, Goes, StartOnly, fanVars, clientsVars,
       startVars
  <2>2. ExtrasTyped'
    BY <1>5 DEF ExtrasTyped, FanTyped, Begin, Goes, StartOnly, fanVars,
       clientsVars, startVars
  <2>3. ClientsTyped'
    BY <1>5 DEF ClientsTyped, StartTyped, Begin, Goes, StartOnly, fanVars,
       clientsVars, startVars
  <2> DEFINE c == client[t]
  <2>5. c \in Clients /\ generation[c] + 1 \in Nat
    BY DEF ClientsTyped, StartTyped
  <2>6. mine' \in [Starts -> Nat]
    BY <1>5, <2>5 DEF StartTyped, Begin
  <2>4. StartTyped'
    BY <1>5, <2>6 DEF StartTyped, UnderWay, Restarting, Connecting, Begin, Goes, StartOnly,
       startVars
  <2> QED BY <2>1, <2>2, <2>3, <2>4
<1>6. CASE ProbeGivesUp(t)
  <2>1. FanTyped'
    BY <1>6 DEF FanTyped, ProbeGivesUp, Goes, StartOnly, fanVars,
       clientsVars, startVars
  <2>2. ExtrasTyped'
    BY <1>6 DEF ExtrasTyped, FanTyped, ProbeGivesUp, Goes, StartOnly, fanVars,
       clientsVars, startVars
  <2>3. ClientsTyped'
    BY <1>6 DEF ClientsTyped, StartTyped, ProbeGivesUp, Goes, StartOnly,
       fanVars, clientsVars, startVars
  <2>4. StartTyped'
    BY <1>6, ClosedTyped DEF ClientsTyped, StartTyped, UnderWay, Restarting, Connecting,
       ProbeGivesUp, Goes, StartOnly, fanVars, clientsVars,
       startVars
  <2> QED BY <2>1, <2>2, <2>3, <2>4
<1>7. CASE Configure(t)
  <2>1. FanTyped'
    BY <1>7 DEF FanTyped, Configure, Goes, StartOnly, Closed, IsCurrent,
       fanVars, clientsVars, startVars
  <2>2. ExtrasTyped'
    BY <1>7 DEF ExtrasTyped, FanTyped, Configure, Goes, StartOnly, Closed, IsCurrent, fanVars,
       clientsVars, startVars
  <2> DEFINE c == client[t]
  <2>5. c \in Clients /\ connection[c] \in Starts \cup {None}
    BY DEF ClientsTyped, StartTyped
  <2>6. holder' \in [Clients -> Starts \cup {None}]
    BY <1>7, <2>5 DEF ClientsTyped, Configure
  <2>3. ClientsTyped'
    BY <1>7, <2>6 DEF ClientsTyped, Configure, StartOnly
  <2>7. stage' \in [Starts -> {"none", "ended"} \cup UnderWay]
    BY <1>7 DEF Configure, Goes, StartTyped, UnderWay, Connecting
  <2>8. uses' \in [Starts -> Starts \cup {None}]
    BY <1>7, <2>5 DEF Configure, StartTyped
  <2>9. link' \in [Starts -> {"none", "built", "active", "closed"}]
    <3>1. Closed(connection[c]) \in [Starts -> {"none", "built", "active", "closed"}]
      BY <2>5, ClosedTyped
    <3>2. link' = link \/ link' = Closed(connection[c])
      BY <1>7 DEF Configure
    <3> QED BY <3>1, <3>2 DEF StartTyped
  <2>4. StartTyped'
    BY <1>7, <2>7, <2>8, <2>9 DEF StartTyped, Configure, StartOnly
  <2> QED BY <2>1, <2>2, <2>3, <2>4
<1>8. CASE Build(t)
  <2>1. FanTyped'
    BY <1>8 DEF FanTyped, Build, Goes, StartOnly, fanVars, clientsVars,
       startVars
  <2>2. ExtrasTyped'
    BY <1>8 DEF ExtrasTyped, FanTyped, Build, Goes, StartOnly, fanVars,
       clientsVars, startVars
  <2>3. ClientsTyped'
    BY <1>8 DEF ClientsTyped, StartTyped, Build, Goes, StartOnly, fanVars,
       clientsVars, startVars
  <2>4. StartTyped'
    BY <1>8, ClosedTyped DEF ClientsTyped, StartTyped, UnderWay, Restarting, Connecting, Build,
       Goes, StartOnly, fanVars, clientsVars,
       startVars
  <2> QED BY <2>1, <2>2, <2>3, <2>4
<1>9. CASE Loop(t)
  <2>1. FanTyped'
    BY <1>9 DEF FanTyped, Loop, Goes, StartOnly, ConnectOnly, IsCurrent,
       fanVars, clientsVars, startVars
  <2>2. ExtrasTyped'
    BY <1>9 DEF ExtrasTyped, FanTyped, Loop, Goes, StartOnly, ConnectOnly, IsCurrent, fanVars,
       clientsVars, startVars
  <2>3. ClientsTyped'
    BY <1>9 DEF ClientsTyped, StartTyped, Loop, Goes, StartOnly, ConnectOnly, IsCurrent, fanVars,
       clientsVars, startVars
  <2>4. StartTyped'
    BY <1>9, ClosedTyped DEF ClientsTyped, StartTyped, UnderWay, Restarting, Connecting, Loop, Goes,
       StartOnly, ConnectOnly, IsCurrent,
       fanVars, clientsVars, startVars
  <2> QED BY <2>1, <2>2, <2>3, <2>4
<1>10. CASE ConnectSucceeds(t)
  <2>1. FanTyped'
    BY <1>10 DEF FanTyped, ConnectSucceeds, Goes, StartOnly, ConnectOnly,
       fanVars, clientsVars, startVars
  <2>2. ExtrasTyped'
    BY <1>10 DEF ExtrasTyped, FanTyped, ConnectSucceeds, Goes, StartOnly, ConnectOnly, fanVars,
       clientsVars, startVars
  <2>3. ClientsTyped'
    BY <1>10 DEF ClientsTyped, StartTyped, ConnectSucceeds, Goes, StartOnly, ConnectOnly, fanVars,
       clientsVars, startVars
  <2>4. StartTyped'
    BY <1>10, ClosedTyped DEF ClientsTyped, StartTyped, UnderWay, Restarting, Connecting,
       ConnectSucceeds, Goes, StartOnly, ConnectOnly,
       fanVars, clientsVars, startVars
  <2> QED BY <2>1, <2>2, <2>3, <2>4
<1>11. CASE ConnectFails(t)
  <2>1. FanTyped'
    BY <1>11 DEF FanTyped, ConnectFails, Goes, StartOnly, ConnectOnly, Closed, fanVars, clientsVars,
       startVars
  <2>2. ExtrasTyped'
    BY <1>11 DEF ExtrasTyped, FanTyped, ConnectFails, Goes, StartOnly, ConnectOnly, Closed, fanVars,
       clientsVars, startVars
  <2>3. ClientsTyped'
    BY <1>11 DEF ClientsTyped, StartTyped, ConnectFails, Goes, StartOnly, ConnectOnly, Closed,
       fanVars, clientsVars, startVars
  <2>4. StartTyped'
    BY <1>11, ClosedTyped DEF ClientsTyped, StartTyped, UnderWay, Restarting, Connecting,
       ConnectFails, Goes, StartOnly, ConnectOnly,
       fanVars, clientsVars, startVars
  <2> QED BY <2>1, <2>2, <2>3, <2>4
<1>12. CASE Check(t)
  <2>1. FanTyped'
    BY <1>12 DEF FanTyped, Check, Goes, StartOnly, ConnectOnly, Closed, ClosedIfRetired, IsCurrent,
       fanVars, clientsVars, startVars
  <2>2. ExtrasTyped'
    BY <1>12 DEF ExtrasTyped, FanTyped, Check, Goes, StartOnly, ConnectOnly, Closed,
       ClosedIfRetired, IsCurrent, fanVars, clientsVars,
       startVars
  <2>3. ClientsTyped'
    BY <1>12 DEF ClientsTyped, StartTyped, Check, Goes, StartOnly, ConnectOnly, Closed,
       ClosedIfRetired, IsCurrent, fanVars, clientsVars,
       startVars
  <2>4. StartTyped'
    BY <1>12, ClosedTyped DEF ClientsTyped, StartTyped, UnderWay, Restarting, Connecting, Check,
       Goes, StartOnly, ConnectOnly, ClosedIfRetired, IsCurrent, fanVars, clientsVars, startVars
  <2> QED BY <2>1, <2>2, <2>3, <2>4
<1> QED BY <1>1, <1>2, <1>3, <1>4, <1>5, <1>6, <1>7, <1>8, <1>9, <1>10, <1>11, <1>12 DEF Start

LEMMA FanTypes ==
  ASSUME Typed, NEW f \in Fanners, FanOut(f), ~Bind(f)
  PROVE  (FanTyped /\ ExtrasTyped /\ ClientsTyped /\ StartTyped)'
<1> USE FeedNumbers DEF Typed
<1>1. CASE Edit(f)
  <2>1. FanTyped'
    BY <1>1, HeadTail DEF FanTyped, ExtrasTyped, ClientsTyped, Edit, Moves, fanVars,
       clientsVars, startVars
  <2>2. ExtrasTyped'
    BY <1>1 DEF ExtrasTyped, FanTyped, Edit, Moves, fanVars, clientsVars,
       startVars
  <2>3. ClientsTyped'
    BY <1>1, HeadTail DEF ClientsTyped, StartTyped, Edit, Moves, fanVars,
       clientsVars, startVars
  <2>4. StartTyped'
    BY <1>1, ClosedTyped DEF FanTyped, ClientsTyped, StartTyped, Edit, Moves,
       fanVars, clientsVars, startVars
  <2> QED BY <2>1, <2>2, <2>3, <2>4
<1>2. CASE Enumerate(f)
  <2>1. FanTyped'
    BY <1>2, HeadTail DEF FanTyped, ExtrasTyped, ClientsTyped, Enumerate, Moves, ToStop, fanVars,
       clientsVars, startVars
  <2>2. ExtrasTyped'
    BY <1>2 DEF ExtrasTyped, FanTyped, Enumerate, Moves, ToStop, fanVars,
       clientsVars, startVars
  <2>3. ClientsTyped'
    BY <1>2, HeadTail DEF ClientsTyped, StartTyped, Enumerate, Moves, ToStop,
       fanVars, clientsVars, startVars
  <2>4. StartTyped'
    BY <1>2, ClosedTyped DEF FanTyped, ClientsTyped, StartTyped, Enumerate, Moves, ToStop, fanVars,
       clientsVars, startVars
  <2> QED BY <2>1, <2>2, <2>3, <2>4
<1>3. CASE Retire(f)
  <2>1. FanTyped'
    BY <1>3, HeadTail DEF FanTyped, ExtrasTyped, ClientsTyped, Retire, Moves,
       fanVars, clientsVars, startVars
  <2>2. ExtrasTyped'
    BY <1>3 DEF ExtrasTyped, FanTyped, Retire, Moves, fanVars, clientsVars,
       startVars
  <2> DEFINE c == Head(todo[f])
  <2>5. c \in Clients /\ generation[c] + 1 \in Nat
    BY <1>3, HeadTail DEF Retire, ClientsTyped
  <2>3. ClientsTyped'
    BY <1>3, <2>5 DEF ClientsTyped, Retire, startVars
  <2>4. StartTyped'
    BY <1>3, ClosedTyped DEF FanTyped, ClientsTyped, StartTyped, Retire, Moves,
       fanVars, clientsVars, startVars
  <2> QED BY <2>1, <2>2, <2>3, <2>4
<1>4. CASE Close(f)
  <2>1. FanTyped'
    BY <1>4, HeadTail DEF FanTyped, ExtrasTyped, ClientsTyped, Close, Moves, Closed,
       fanVars, clientsVars, startVars
  <2>2. ExtrasTyped'
    BY <1>4 DEF ExtrasTyped, FanTyped, Close, Moves, Closed, fanVars,
       clientsVars, startVars
  <2>3. ClientsTyped'
    BY <1>4, HeadTail DEF ClientsTyped, StartTyped, Close, Moves, Closed,
       fanVars, clientsVars, startVars
  <2>4. StartTyped'
    BY <1>4, ClosedTyped DEF FanTyped, ClientsTyped, StartTyped, Close, Moves,
       fanVars, clientsVars, startVars
  <2> QED BY <2>1, <2>2, <2>3, <2>4
<1>5. CASE Forget(f)
  <2>1. FanTyped'
    BY <1>5, HeadTail DEF FanTyped, ExtrasTyped, ClientsTyped, Forget, Moves, Forgotten, fanVars,
       clientsVars, startVars
  <2>2. ExtrasTyped'
    BY <1>5, MostExtras DEF ExtrasTyped, Forget, Forgotten, IsInjective
  <2>3. ClientsTyped'
    BY <1>5, HeadTail DEF ClientsTyped, StartTyped, Forget, Moves, Forgotten,
       fanVars, clientsVars, startVars
  <2>4. StartTyped'
    BY <1>5, ClosedTyped DEF FanTyped, ClientsTyped, StartTyped, Forget, Moves, Forgotten, fanVars,
       clientsVars, startVars
  <2> QED BY <2>1, <2>2, <2>3, <2>4
<1> QED BY <1>1, <1>2, <1>3, <1>4, <1>5 DEF FanOut

LEMMA BindListed ==
  ASSUME Typed, NEW f \in Fanners, list[f] # {}
  PROVE  /\ Cardinality(list[f]) \in Nat \ {0}
         /\ Cardinality(list[f]) - 1 < Max({1, Cardinality(Instances)})
<1>1. list[f] \subseteq Instances /\ IsFiniteSet(Instances)
  BY FeedAssumption DEF Typed, FanTyped
<1>2. IsFiniteSet(list[f]) /\ Cardinality(list[f]) <= Cardinality(Instances)
  BY <1>1, FS_Subset
<1>3. Cardinality(list[f]) \in Nat /\ Cardinality(list[f]) # 0
  BY <1>2, FS_CardinalityType, FS_EmptySet
<1> QED BY <1>2, <1>3, MostExtras DEF Typed

(* A client is bound, or made, for each of the listed instances.             *)
Binds(n) ==
  /\ made' = made + n - 1 /\ made' <= MaxExtras /\ starts' = starts + n /\ starts' <= MaxStarts
  /\ extras' = extras \o [i \in 1..(n - 1) |-> made + i]
  /\ \A c \in 1..made : dismissed'[c] = dismissed[c]
  /\ \A t \in Starts : stage'[t] = (IF t \in starts + 1 .. starts' THEN "begun" ELSE stage[t])
  /\ \A t \in Starts : client'[t] = (IF t = starts + 1 THEN Singleton
                                    ELSE IF t \in starts + 2 .. starts' THEN made + t - starts - 1
                                    ELSE client[t])

LEMMA BindDoes ==
  ASSUME Typed, NEW f \in Fanners, Bind(f)
  PROVE
  /\ step[f] = "binding" /\ \A g \in Fanners : step'[g] = (IF g = f THEN "idle" ELSE step[g])
  /\ \/ UNCHANGED <<extras, dismissed, made, starts, stage, client>>
     \/ \E n \in Nat \ {0} : n - 1 < Max({1, Cardinality(Instances)}) /\ Binds(n)
  /\ UNCHANGED <<todo, closing, raced, generation, connection, wanted, holder, on, mine, uses, link>>
<1>1. /\ step[f] = "binding" /\ \A g \in Fanners : step'[g] = (IF g = f THEN "idle" ELSE step[g])
      /\ UNCHANGED <<todo, closing, raced, generation, connection, wanted, holder, on, mine, uses, link>>
  BY DEF Typed, FanTyped, Bind, Moves
<1>2. CASE list[f] = {}
  BY <1>1, <1>2 DEF Bind
<1>3. CASE list[f] # {}
  <2> DEFINE n == Cardinality(list[f])
  <2>1. n \in Nat \ {0} /\ n - 1 < Max({1, Cardinality(Instances)})
    BY <1>3, BindListed
  <2>2. made \in Nat /\ starts \in Nat /\ made' = made + n - 1 /\ starts' = starts + n
        /\ made' <= MaxExtras /\ starts' <= MaxStarts
    BY <1>3, FeedNumbers DEF Typed, ClientsTyped, Bind
  <2>3. \A c \in 1..made : dismissed'[c] = dismissed[c]
    <3> SUFFICES ASSUME NEW c \in 1..made PROVE dismissed'[c] = dismissed[c]
      OBVIOUS
    <3>1. dismissed' = [d \in Clients |->
                          dismissed[d] /\ d \notin (made + 1 .. made + n - 1) \cup {Singleton}]
      BY <1>3 DEF Bind
    <3>2. c \in Clients /\ c \notin (made + 1 .. made + n - 1) \cup {Singleton}
      BY <2>2, FeedNumbers DEF Typed, ClientsTyped
    <3>3. dismissed[c] \in BOOLEAN
      BY <3>2 DEF Typed, ClientsTyped
    <3> QED BY <3>1, <3>2, <3>3
  <2>4. /\ \A t \in Starts : stage'[t] = (IF t \in starts + 1 .. starts' THEN "begun" ELSE stage[t])
        /\ \A t \in Starts : client'[t] = (IF t = starts + 1 THEN Singleton
                                            ELSE IF t \in starts + 2 .. starts' THEN made + t - starts - 1
                                            ELSE client[t])
    BY <1>3, <2>2 DEF Bind
  <2>5. extras' = extras \o [i \in 1..(n - 1) |-> made + i]
    BY <1>3 DEF Bind
  <2>6. Binds(n)
    BY <2>2, <2>3, <2>4, <2>5 DEF Binds
  <2> QED BY <1>1, <2>1, <2>6
<1> QED BY <1>2, <1>3

LEMMA BindTypes ==
  ASSUME Typed, NEW f \in Fanners, Bind(f), (raced \/ Listed),
         \A i \in DOMAIN extras : extras[i] <= made
  PROVE  (FanTyped /\ ExtrasTyped /\ ClientsTyped /\ StartTyped)'
<1> USE FeedNumbers
<1>1. FanTyped'
  BY DEF Typed, FanTyped, Bind, Moves
<1>2. CASE list[f] = {}
  <2>1. ExtrasTyped' /\ ClientsTyped' /\ StartTyped'
    BY <1>2 DEF Typed, ExtrasTyped, ClientsTyped, StartTyped, Bind
  <2> QED BY <1>1, <2>1
<1>3. CASE list[f] # {}
  <2> DEFINE n == Cardinality(list[f])
             added == [i \in 1..(n - 1) |-> made + i]
  <2>1. n \in Nat \ {0} /\ n - 1 < Max({1, Cardinality(Instances)})
    BY <1>3, BindListed
  <2>2. made \in Nat /\ starts \in Nat /\ made + n - 1 <= MaxExtras /\ starts + n <= MaxStarts
    BY <1>3 DEF Typed, ClientsTyped, Bind
  <2>3. added \in Seq(Clients \ {Singleton}) /\ Len(added) = n - 1
    <3>1. \A i \in 1..(n - 1) : made + i \in Clients \ {Singleton}
      <4> HIDE DEF n
      <4>1. SUFFICES ASSUME NEW i \in 1..(n - 1) PROVE made + i \in Clients \ {Singleton}
        OBVIOUS
      <4>2. i \in Nat /\ 0 < i /\ i <= n - 1 /\ MaxExtras \in Nat
        BY <2>1 DEF Typed
      <4>3. made + i \in Nat /\ 0 < made + i /\ made + i <= MaxExtras
        BY <2>1, <2>2, <4>2
      <4> QED BY <4>3, <4>2 DEF Typed
    <3>2. n - 1 \in Nat /\ added \in [1..(n - 1) -> Clients \ {Singleton}]
      BY <2>1, <3>1
    <3> QED BY <3>2
  <2>4. extras \in Seq(Clients \ {Singleton}) /\ extras' = extras \o added
    BY <1>3 DEF Typed, ExtrasTyped, Bind
  <2>5. extras' \in Seq(Clients \ {Singleton})
    BY <2>3, <2>4
  <2>6. raced \/ extras = <<>>
    BY DEF Listed, Bind
  <2>7. raced' \/ Len(extras') < Max({1, Cardinality(Instances)})
    BY <2>1, <2>3, <2>4, <2>6 DEF Bind
  <2>8. IsInjective(extras')
    <3> SUFFICES ASSUME NEW i \in DOMAIN extras', NEW j \in DOMAIN extras', extras'[i] = extras'[j]
                 PROVE  i = j
      BY DEF IsInjective
    <3> DEFINE m == Len(extras)
    <3>1. m \in Nat /\ DOMAIN extras = 1..m /\ DOMAIN extras' = 1..(m + n - 1)
      BY <2>1, <2>3, <2>4, <2>5
    <3>2. \A l \in 1..m : extras'[l] = extras[l] /\ extras[l] \in Clients /\ extras[l] <= made
      <4> TAKE l \in 1..m
      <4>1. l \in DOMAIN extras
        BY <3>1
      <4>2. (extras \o added)[l] = extras[l] /\ extras[l] \in Clients
        BY <2>3, <2>4, <4>1
      <4> QED BY <2>4, <4>1, <4>2
    <3>3. \A l \in m + 1 .. m + n - 1 : extras'[l] = made + l - m
      <4> TAKE l \in m + 1 .. m + n - 1
      <4> HIDE DEF m, n
      <4>1. l - m \in 1..(n - 1) /\ l \in Nat /\ m < l /\ l <= m + (n - 1)
        BY <2>1, <3>1
      <4>2. extras'[l] = added[l - m]
        <5> HIDE DEF added
        <5>1. /\ extras \in Seq(Clients \ {Singleton}) /\ added \in Seq(Clients \ {Singleton})
              /\ Len(extras) = m /\ Len(added) = n - 1
          BY <2>3, <2>4 DEF m
        <5>2. l \in 1..(Len(extras) + Len(added)) /\ ~(l <= Len(extras))
          BY <4>1, <5>1
        <5>3. (extras \o added)[l] = added[l - Len(extras)]
          BY <5>1, <5>2
        <5> QED BY <2>4, <5>1, <5>3
      <4>3. added[l - m] = made + (l - m)
        BY <4>1
      <4> QED BY <2>2, <3>1, <4>1, <4>2, <4>3
    <3>4. CASE i \in 1..m /\ j \in 1..m
      BY <3>1, <3>2, <3>4 DEF Typed, ExtrasTyped, IsInjective
    <3>5. i \in 1..(m + n - 1) /\ j \in 1..(m + n - 1) /\ m + n - 1 \in Nat
      BY <2>1, <3>1
    <3>6. CASE i \in m + 1 .. m + n - 1 /\ j \in m + 1 .. m + n - 1
      <4> HIDE DEF m, n
      <4> QED BY <2>1, <2>2, <3>1, <3>3, <3>5, <3>6
    <3>7. \A l \in 1..m, o \in m + 1 .. m + n - 1 : extras'[l] # extras'[o]
      <4> SUFFICES ASSUME NEW l \in 1..m, NEW o \in m + 1 .. m + n - 1 PROVE extras'[l] # extras'[o]
        OBVIOUS
      <4>1. extras'[l] <= made /\ extras'[l] \in Nat /\ extras'[o] = made + o - m /\ o \in Int /\ o > m
        <5>1. extras'[l] = extras[l] /\ extras[l] \in Clients /\ extras[l] <= made
          BY <3>2
        <5>2. extras'[o] = made + o - m
          BY <3>3
        <5> HIDE DEF m, n
        <5> QED BY <2>1, <3>1, <5>1, <5>2 DEF Typed
      <4> QED BY <4>1, <2>2, <3>1
    <3> HIDE DEF m, n
    <3>8. (i \in 1..m \/ i \in m + 1 .. m + n - 1) /\ (j \in 1..m \/ j \in m + 1 .. m + n - 1)
      BY <2>1, <3>1, <3>5
    <3> QED BY <3>4, <3>6, <3>7, <3>8
  <2>9. ExtrasTyped'
    BY <2>5, <2>7, <2>8 DEF ExtrasTyped
  <2>10. PICK order \in Ascending(list[f]) :
           bound' = [c \in Clients |-> IF c = Singleton THEN order[1]
                                       ELSE IF c \in made + 1 .. made + n - 1 THEN order[c - made + 1]
                                       ELSE bound[c]]
    BY <1>3 DEF Bind
  <2>11. \A i \in 1..n : order[i] \in Instances
    BY <2>10 DEF Ascending, Typed, FanTyped
  <2>12. bound' \in [Clients -> Instances \cup {None}]
    BY <2>1, <2>2, <2>10, <2>11 DEF Typed, ClientsTyped
  <2>13. dismissed' \in [Clients -> BOOLEAN]
    BY <1>3 DEF Bind, Typed, ClientsTyped
  <2>14. ClientsTyped'
    <3>1. made' = made + n - 1 /\ starts' = starts + n /\ UNCHANGED <<generation, connection, wanted, holder>>
      BY <1>3 DEF Bind
    <3>2. made' \in 0..MaxExtras /\ starts' \in 0..MaxStarts
      <4> HIDE DEF n
      <4> QED BY <2>1, <2>2, <3>1 DEF Typed
    <3> QED BY <3>1, <3>2, <2>12, <2>13 DEF Typed, ClientsTyped
  <2>15. client' \in [Starts -> Clients]
    <3>1. SUFFICES ASSUME NEW t \in Starts PROVE client'[t] \in Clients
      BY <1>3 DEF Bind
    <3>2. client'[t] = IF t = starts + 1 THEN Singleton
                       ELSE IF t \in starts + 2 .. starts + n THEN made + t - starts - 1 ELSE client[t]
      BY <1>3 DEF Bind
    <3>3. client[t] \in Clients /\ t \in Nat /\ MaxExtras \in Nat
      BY DEF Typed, StartTyped
    <3> HIDE DEF n
    <3>4. t \in starts + 2 .. starts + n => made + t - starts - 1 \in 0..MaxExtras
      BY <2>1, <2>2, <3>3
    <3> QED BY <3>2, <3>3, <3>4 DEF Typed
  <2>16. stage' \in [Starts -> {"none", "ended"} \cup UnderWay]
    BY <1>3 DEF Typed, StartTyped, Bind, UnderWay
  <2>17. StartTyped'
    BY <2>15, <2>16 DEF Typed, StartTyped, Bind
  <2> QED BY <1>1, <2>9, <2>14, <2>17
<1> QED BY <1>2, <1>3
-----------------------------------------------------------------------------
(* What each action changes, element by element.                             *)
LEMMA EditDoes ==
  ASSUME Typed, NEW f \in Fanners, Edit(f)
  PROVE
  /\ step[f] = "idle"
  /\ \A g \in Fanners : step'[g] = (IF g = f THEN "enumerating" ELSE step[g])
  /\ raced \/ (\E g \in Fanners : step[g] # "idle") => raced'
  /\ UNCHANGED <<list, idle, todo, closing, extras, bound, generation, connection, wanted, holder,
                  dismissed, made, starts, stage, on, client, mine, uses, link>>
BY FeedNumbers DEF Typed, FanTyped, ClientsTyped, StartTyped, Edit, Moves, fanVars,
   clientsVars,
   startVars

LEMMA EnumerateDoes ==
  ASSUME Typed, NEW f \in Fanners, Enumerate(f)
  PROVE
  /\ step[f] = "enumerating"
  /\ \A g \in Fanners : step'[g] = (IF g = f THEN "retiring" ELSE step[g])
  /\ \A g \in Fanners : todo'[g] = (IF g = f THEN <<Singleton>> \o extras ELSE todo[g])
  /\ UNCHANGED <<enabled, edits, idle, closing, extras, raced, bound, generation, connection,
                  wanted, holder, dismissed, made, starts, stage, on, client, mine, uses, link>>
BY FeedNumbers DEF Typed, FanTyped, ClientsTyped, StartTyped, Enumerate, Moves, ToStop, fanVars,
   clientsVars, startVars

LEMMA RetireDoes ==
  ASSUME Typed, NEW f \in Fanners, Retire(f)
  PROVE
  /\ step[f] = "retiring"
  /\ todo[f] # <<>>
  /\ Head(todo[f]) \in Clients
  /\ holder[Head(todo[f])] = None
  /\ \A g \in Fanners : step'[g] = (IF g = f THEN "closing" ELSE step[g])
  /\ \A g \in Fanners : closing'[g] = (IF g = f THEN connection[Head(todo[f])] ELSE closing[g])
  /\ \A g \in Fanners : todo'[g] = (IF g = f THEN Tail(todo[f]) ELSE todo[g])
  /\ \A c \in Clients : generation'[c] = (IF c = Head(todo[f]) THEN generation[c] + 1 ELSE generation[c])
  /\ ~wanted'[Head(todo[f])] /\ \A c \in Clients \ {Head(todo[f])} : wanted'[c] = wanted[c]
  /\ dismissed'[Head(todo[f])] /\ \A c \in Clients \ {Head(todo[f])} : dismissed'[c] = dismissed[c]
  /\ UNCHANGED <<enabled, edits, list, idle, extras, raced, bound, connection, holder, made,
                  starts, stage, on, client, mine, uses, link>>
BY FeedNumbers, HeadTail DEF Typed, FanTyped, ClientsTyped, StartTyped, Retire, Moves,
   fanVars,
   clientsVars, startVars

LEMMA CloseDoes ==
  ASSUME Typed, NEW f \in Fanners, Close(f)
  PROVE
  /\ step[f] = "closing"
  /\ \A g \in Fanners : step'[g] = (IF g = f THEN "retiring" ELSE step[g])
  /\ \A g \in Fanners : closing'[g] = (IF g = f THEN None ELSE closing[g])
  /\ \A j \in Starts : link'[j] = (IF j = closing[f] THEN "closed" ELSE link[j])
  /\ UNCHANGED <<enabled, edits, list, idle, todo, extras, raced, bound, generation, connection,
                  wanted, holder, dismissed, made, starts, stage, on, client, mine, uses>>
<1>1. closing[f] \in Starts \cup {None}
  BY DEF Typed, FanTyped
<1>2. \A j \in Starts : link'[j] = (IF j = closing[f] THEN "closed" ELSE link[j])
  BY <1>1, ClosedTyped DEF Typed, Close
<1>3. /\ \A g \in Fanners : step'[g] = (IF g = f THEN "retiring" ELSE step[g])
      /\ \A g \in Fanners : closing'[g] = (IF g = f THEN None ELSE closing[g])
  BY DEF Typed, FanTyped, Close, Moves
<1> QED BY <1>2, <1>3 DEF Close, clientsVars

LEMMA ForgetDoes ==
  ASSUME Typed, NEW f \in Fanners, Forget(f)
  PROVE
  /\ step[f] = "retiring"
  /\ todo[f] = <<>>
  /\ \A g \in Fanners : step'[g] = (IF g = f THEN "binding" ELSE step[g])
  /\ extras' = <<>>
  /\ UNCHANGED <<enabled, edits, list, idle, todo, closing, raced, bound, generation, connection,
                  wanted, holder, dismissed, made, starts, stage, on, client, mine, uses, link>>
BY FeedNumbers DEF Typed, FanTyped, ClientsTyped, StartTyped, Forget, Moves, Forgotten, fanVars,
   clientsVars, startVars

LEMMA ErrsDoes ==
  ASSUME Typed, NEW t \in Starts, Errs(t)
  PROVE
  /\ link[t] = "active"
  /\ starts + 1 \in Starts
  /\ starts' = starts + 1
  /\ \A u \in Starts : stage'[u] = (IF u = starts + 1 THEN "failed" ELSE stage[u])
  /\ \A u \in Starts : client'[u] = (IF u = starts + 1 THEN client[t] ELSE client[u])
  /\ UNCHANGED <<enabled, edits, step, list, idle, todo, closing, extras, raced, bound,
                  generation, connection, wanted, holder, dismissed, made, mine, uses, link>>
<1>1. starts + 1 \in Starts
  BY FeedNumbers DEF Typed, ClientsTyped, Errs
<1> QED BY <1>1, FeedNumbers DEF Typed, StartTyped, Errs, fanVars, clientsVars

LEMMA RestartDoes ==
  ASSUME Typed, NEW t \in Starts, Restart(t)
  PROVE
  /\ stage[t] = "failed"
  /\ \E w \in {"ended", "begun", "stopping"} :
       \A u \in Starts : stage'[u] = (IF u = t THEN w ELSE stage[u])
  /\ UNCHANGED <<enabled, edits, step, list, idle, todo, closing, extras, raced, bound,
                  generation, connection, wanted, holder, dismissed, made, starts, on, client,
                  mine, uses, link>>
BY FeedNumbers DEF Typed, FanTyped, ClientsTyped, StartTyped, Restart, Goes, StartOnly, Onward,
   fanVars, clientsVars, startVars

LEMMA StopItselfDoes ==
  ASSUME Typed, NEW t \in Starts, StopItself(t)
  PROVE
  /\ stage[t] = "stopping"
  /\ holder[client[t]] = None
  /\ \A u \in Starts : stage'[u] = (IF u = t THEN "closing" ELSE stage[u])
  /\ \A c \in Clients : generation'[c] = (IF c = client[t] THEN generation[c] + 1 ELSE generation[c])
  /\ ~wanted'[client[t]] /\ \A c \in Clients \ {client[t]} : wanted'[c] = wanted[c]
  /\ \A u \in Starts : uses'[u] = (IF u = t THEN connection[client[t]] ELSE uses[u])
  /\ UNCHANGED <<enabled, edits, step, list, idle, todo, closing, extras, raced, bound,
                  connection, holder, dismissed, made, starts, on, client, mine, link>>
BY FeedNumbers DEF Typed, FanTyped, ClientsTyped, StartTyped, StopItself, Goes, StartOnly, fanVars,
   clientsVars, startVars

LEMMA CloseItselfDoes ==
  ASSUME Typed, NEW t \in Starts, CloseItself(t)
  PROVE
  /\ stage[t] = "closing"
  /\ \E w \in {"ended", "begun"} :
       \A u \in Starts : stage'[u] = (IF u = t THEN w ELSE stage[u])
  /\ \A j \in Starts : link'[j] = (IF j = uses[t] THEN "closed" ELSE link[j])
  /\ UNCHANGED <<enabled, edits, step, list, idle, todo, closing, extras, raced, bound,
                  generation, connection, wanted, holder, dismissed, made, starts, on, client,
                  mine, uses>>
<1>1. \A j \in Starts : link'[j] = (IF j = uses[t] THEN "closed" ELSE link[j])
  BY ClosedTyped DEF Typed, StartTyped, CloseItself
<1>2. \A u \in Starts : stage'[u] = (IF u = t THEN Onward(t) ELSE stage[u])
  BY DEF Typed, StartTyped, CloseItself, Goes
<1>3. Onward(t) \in {"ended", "begun"}
  BY DEF Onward
<1> QED BY <1>1, <1>2, <1>3 DEF CloseItself, StartOnly

LEMMA BeginDoes ==
  ASSUME Typed, NEW t \in Starts, Begin(t)
  PROVE
  /\ stage[t] = "begun"
  /\ holder[client[t]] = None
  /\ \A u \in Starts : stage'[u] = (IF u = t THEN "probing" ELSE stage[u])
  /\ \A c \in Clients : generation'[c] = (IF c = client[t] THEN generation[c] + 1 ELSE generation[c])
  /\ wanted'[client[t]] /\ \A c \in Clients \ {client[t]} : wanted'[c] = wanted[c]
  /\ \A u \in Starts : mine'[u] = (IF u = t THEN generation[client[t]] + 1 ELSE mine[u])
  /\ (raced' <=> raced \/ dismissed[client[t]])
  /\ UNCHANGED <<enabled, edits, step, list, idle, todo, closing, extras, bound, connection,
                  holder, dismissed, made, starts, on, client, uses, link>>
BY FeedNumbers DEF Typed, FanTyped, ClientsTyped, StartTyped, Begin, Goes, StartOnly,
   fanVars,
   clientsVars, startVars

LEMMA ProbeGivesUpDoes ==
  ASSUME Typed, NEW t \in Starts, ProbeGivesUp(t)
  PROVE
  /\ stage[t] = "probing"
  /\ \A u \in Starts : stage'[u] = (IF u = t THEN "ended" ELSE stage[u])
  /\ UNCHANGED <<enabled, edits, step, list, idle, todo, closing, extras, raced, bound,
                  generation, connection, wanted, holder, dismissed, made, starts, on, client,
                  mine, uses, link>>
BY FeedNumbers DEF Typed, FanTyped, ClientsTyped, StartTyped, ProbeGivesUp, Goes, StartOnly,
   fanVars, clientsVars, startVars

LEMMA ConfigureDoes ==
  ASSUME Typed, NEW t \in Starts, Configure(t)
  PROVE
  /\ stage[t] = "probing" /\ holder[client[t]] = None
  /\ \/ /\ \A u \in Starts : stage'[u] = (IF u = t THEN "ended" ELSE stage[u])
        /\ UNCHANGED <<holder, uses, link>>
     \/ /\ IsCurrent(t) /\ connection[client[t]] # None
        /\ \A u \in Starts : stage'[u] = (IF u = t THEN "looping" ELSE stage[u])
        /\ \A u \in Starts : uses'[u] = (IF u = t THEN connection[client[t]] ELSE uses[u])
        /\ UNCHANGED <<holder, link>>
     \/ /\ IsCurrent(t)
        /\ \A u \in Starts : stage'[u] = (IF u = t THEN "joining" ELSE stage[u])
        /\ \A c \in Clients : holder'[c] = (IF c = client[t] THEN t ELSE holder[c])
        /\ \A j \in Starts : link'[j] = (IF j = connection[client[t]] THEN "closed" ELSE link[j])
        /\ UNCHANGED uses
  /\ UNCHANGED <<enabled, edits, step, list, idle, todo, closing, extras, raced, bound,
                  generation, connection, wanted, dismissed, made, starts, on, client, mine>>
<1> DEFINE k == connection[client[t]]
<1>1. client[t] \in Clients /\ k \in Starts \cup {None}
  BY FeedNumbers DEF Typed, ClientsTyped, StartTyped
<1>2. ASSUME NEW w, Goes(t, w)
      PROVE  \A u \in Starts : stage'[u] = (IF u = t THEN w ELSE stage[u])
  BY <1>2 DEF Goes, Typed, StartTyped
<1>3. CASE Goes(t, "ended") /\ UNCHANGED <<holder, uses, link>>
  BY <1>2, <1>3 DEF Configure, StartOnly
<1>4. CASE /\ IsCurrent(t) /\ connection[client[t]] # None /\ Goes(t, "looping")
           /\ uses' = [uses EXCEPT ![t] = k] /\ UNCHANGED <<holder, link>>
  <2>1. \A u \in Starts : uses'[u] = (IF u = t THEN k ELSE uses[u])
    BY <1>4 DEF Typed, StartTyped
  <2> QED BY <1>2, <1>4, <2>1 DEF Configure, StartOnly
<1>5. CASE /\ IsCurrent(t) /\ Goes(t, "joining") /\ holder' = [holder EXCEPT ![client[t]] = t]
           /\ link' = Closed(k) /\ UNCHANGED uses
  <2>1. \A c \in Clients : holder'[c] = (IF c = client[t] THEN t ELSE holder[c])
    BY <1>5 DEF Typed, ClientsTyped
  <2>2. \A j \in Starts : link'[j] = (IF j = k THEN "closed" ELSE link[j])
    BY <1>5, <1>1, ClosedTyped DEF Typed
  <2> QED BY <1>2, <1>5, <2>1, <2>2 DEF Configure, StartOnly
<1> QED BY <1>3, <1>4, <1>5 DEF Configure

LEMMA BuildDoes ==
  ASSUME Typed, NEW t \in Starts, Build(t)
  PROVE
  /\ stage[t] = "joining"
  /\ \A u \in Starts : stage'[u] = (IF u = t THEN "looping" ELSE stage[u])
  /\ \A u \in Starts : uses'[u] = (IF u = t THEN t ELSE uses[u])
  /\ \A c \in Clients : connection'[c] = (IF c = client[t] THEN t ELSE connection[c])
  /\ \A c \in Clients : holder'[c] = (IF c = client[t] THEN None ELSE holder[c])
  /\ \A j \in Starts : link'[j] = (IF j = t THEN "built" ELSE link[j])
  /\ UNCHANGED <<enabled, edits, step, list, idle, todo, closing, extras, raced, bound,
                  generation, wanted, dismissed, made, starts, on, client, mine>>
BY FeedNumbers DEF Typed, FanTyped, ClientsTyped, StartTyped, Build, Goes, StartOnly,
   fanVars,
   clientsVars, startVars

LEMMA LoopDoes ==
  ASSUME Typed, NEW t \in Starts, Loop(t)
  PROVE
  /\ stage[t] = "looping"
  /\ \A u \in Starts :
       stage'[u] = (IF u = t THEN IF IsCurrent(t) THEN "starting" ELSE "checking" ELSE stage[u])
  /\ UNCHANGED <<enabled, edits, step, list, idle, todo, closing, extras, raced, bound,
                  generation, connection, wanted, holder, dismissed, made, starts, on, client,
                  mine, uses, link>>
BY FeedNumbers DEF Typed, FanTyped, ClientsTyped, StartTyped, Loop, Goes, StartOnly, ConnectOnly,
   IsCurrent, fanVars, clientsVars, startVars

LEMMA ConnectSucceedsDoes ==
  ASSUME Typed, NEW t \in Starts, ConnectSucceeds(t)
  PROVE
  /\ stage[t] = "starting"
  /\ \A u \in Starts : stage'[u] = (IF u = t THEN "checking" ELSE stage[u])
  /\ uses[t] # None => \A j \in Starts : link'[j] = (IF j = uses[t] THEN "active" ELSE link[j])
  /\ UNCHANGED <<enabled, edits, step, list, idle, todo, closing, extras, raced, bound,
                  generation, connection, wanted, holder, dismissed, made, starts, on, client,
                  mine, uses>>
BY FeedNumbers DEF Typed, FanTyped, ClientsTyped, StartTyped, ConnectSucceeds, Goes, StartOnly,
   ConnectOnly, fanVars, clientsVars, startVars

LEMMA ConnectFailsDoes ==
  ASSUME Typed, NEW t \in Starts, ConnectFails(t)
  PROVE
  /\ stage[t] = "starting"
  /\ \E w \in {"looping", "checking"} :
       \A u \in Starts : stage'[u] = (IF u = t THEN w ELSE stage[u])
  /\ \A j \in Starts : link'[j] = (IF j = uses[t] THEN "closed" ELSE link[j])
  /\ UNCHANGED <<enabled, edits, step, list, idle, todo, closing, extras, raced, bound,
                  generation, connection, wanted, holder, dismissed, made, starts, on, client,
                  mine, uses>>
<1> DEFINE w == IF KeepsRetrying(t) THEN "looping" ELSE "checking"
<1>1. \A j \in Starts : link'[j] = (IF j = uses[t] THEN "closed" ELSE link[j])
  BY ClosedTyped DEF Typed, StartTyped, ConnectFails
<1>2. w \in {"looping", "checking"} /\ \A u \in Starts : stage'[u] = (IF u = t THEN w ELSE stage[u])
  BY DEF Typed, StartTyped, ConnectFails, Goes
<1> HIDE DEF w
<1> QED BY <1>1, <1>2 DEF ConnectFails, ConnectOnly, StartOnly

LEMMA CheckDoes ==
  ASSUME Typed, NEW t \in Starts, Check(t)
  PROVE
  /\ stage[t] = "checking"
  /\ \A u \in Starts : stage'[u] = (IF u = t THEN "ended" ELSE stage[u])
  /\ \A j \in Starts : link'[j] = (IF j = uses[t] /\ ~IsCurrent(t) THEN "closed" ELSE link[j])
  /\ UNCHANGED <<enabled, edits, step, list, idle, todo, closing, extras, raced, bound,
                  generation, connection, wanted, holder, dismissed, made, starts, on, client,
                  mine, uses>>
<1>1. \A j \in Starts : link'[j] = (IF j = uses[t] /\ ~IsCurrent(t) THEN "closed" ELSE link[j])
  BY ClosedTyped DEF Typed, StartTyped, Check, ClosedIfRetired
<1>2. \A u \in Starts : stage'[u] = (IF u = t THEN "ended" ELSE stage[u])
  BY DEF Typed, StartTyped, Check, Goes
<1> QED BY <1>1, <1>2 DEF Check, ConnectOnly, StartOnly

LEMMA FeedRanges ==
  ASSUME Typed
  PROVE
  /\ \A t \in Starts :
       /\ t \in Nat /\ t # None /\ client[t] \in Clients /\ mine[t] \in Nat
       /\ uses[t] \in Starts \cup {None}
  /\ \A c \in Clients :
       /\ c \in Nat /\ generation[c] \in Nat /\ connection[c] \in Starts \cup {None}
       /\ wanted[c] \in BOOLEAN /\ holder[c] \in Starts \cup {None}
  /\ \A f \in Fanners : closing[f] \in Starts \cup {None}
  /\ made \in Nat /\ starts \in Nat
BY FeedNumbers DEF Typed, FanTyped, ClientsTyped, StartTyped

(* The threads of the others go on as they are while a fan-out binds.        *)
LEMMA BindKeeps ==
  ASSUME Typed, StartsMade, NEW f \in Fanners, Bind(f)
  PROVE
  /\ made <= made' /\ starts <= starts' /\ starts' \in Nat
  /\ \A t \in Starts : t <= starts => stage'[t] = stage[t] /\ client'[t] = client[t]
  /\ \A t \in Starts : t > starts => stage[t] = "none" /\ stage'[t] \in {"none", "begun"}
  /\ \A t \in Starts : t > starts' => stage'[t] = "none"
  /\ \A t \in Starts : client'[t] <= made'
  /\ \A i \in DOMAIN extras' : extras'[i] <= made'
  /\ \A c \in 1..made : dismissed'[c] = dismissed[c]
<1> USE FeedRanges DEF StartsMade
<1>1. CASE UNCHANGED <<extras, dismissed, made, starts, stage, client>>
  BY <1>1
<1>2. CASE \E n \in Nat \ {0} : Binds(n)
  <2>1. PICK n \in Nat \ {0} : Binds(n)
    BY <1>2
  <2>2. made <= made' /\ starts <= starts' /\ made' = made + n - 1 /\ starts' = starts + n
    BY <2>1 DEF Binds
  <2>3. ASSUME NEW t \in Starts
        PROVE  /\ t <= starts => stage'[t] = stage[t] /\ client'[t] = client[t]
               /\ t > starts => stage[t] = "none" /\ stage'[t] \in {"none", "begun"}
               /\ t > starts' => stage'[t] = "none"
    BY <2>1, <2>2 DEF Binds
  <2>4. ASSUME NEW t \in Starts PROVE client'[t] <= made'
    <3>1. client'[t] = (IF t = starts + 1 THEN Singleton
                        ELSE IF t \in starts + 2 .. starts' THEN made + t - starts - 1 ELSE client[t])
      BY <2>1 DEF Binds
    <3>2. client[t] \in Nat /\ client[t] <= made /\ Singleton = 0
      BY FeedNumbers DEF Typed
    <3> QED BY <2>2, <3>1, <3>2
  <2>5. ASSUME NEW i \in DOMAIN extras' PROVE extras'[i] <= made'
    <3> DEFINE added == [j \in 1..(n - 1) |-> made + j]
               m == Len(extras)
    <3>1. \A j \in 1..(n - 1) : made + j \in Nat
      OBVIOUS
    <3>2. n - 1 \in Nat /\ added \in [1..(n - 1) -> Nat]
      BY <3>1
    <3>3. added \in Seq(Nat) /\ Len(added) = n - 1
      BY <3>2
    <3>4. extras \in Seq(Clients \ {Singleton}) /\ extras' = extras \o added
      BY <2>1 DEF Typed, ExtrasTyped, Binds
    <3>5. m \in Nat /\ DOMAIN extras = 1..m /\ DOMAIN extras' = 1..(m + n - 1)
      BY <3>3, <3>4
    <3>6. CASE i \in 1..m
      <4>1. extras'[i] = extras[i] /\ extras[i] \in Clients /\ extras[i] <= made
        BY <3>3, <3>4, <3>5, <3>6
      <4> QED BY <2>2, <4>1
    <3>7. CASE i \in m + 1 .. m + n - 1
      <4>1. extras'[i] = made + i - m
        BY <3>3, <3>4, <3>5, <3>7
      <4> QED BY <2>2, <3>5, <3>7, <4>1
    <3> HIDE DEF m
    <3> QED BY <3>5, <3>6, <3>7
  <2>6. \A c \in 1..made : dismissed'[c] = dismissed[c]
    BY <2>1 DEF Binds
  <2> QED BY <2>2, <2>3, <2>4, <2>5, <2>6
<1> QED BY <1>1, <1>2, BindDoes

(* Who was about to close a connection still is; a fan-out that stops a client *)
(* is about to close the connection of it.                                   *)
LEMMA RetireClosers ==
  ASSUME Typed, Generations, Connected, NEW f \in Fanners, Retire(f), NEW k \in Starts
  PROVE  /\ Closer(k) => Closer(k)'
         /\ connection[Head(todo[f])] = k => Closer(k)'
<1> USE FeedRanges, RetireDoes
<1>1. ASSUME NEW g \in Fanners, step[g] = "closing", closing[g] = k PROVE Closer(k)'
  BY <1>1 DEF Closer
<1>2. ASSUME NEW t \in Starts, stage[t] = "closing", uses[t] = k PROVE Closer(k)'
  BY <1>2 DEF Closer
<1>3. ASSUME NEW t \in Starts, stage[t] = "checking", uses[t] = k, ~IsCurrent(t) PROVE Closer(k)'
  <2>1. mine[t] <= generation[client[t]]
    BY <1>3 DEF Generations, Connecting
  <2>2. ~IsCurrent(t)'
    BY <1>3, <2>1 DEF IsCurrent
  <2> QED BY <1>3, <2>2 DEF Closer
<1>4. ASSUME connection[Head(todo[f])] = k PROVE Closer(k)'
  BY <1>4 DEF Closer
<1> QED BY <1>1, <1>2, <1>3, <1>4 DEF Closer

LEMMA BindClosers ==
  ASSUME Typed, StartsMade, NEW f \in Fanners, Bind(f), NEW k \in Starts
  PROVE  Closer(k) => Closer(k)'
<1> USE FeedRanges, BindDoes, BindKeeps
<1>1. ASSUME NEW g \in Fanners, step[g] = "closing", closing[g] = k PROVE Closer(k)'
  BY <1>1 DEF Closer
<1>2. ASSUME NEW t \in Starts, stage[t] \in {"closing", "checking"}
      PROVE  /\ stage'[t] = stage[t] /\ client'[t] = client[t] /\ uses'[t] = uses[t]
             /\ IsCurrent(t)' <=> IsCurrent(t)
  BY <1>2 DEF IsCurrent
<1> QED BY <1>1, <1>2 DEF Closer

-----------------------------------------------------------------------------
(* The parts of the invariant, one by one.                                   *)
LEMMA StartsMadeStep ==
  ASSUME Typed, StartsMade, Connected, [FeedNext]_feedVars
  PROVE  StartsMade'
<1> USE FeedRanges DEF StartsMade, Connected, Connecting, Attached, IsCurrent
<1>1. ASSUME NEW f \in Fanners, Edit(f) PROVE StartsMade'
  BY <1>1, EditDoes
<1>2. ASSUME NEW f \in Fanners, Enumerate(f) PROVE StartsMade'
  BY <1>2, EnumerateDoes
<1>3. ASSUME NEW f \in Fanners, Retire(f) PROVE StartsMade'
  BY <1>3, RetireDoes
<1>4. ASSUME NEW f \in Fanners, Close(f) PROVE StartsMade'
  BY <1>4, CloseDoes
<1>5. ASSUME NEW f \in Fanners, Forget(f) PROVE StartsMade'
  BY <1>5, ForgetDoes
<1>6. ASSUME NEW f \in Fanners, Bind(f) PROVE StartsMade'
  BY <1>6, BindDoes, BindKeeps
<1>7. ASSUME NEW t \in Starts, Errs(t) PROVE StartsMade'
  BY <1>7, ErrsDoes
<1>8. ASSUME NEW t \in Starts, Restart(t) PROVE StartsMade'
  BY <1>8, RestartDoes
<1>9. ASSUME NEW t \in Starts, StopItself(t) PROVE StartsMade'
  BY <1>9, StopItselfDoes
<1>10. ASSUME NEW t \in Starts, CloseItself(t) PROVE StartsMade'
  BY <1>10, CloseItselfDoes
<1>11. ASSUME NEW t \in Starts, Begin(t) PROVE StartsMade'
  BY <1>11, BeginDoes
<1>12. ASSUME NEW t \in Starts, ProbeGivesUp(t) PROVE StartsMade'
  BY <1>12, ProbeGivesUpDoes
<1>13. ASSUME NEW t \in Starts, Configure(t) PROVE StartsMade'
  BY <1>13, ConfigureDoes
<1>14. ASSUME NEW t \in Starts, Build(t) PROVE StartsMade'
  BY <1>14, BuildDoes
<1>15. ASSUME NEW t \in Starts, Loop(t) PROVE StartsMade'
  BY <1>15, LoopDoes
<1>16. ASSUME NEW t \in Starts, ConnectSucceeds(t) PROVE StartsMade'
  BY <1>16, ConnectSucceedsDoes
<1>17. ASSUME NEW t \in Starts, ConnectFails(t) PROVE StartsMade'
  BY <1>17, ConnectFailsDoes
<1>18. ASSUME NEW t \in Starts, Check(t) PROVE StartsMade'
  BY <1>18, CheckDoes
<1>19. CASE UNCHANGED feedVars
  BY <1>19 DEF feedVars, fanVars, clientsVars, startVars
<1> QED BY <1>1, <1>2, <1>3, <1>4, <1>5, <1>6, <1>7, <1>8, <1>9, <1>10, <1>11, <1>12, <1>13, <1>14,
    <1>15, <1>16, <1>17, <1>18, <1>19 DEF FeedNext, FanOut, Start

LEMMA GenerationsStep ==
  ASSUME Typed, StartsMade, Generations, [FeedNext]_feedVars
  PROVE  Generations'
<1> USE FeedRanges DEF StartsMade, Generations, Connecting, Attached, IsCurrent
<1>1. ASSUME NEW f \in Fanners, Edit(f) PROVE Generations'
  BY <1>1, EditDoes
<1>2. ASSUME NEW f \in Fanners, Enumerate(f) PROVE Generations'
  BY <1>2, EnumerateDoes
<1>3. ASSUME NEW f \in Fanners, Retire(f) PROVE Generations'
  BY <1>3, RetireDoes
<1>4. ASSUME NEW f \in Fanners, Close(f) PROVE Generations'
  BY <1>4, CloseDoes
<1>5. ASSUME NEW f \in Fanners, Forget(f) PROVE Generations'
  BY <1>5, ForgetDoes
<1>6. ASSUME NEW f \in Fanners, Bind(f) PROVE Generations'
  BY <1>6, BindDoes, BindKeeps
<1>7. ASSUME NEW t \in Starts, Errs(t) PROVE Generations'
  BY <1>7, ErrsDoes
<1>8. ASSUME NEW t \in Starts, Restart(t) PROVE Generations'
  BY <1>8, RestartDoes
<1>9. ASSUME NEW t \in Starts, StopItself(t) PROVE Generations'
  BY <1>9, StopItselfDoes
<1>10. ASSUME NEW t \in Starts, CloseItself(t) PROVE Generations'
  BY <1>10, CloseItselfDoes
<1>11. ASSUME NEW t \in Starts, Begin(t) PROVE Generations'
  BY <1>11, BeginDoes
<1>12. ASSUME NEW t \in Starts, ProbeGivesUp(t) PROVE Generations'
  BY <1>12, ProbeGivesUpDoes
<1>13. ASSUME NEW t \in Starts, Configure(t) PROVE Generations'
  BY <1>13, ConfigureDoes
<1>14. ASSUME NEW t \in Starts, Build(t) PROVE Generations'
  BY <1>14, BuildDoes
<1>15. ASSUME NEW t \in Starts, Loop(t) PROVE Generations'
  BY <1>15, LoopDoes
<1>16. ASSUME NEW t \in Starts, ConnectSucceeds(t) PROVE Generations'
  BY <1>16, ConnectSucceedsDoes
<1>17. ASSUME NEW t \in Starts, ConnectFails(t) PROVE Generations'
  BY <1>17, ConnectFailsDoes
<1>18. ASSUME NEW t \in Starts, Check(t) PROVE Generations'
  BY <1>18, CheckDoes
<1>19. CASE UNCHANGED feedVars
  BY <1>19 DEF feedVars, fanVars, clientsVars, startVars
<1> QED BY <1>1, <1>2, <1>3, <1>4, <1>5, <1>6, <1>7, <1>8, <1>9, <1>10, <1>11, <1>12, <1>13, <1>14,
    <1>15, <1>16, <1>17, <1>18, <1>19 DEF FeedNext, FanOut, Start

LEMMA ConnectedStep ==
  ASSUME Typed, StartsMade, Connected, [FeedNext]_feedVars
  PROVE  Connected'
<1> USE FeedRanges DEF StartsMade, Connected, Connecting, Attached, IsCurrent
<1>1. ASSUME NEW f \in Fanners, Edit(f) PROVE Connected'
  BY <1>1, EditDoes
<1>2. ASSUME NEW f \in Fanners, Enumerate(f) PROVE Connected'
  BY <1>2, EnumerateDoes
<1>3. ASSUME NEW f \in Fanners, Retire(f) PROVE Connected'
  BY <1>3, RetireDoes
<1>4. ASSUME NEW f \in Fanners, Close(f) PROVE Connected'
  BY <1>4, CloseDoes
<1>5. ASSUME NEW f \in Fanners, Forget(f) PROVE Connected'
  BY <1>5, ForgetDoes
<1>6. ASSUME NEW f \in Fanners, Bind(f) PROVE Connected'
  BY <1>6, BindDoes, BindKeeps
<1>7. ASSUME NEW t \in Starts, Errs(t) PROVE Connected'
  BY <1>7, ErrsDoes
<1>8. ASSUME NEW t \in Starts, Restart(t) PROVE Connected'
  BY <1>8, RestartDoes
<1>9. ASSUME NEW t \in Starts, StopItself(t) PROVE Connected'
  BY <1>9, StopItselfDoes
<1>10. ASSUME NEW t \in Starts, CloseItself(t) PROVE Connected'
  BY <1>10, CloseItselfDoes
<1>11. ASSUME NEW t \in Starts, Begin(t) PROVE Connected'
  BY <1>11, BeginDoes
<1>12. ASSUME NEW t \in Starts, ProbeGivesUp(t) PROVE Connected'
  BY <1>12, ProbeGivesUpDoes
<1>13. ASSUME NEW t \in Starts, Configure(t) PROVE Connected'
  BY <1>13, ConfigureDoes
<1>14. ASSUME NEW t \in Starts, Build(t) PROVE Connected'
  BY <1>14, BuildDoes
<1>15. ASSUME NEW t \in Starts, Loop(t) PROVE Connected'
  BY <1>15, LoopDoes
<1>16. ASSUME NEW t \in Starts, ConnectSucceeds(t) PROVE Connected'
  BY <1>16, ConnectSucceedsDoes
<1>17. ASSUME NEW t \in Starts, ConnectFails(t) PROVE Connected'
  BY <1>17, ConnectFailsDoes
<1>18. ASSUME NEW t \in Starts, Check(t) PROVE Connected'
  BY <1>18, CheckDoes
<1>19. CASE UNCHANGED feedVars
  BY <1>19 DEF feedVars, fanVars, clientsVars, startVars
<1> QED BY <1>1, <1>2, <1>3, <1>4, <1>5, <1>6, <1>7, <1>8, <1>9, <1>10, <1>11, <1>12, <1>13, <1>14,
    <1>15, <1>16, <1>17, <1>18, <1>19 DEF FeedNext, FanOut, Start

LEMMA CurrentStep ==
  ASSUME Typed, StartsMade, Generations, Connected, Current, Locked, [FeedNext]_feedVars
  PROVE  Current'
<1> USE FeedRanges DEF StartsMade, Generations, Current, Locked, Connecting, Attached, IsCurrent
<1>1. ASSUME NEW f \in Fanners, Edit(f) PROVE Current'
  BY <1>1, EditDoes
<1>2. ASSUME NEW f \in Fanners, Enumerate(f) PROVE Current'
  BY <1>2, EnumerateDoes
<1>3. ASSUME NEW f \in Fanners, Retire(f) PROVE Current'
  <2> USE <1>3, RetireDoes
  <2>1. ASSUME NEW t \in Starts, stage[t] \in Connecting, IsCurrent(t)'
        PROVE  client[t] # Head(todo[f]) /\ IsCurrent(t)
    BY <2>1
  <2> QED BY <2>1
<1>4. ASSUME NEW f \in Fanners, Close(f) PROVE Current'
  BY <1>4, CloseDoes
<1>5. ASSUME NEW f \in Fanners, Forget(f) PROVE Current'
  BY <1>5, ForgetDoes
<1>6. ASSUME NEW f \in Fanners, Bind(f) PROVE Current'
  BY <1>6, BindDoes, BindKeeps
<1>7. ASSUME NEW t \in Starts, Errs(t) PROVE Current'
  BY <1>7, ErrsDoes
<1>8. ASSUME NEW t \in Starts, Restart(t) PROVE Current'
  BY <1>8, RestartDoes
<1>9. ASSUME NEW t \in Starts, StopItself(t) PROVE Current'
  BY <1>9, StopItselfDoes
<1>10. ASSUME NEW t \in Starts, CloseItself(t) PROVE Current'
  BY <1>10, CloseItselfDoes
<1>11. ASSUME NEW t \in Starts, Begin(t) PROVE Current'
  BY <1>11, BeginDoes
<1>12. ASSUME NEW t \in Starts, ProbeGivesUp(t) PROVE Current'
  BY <1>12, ProbeGivesUpDoes
<1>13. ASSUME NEW t \in Starts, Configure(t) PROVE Current'
  BY <1>13, ConfigureDoes
<1>14. ASSUME NEW t \in Starts, Build(t) PROVE Current'
  BY <1>14, BuildDoes
<1>15. ASSUME NEW t \in Starts, Loop(t) PROVE Current'
  BY <1>15, LoopDoes
<1>16. ASSUME NEW t \in Starts, ConnectSucceeds(t) PROVE Current'
  BY <1>16, ConnectSucceedsDoes
<1>17. ASSUME NEW t \in Starts, ConnectFails(t) PROVE Current'
  BY <1>17, ConnectFailsDoes
<1>18. ASSUME NEW t \in Starts, Check(t) PROVE Current'
  BY <1>18, CheckDoes
<1>19. CASE UNCHANGED feedVars
  BY <1>19 DEF feedVars, fanVars, clientsVars, startVars
<1> QED BY <1>1, <1>2, <1>3, <1>4, <1>5, <1>6, <1>7, <1>8, <1>9, <1>10, <1>11, <1>12, <1>13, <1>14,
    <1>15, <1>16, <1>17, <1>18, <1>19 DEF FeedNext, FanOut, Start

LEMMA LockedStep ==
  ASSUME Typed, StartsMade, Locked, [FeedNext]_feedVars
  PROVE  Locked'
<1> USE FeedRanges DEF StartsMade, Locked, Connecting, Attached, IsCurrent
<1>1. ASSUME NEW f \in Fanners, Edit(f) PROVE Locked'
  BY <1>1, EditDoes
<1>2. ASSUME NEW f \in Fanners, Enumerate(f) PROVE Locked'
  BY <1>2, EnumerateDoes
<1>3. ASSUME NEW f \in Fanners, Retire(f) PROVE Locked'
  BY <1>3, RetireDoes
<1>4. ASSUME NEW f \in Fanners, Close(f) PROVE Locked'
  BY <1>4, CloseDoes
<1>5. ASSUME NEW f \in Fanners, Forget(f) PROVE Locked'
  BY <1>5, ForgetDoes
<1>6. ASSUME NEW f \in Fanners, Bind(f) PROVE Locked'
  BY <1>6, BindDoes, BindKeeps
<1>7. ASSUME NEW t \in Starts, Errs(t) PROVE Locked'
  BY <1>7, ErrsDoes
<1>8. ASSUME NEW t \in Starts, Restart(t) PROVE Locked'
  BY <1>8, RestartDoes
<1>9. ASSUME NEW t \in Starts, StopItself(t) PROVE Locked'
  BY <1>9, StopItselfDoes
<1>10. ASSUME NEW t \in Starts, CloseItself(t) PROVE Locked'
  BY <1>10, CloseItselfDoes
<1>11. ASSUME NEW t \in Starts, Begin(t) PROVE Locked'
  BY <1>11, BeginDoes
<1>12. ASSUME NEW t \in Starts, ProbeGivesUp(t) PROVE Locked'
  BY <1>12, ProbeGivesUpDoes
<1>13. ASSUME NEW t \in Starts, Configure(t) PROVE Locked'
  BY <1>13, ConfigureDoes
<1>14. ASSUME NEW t \in Starts, Build(t) PROVE Locked'
  BY <1>14, BuildDoes
<1>15. ASSUME NEW t \in Starts, Loop(t) PROVE Locked'
  BY <1>15, LoopDoes
<1>16. ASSUME NEW t \in Starts, ConnectSucceeds(t) PROVE Locked'
  BY <1>16, ConnectSucceedsDoes
<1>17. ASSUME NEW t \in Starts, ConnectFails(t) PROVE Locked'
  BY <1>17, ConnectFailsDoes
<1>18. ASSUME NEW t \in Starts, Check(t) PROVE Locked'
  BY <1>18, CheckDoes
<1>19. CASE UNCHANGED feedVars
  BY <1>19 DEF feedVars, fanVars, clientsVars, startVars
<1> QED BY <1>1, <1>2, <1>3, <1>4, <1>5, <1>6, <1>7, <1>8, <1>9, <1>10, <1>11, <1>12, <1>13, <1>14,
    <1>15, <1>16, <1>17, <1>18, <1>19 DEF FeedNext, FanOut, Start

LEMMA OwnedStep ==
  ASSUME Typed, StartsMade, Generations, Connected, Current, Locked, Owned, JoinedClosed,
         [FeedNext]_feedVars
  PROVE  Owned'
<1> USE FeedRanges DEF StartsMade, Generations, Connected, Current, Owned, JoinedClosed, Closer,
       Connecting, Attached, IsCurrent
<1>1. ASSUME NEW f \in Fanners, Edit(f) PROVE Owned'
  BY <1>1, EditDoes
<1>2. ASSUME NEW f \in Fanners, Enumerate(f) PROVE Owned'
  BY <1>2, EnumerateDoes
<1>3. ASSUME NEW f \in Fanners, Retire(f) PROVE Owned'
  <2>1. ASSUME NEW k \in Starts, Closer(k) PROVE Closer(k)'
    BY <1>3, <2>1, RetireClosers
  <2>2. ASSUME NEW k \in Starts, connection[Head(todo[f])] = k PROVE Closer(k)'
    BY <1>3, <2>2, RetireClosers
  <2> HIDE DEF Closer
  <2> QED BY <1>3, <2>1, <2>2, RetireDoes
<1>4. ASSUME NEW f \in Fanners, Close(f) PROVE Owned'
  BY <1>4, CloseDoes
<1>5. ASSUME NEW f \in Fanners, Forget(f) PROVE Owned'
  <2>1. ASSUME NEW k \in Starts, Closer(k) PROVE Closer(k)'
    BY <1>5, <2>1, ForgetDoes
  <2> HIDE DEF Closer
  <2> QED BY <1>5, <2>1, ForgetDoes
<1>6. ASSUME NEW f \in Fanners, Bind(f) PROVE Owned'
  <2>1. ASSUME NEW k \in Starts, Closer(k) PROVE Closer(k)'
    BY <1>6, <2>1, BindClosers
  <2> HIDE DEF Closer
  <2> QED BY <1>6, <2>1, BindDoes, BindKeeps
<1>7. ASSUME NEW t \in Starts, Errs(t) PROVE Owned'
  BY <1>7, ErrsDoes
<1>8. ASSUME NEW t \in Starts, Restart(t) PROVE Owned'
  BY <1>8, RestartDoes
<1>9. ASSUME NEW t \in Starts, StopItself(t) PROVE Owned'
  BY <1>9, StopItselfDoes
<1>10. ASSUME NEW t \in Starts, CloseItself(t) PROVE Owned'
  BY <1>10, CloseItselfDoes
<1>11. ASSUME NEW t \in Starts, Begin(t) PROVE Owned'
  BY <1>11, BeginDoes
<1>12. ASSUME NEW t \in Starts, ProbeGivesUp(t) PROVE Owned'
  BY <1>12, ProbeGivesUpDoes
<1>13. ASSUME NEW t \in Starts, Configure(t) PROVE Owned'
  BY <1>13, ConfigureDoes
<1>14. ASSUME NEW t \in Starts, Build(t) PROVE Owned'
  BY <1>14, BuildDoes
<1>15. ASSUME NEW t \in Starts, Loop(t) PROVE Owned'
  BY <1>15, LoopDoes
<1>16. ASSUME NEW t \in Starts, ConnectSucceeds(t) PROVE Owned'
  BY <1>16, ConnectSucceedsDoes
<1>17. ASSUME NEW t \in Starts, ConnectFails(t) PROVE Owned'
  BY <1>17, ConnectFailsDoes
<1>18. ASSUME NEW t \in Starts, Check(t) PROVE Owned'
  BY <1>18, CheckDoes
<1>19. CASE UNCHANGED feedVars
  BY <1>19 DEF feedVars, fanVars, clientsVars, startVars
<1> QED BY <1>1, <1>2, <1>3, <1>4, <1>5, <1>6, <1>7, <1>8, <1>9, <1>10, <1>11, <1>12, <1>13, <1>14,
    <1>15, <1>16, <1>17, <1>18, <1>19 DEF FeedNext, FanOut, Start

LEMMA JoinedClosedStep ==
  ASSUME Typed, StartsMade, Generations, Connected, Current, Locked, JoinedClosed,
         [FeedNext]_feedVars
  PROVE  JoinedClosed'
<1> USE FeedRanges DEF StartsMade, Generations, Connected, Locked, JoinedClosed, Closer,
       Connecting, Attached, IsCurrent
<1>1. ASSUME NEW f \in Fanners, Edit(f) PROVE JoinedClosed'
  BY <1>1, EditDoes
<1>2. ASSUME NEW f \in Fanners, Enumerate(f) PROVE JoinedClosed'
  BY <1>2, EnumerateDoes
<1>3. ASSUME NEW f \in Fanners, Retire(f) PROVE JoinedClosed'
  <2>1. ASSUME NEW k \in Starts, Closer(k) PROVE Closer(k)'
    BY <1>3, <2>1, RetireClosers
  <2>2. ASSUME NEW k \in Starts, connection[Head(todo[f])] = k PROVE Closer(k)'
    BY <1>3, <2>2, RetireClosers
  <2> HIDE DEF Closer
  <2> QED BY <1>3, <2>1, <2>2, RetireDoes
<1>4. ASSUME NEW f \in Fanners, Close(f) PROVE JoinedClosed'
  BY <1>4, CloseDoes
<1>5. ASSUME NEW f \in Fanners, Forget(f) PROVE JoinedClosed'
  <2>1. ASSUME NEW k \in Starts, Closer(k) PROVE Closer(k)'
    BY <1>5, <2>1, ForgetDoes
  <2> HIDE DEF Closer
  <2> QED BY <1>5, <2>1, ForgetDoes
<1>6. ASSUME NEW f \in Fanners, Bind(f) PROVE JoinedClosed'
  <2>1. ASSUME NEW k \in Starts, Closer(k) PROVE Closer(k)'
    BY <1>6, <2>1, BindClosers
  <2> HIDE DEF Closer
  <2> QED BY <1>6, <2>1, BindDoes, BindKeeps
<1>7. ASSUME NEW t \in Starts, Errs(t) PROVE JoinedClosed'
  BY <1>7, ErrsDoes
<1>8. ASSUME NEW t \in Starts, Restart(t) PROVE JoinedClosed'
  BY <1>8, RestartDoes
<1>9. ASSUME NEW t \in Starts, StopItself(t) PROVE JoinedClosed'
  BY <1>9, StopItselfDoes
<1>10. ASSUME NEW t \in Starts, CloseItself(t) PROVE JoinedClosed'
  BY <1>10, CloseItselfDoes
<1>11. ASSUME NEW t \in Starts, Begin(t) PROVE JoinedClosed'
  BY <1>11, BeginDoes
<1>12. ASSUME NEW t \in Starts, ProbeGivesUp(t) PROVE JoinedClosed'
  BY <1>12, ProbeGivesUpDoes
<1>13. ASSUME NEW t \in Starts, Configure(t) PROVE JoinedClosed'
  BY <1>13, ConfigureDoes
<1>14. ASSUME NEW t \in Starts, Build(t) PROVE JoinedClosed'
  BY <1>14, BuildDoes
<1>15. ASSUME NEW t \in Starts, Loop(t) PROVE JoinedClosed'
  BY <1>15, LoopDoes
<1>16. ASSUME NEW t \in Starts, ConnectSucceeds(t) PROVE JoinedClosed'
  BY <1>16, ConnectSucceedsDoes
<1>17. ASSUME NEW t \in Starts, ConnectFails(t) PROVE JoinedClosed'
  BY <1>17, ConnectFailsDoes
<1>18. ASSUME NEW t \in Starts, Check(t) PROVE JoinedClosed'
  BY <1>18, CheckDoes
<1>19. CASE UNCHANGED feedVars
  BY <1>19 DEF feedVars, fanVars, clientsVars, startVars
<1> QED BY <1>1, <1>2, <1>3, <1>4, <1>5, <1>6, <1>7, <1>8, <1>9, <1>10, <1>11, <1>12, <1>13, <1>14,
    <1>15, <1>16, <1>17, <1>18, <1>19 DEF FeedNext, FanOut, Start

LEMMA ListedStep ==
  ASSUME Typed, StartsMade, (raced \/ Listed), [FeedNext]_feedVars
  PROVE  (raced \/ Listed)'
<1> SUFFICES ASSUME ~raced' PROVE Listed'
  OBVIOUS
<1> USE FeedRanges, FeedNumbers
<1>1. ASSUME NEW f \in Fanners, Edit(f) PROVE Listed'
  <2>1. ~raced /\ Listed /\ \A g \in Fanners : step[g] = "idle"
    BY <1>1, EditDoes
  <2> QED BY <1>1, <2>1, EditDoes DEF Listed, Dismissed
<1>2. ASSUME NEW f \in Fanners, Enumerate(f) PROVE Listed'
  <2>1. ~raced /\ Listed
    BY <1>2, EnumerateDoes
  <2>2. extras \in Seq(Clients \ {Singleton})
    BY DEF Typed, ExtrasTyped
  <2>3. ASSUME NEW c \in ToSet(extras) PROVE c \in ToSet(todo'[f])
    <3>1. PICK i \in DOMAIN extras : c = extras[i]
      BY <2>3 DEF ToSet
    <3>2. todo'[f] = <<Singleton>> \o extras
      BY <1>2, EnumerateDoes
    <3>3. i + 1 \in DOMAIN todo'[f] /\ todo'[f][i + 1] = c
      BY <2>2, <3>1, <3>2
    <3> QED BY <3>3 DEF ToSet
  <2>4. extras' = extras /\ made' = made /\ \A c \in Nat : Dismissed(c)' <=> Dismissed(c)
    BY <1>2, EnumerateDoes DEF Dismissed
  <2>5. /\ step[f] = "enumerating"
        /\ \A g \in Fanners : step'[g] = (IF g = f THEN "retiring" ELSE step[g])
    BY <1>2, EnumerateDoes
  <2>6. \A g \in Fanners : step'[g] # "idle" => g = f
    BY <2>1, <2>5 DEF Listed
  <2>7. \A c \in 1..made : c \in ToSet(extras) \/ Dismissed(c)
    BY <2>1 DEF Listed
  <2>8. ToSet(extras)' = ToSet(extras) /\ 1..made \subseteq Nat
    BY <2>4 DEF ToSet
  <2> HIDE DEF Dismissed
  <2>9. \A c \in 1..made' : c \in ToSet(extras)' \/ Dismissed(c)'
    BY <2>4, <2>7, <2>8
  <2>10. \A g \in Fanners : step'[g] # "binding"
    BY <2>5, <2>6
  <2> QED BY <2>3, <2>6, <2>8, <2>9, <2>10 DEF Listed
<1>3. ASSUME NEW f \in Fanners, Retire(f) PROVE Listed'
  <2> PICK c \in Clients : c = Head(todo[f])
    BY <1>3, RetireDoes
  <2>1. ~raced /\ Listed /\ extras' = extras /\ made' = made
    BY <1>3, RetireDoes
  <2>2. Dismissed(c)' /\ \A d \in Clients : Dismissed(d) => Dismissed(d)'
    <3>1. /\ dismissed'[c] /\ ~wanted'[c]
          /\ \A d \in Clients \ {c} : dismissed'[d] = dismissed[d] /\ wanted'[d] = wanted[d]
      BY <1>3, RetireDoes
    <3>2. ASSUME NEW d \in Clients, Dismissed(d) PROVE Dismissed(d)'
      BY <3>1, <3>2, Zenon DEF Dismissed
    <3>3. Dismissed(c)'
      BY <3>1 DEF Dismissed
    <3> QED BY <3>1, <3>2, <3>3
  <2>3. \A d \in ToSet(todo[f]) : d = c \/ d \in ToSet(todo'[f])
    BY <1>3, RetireDoes, HeadTail DEF Typed
  <2>4. step[f] = "retiring" /\ \A g \in Fanners : step'[g] = (IF g = f THEN "closing" ELSE step[g])
    BY <1>3, RetireDoes
  <2>5. \A g \in Fanners : step'[g] # "idle" => g = f
    BY <2>1, <2>4 DEF Listed
  <2>6. ToSet(extras) \subseteq Clients /\ 1..made \subseteq Clients
    BY DEF Typed, ExtrasTyped, ClientsTyped, ToSet
  <2> HIDE DEF Dismissed
  <2>7. \A d \in ToSet(extras) : d \in ToSet(todo'[f]) \/ Dismissed(d)'
    <3> SUFFICES ASSUME NEW d \in ToSet(extras) PROVE d \in ToSet(todo'[f]) \/ Dismissed(d)'
      OBVIOUS
    <3>1. d \in ToSet(todo[f]) \/ Dismissed(d)
      BY <2>1, <2>4 DEF Listed
    <3> QED BY <2>2, <2>3, <2>6, <3>1
  <2>8. \A d \in 1..made : d \in ToSet(extras) \/ Dismissed(d)'
    BY <2>1, <2>2, <2>6 DEF Listed
  <2> QED BY <2>1, <2>4, <2>5, <2>7, <2>8 DEF Listed
<1>4. ASSUME NEW f \in Fanners, Close(f) PROVE Listed'
  <2>1. /\ ~raced /\ Listed /\ extras' = extras /\ made' = made /\ todo' = todo
        /\ dismissed' = dismissed /\ wanted' = wanted
    BY <1>4, CloseDoes
  <2>2. /\ step[f] = "closing"
        /\ \A g \in Fanners : step'[g] = (IF g = f THEN "retiring" ELSE step[g])
    BY <1>4, CloseDoes
  <2>3. \A c \in Nat : Dismissed(c)' <=> Dismissed(c)
    BY <2>1 DEF Dismissed
  <2>4. ToSet(extras)' = ToSet(extras) /\ \A g \in Fanners : ToSet(todo[g])' = ToSet(todo[g])
    BY <2>1
  <2>5. ToSet(extras) \subseteq Nat /\ 1..made \subseteq Nat
    BY DEF Typed, ExtrasTyped, ClientsTyped, ToSet
  <2> HIDE DEF Dismissed
  <2>6. \A g, h \in Fanners : step'[g] # "idle" /\ step'[h] # "idle" => g = h
    BY <2>1, <2>2 DEF Listed
  <2>7. \A g \in Fanners : step'[g] = "binding" => extras' = <<>>
    BY <2>1, <2>2 DEF Listed
  <2>8. \A c \in 1..made' : c \in ToSet(extras)' \/ Dismissed(c)'
    BY <2>1, <2>3, <2>4, <2>5 DEF Listed
  <2>9. \A g \in Fanners : step'[g] \in {"retiring", "closing"} =>
          \A c \in ToSet(extras)' : c \in ToSet(todo[g])' \/ Dismissed(c)'
    <3> SUFFICES ASSUME NEW g \in Fanners, step'[g] \in {"retiring", "closing"},
                        NEW c \in ToSet(extras)
                 PROVE  c \in ToSet(todo[g]) \/ Dismissed(c)'
      BY <2>4
    <3>1. step[g] \in {"retiring", "closing"}
      BY <2>2
    <3> QED BY <2>1, <2>3, <2>5, <3>1 DEF Listed
  <2> QED BY <2>6, <2>7, <2>8, <2>9 DEF Listed
<1>5. ASSUME NEW f \in Fanners, Forget(f) PROVE Listed'
  <2>1. ~raced /\ Listed /\ made' = made /\ extras' = <<>>
    BY <1>5, ForgetDoes
  <2>2. \A c \in Nat : Dismissed(c)' <=> Dismissed(c)
    BY <1>5, ForgetDoes DEF Dismissed
  <2>3. /\ step[f] = "retiring" /\ todo[f] = <<>>
        /\ \A g \in Fanners : step'[g] = (IF g = f THEN "binding" ELSE step[g])
    BY <1>5, ForgetDoes
  <2>4. \A c \in 1..made : Dismissed(c)
    BY <2>1, <2>3 DEF Listed, ToSet
  <2>5. \A g \in Fanners : step'[g] # "idle" => g = f
    BY <2>1, <2>3 DEF Listed
  <2> QED BY <2>1, <2>2, <2>3, <2>4, <2>5 DEF Listed
<1>6. ASSUME NEW f \in Fanners, Bind(f) PROVE Listed'
  <2>1. ~raced /\ Listed /\ extras = <<>>
    BY <1>6, BindDoes DEF Listed
  <2>2. step[f] = "binding" /\ \A g \in Fanners : step'[g] = (IF g = f THEN "idle" ELSE step[g])
    BY <1>6, BindDoes
  <2>3. \A g \in Fanners : step'[g] = "idle"
    BY <2>1, <2>2 DEF Listed
  <2>4. \A c \in 1..made : Dismissed(c)'
    <3>1. wanted' = wanted /\ \A c \in 1..made : dismissed'[c] = dismissed[c]
      BY <1>6, BindDoes, BindKeeps
    <3> QED BY <2>1, <3>1 DEF Listed, Dismissed, ToSet
  <2>5. \A c \in made + 1 .. made' : c \in ToSet(extras')
    <3>1. CASE made' = made
      BY <3>1
    <3>2. CASE \E n \in Nat \ {0} : Binds(n)
      <4>1. PICK n \in Nat \ {0} : made' = made + n - 1 /\ extras' = <<>> \o [i \in 1..(n - 1) |-> made + i]
        BY <2>1, <3>2 DEF Binds
      <4>2. n - 1 \in Nat /\ \A i \in 1..(n - 1) : made + i \in Nat
        OBVIOUS
      <4>3. [i \in 1..(n - 1) |-> made + i] \in Seq(Nat)
        BY <4>2
      <4>4. extras' = [i \in 1..(n - 1) |-> made + i]
        BY <4>1, <4>3
      <4>5. ASSUME NEW c \in made + 1 .. made' PROVE c \in ToSet(extras')
        <5>1. c - made \in 1..(n - 1) /\ c = made + (c - made)
          BY <4>1
        <5>2. c - made \in DOMAIN extras' /\ extras'[c - made] = c
          BY <4>4, <5>1
        <5> QED BY <5>2 DEF ToSet
      <4> QED BY <4>5
    <3> QED BY <1>6, <3>1, <3>2, BindDoes
  <2>6. made' \in Nat /\ made <= made'
    <3>1. made' \in Nat
      BY <1>6, BindDoes DEF Binds
    <3> QED BY <1>6, <3>1, BindKeeps
  <2>7. \A c \in 1..made' : c \in 1..made \/ c \in made + 1 .. made'
    BY <2>6
  <2> QED BY <2>3, <2>4, <2>5, <2>7 DEF Listed
<1>7. ASSUME NEW t \in Starts, Begin(t) PROVE Listed'
  <2> DEFINE c == client[t]
  <2>1. ~raced /\ Listed /\ ~dismissed[c] /\ UNCHANGED <<step, todo, extras, made, dismissed>>
    BY <1>7, BeginDoes
  <2>2. c \in Clients /\ \A d \in Clients : Dismissed(d) => Dismissed(d)'
    BY <1>7, <2>1, BeginDoes DEF Dismissed
  <2>3. ToSet(extras) \subseteq Clients /\ 1..made \subseteq Clients
    BY DEF Typed, ExtrasTyped, ClientsTyped, ToSet
  <2> HIDE DEF Dismissed
  <2> QED BY <2>1, <2>2, <2>3 DEF Listed
<1>8. ASSUME NEW t \in Starts, StopItself(t) PROVE Listed'
  <2>1. ~raced /\ Listed /\ UNCHANGED <<step, todo, extras, made, dismissed>>
    BY <1>8, StopItselfDoes
  <2>2. \A d \in Clients : Dismissed(d) => Dismissed(d)'
    BY <1>8, <2>1, StopItselfDoes DEF Dismissed
  <2>3. ToSet(extras) \subseteq Clients /\ 1..made \subseteq Clients
    BY DEF Typed, ExtrasTyped, ClientsTyped, ToSet
  <2> HIDE DEF Dismissed
  <2> QED BY <2>1, <2>2, <2>3 DEF Listed
<1>9. ASSUME UNCHANGED <<step, todo, extras, made, dismissed, wanted, raced>> PROVE Listed'
  BY <1>9 DEF Listed, Dismissed
<1>10. ASSUME NEW t \in Starts, Start(t), ~Begin(t), ~StopItself(t) PROVE Listed'
  BY <1>9, <1>10, ErrsDoes, RestartDoes, CloseItselfDoes, ProbeGivesUpDoes, ConfigureDoes,
     BuildDoes, LoopDoes, ConnectSucceedsDoes, ConnectFailsDoes, CheckDoes DEF Start
<1>11. CASE UNCHANGED feedVars
  BY <1>9, <1>11 DEF feedVars, fanVars, clientsVars
<1> QED BY <1>1, <1>2, <1>3, <1>4, <1>5, <1>6, <1>7, <1>8, <1>10, <1>11 DEF FeedNext, FanOut

LEMMA TypedStep ==
  ASSUME Typed, StartsMade, (raced \/ Listed), [FeedNext]_feedVars
  PROVE  Typed'
<1>1. CASE FeedNext
  <2>1. ASSUME NEW f \in Fanners, FanOut(f)
        PROVE  (FanTyped /\ ExtrasTyped /\ ClientsTyped /\ StartTyped)'
    <3>1. \A i \in DOMAIN extras : extras[i] <= made
      BY DEF StartsMade
    <3>2. CASE Bind(f)
      BY <3>1, <3>2, BindTypes
    <3>3. CASE ~Bind(f)
      BY <2>1, <3>3, FanTypes DEF Typed
    <3> QED BY <3>2, <3>3
  <2>2. ASSUME NEW t \in Starts, Start(t)
        PROVE  (FanTyped /\ ExtrasTyped /\ ClientsTyped /\ StartTyped)'
    BY <2>2, StartTypes DEF Typed
  <2> QED BY <1>1, <2>1, <2>2 DEF FeedNext, Typed
<1>2. CASE UNCHANGED feedVars
  BY <1>2 DEF feedVars, fanVars, clientsVars, startVars, Typed, FanTyped, ExtrasTyped, ClientsTyped,
     StartTyped
<1> QED BY <1>1, <1>2

(* The inductive invariant.                                                  *)
FeedInv ==
  Typed /\ StartsMade /\ Generations /\ Connected /\ Current /\ Locked /\ Owned /\ JoinedClosed
  /\ (raced \/ Listed)

LEMMA FeedBegins == FeedInit => FeedInv
<1> SUFFICES ASSUME FeedInit PROVE FeedInv
  OBVIOUS
<1> USE FeedNumbers
<1>1. Typed
  <2>1. FanTyped
    <3>1. [f \in Fanners |-> <<>>] \in [Fanners -> Seq(Clients)]
      OBVIOUS
    <3>2. todo \in [Fanners -> Seq(Clients)] /\ list \in [Fanners -> SUBSET Instances]
      BY <3>1, Zenon DEF FeedInit
    <3>3. /\ step \in [Fanners -> {"idle", "enumerating", "retiring", "closing", "binding"}]
          /\ closing \in [Fanners -> Starts \cup {None}]
      BY DEF FeedInit
    <3>4. enabled \subseteq Instances /\ edits \in 0..MaxEdits
      BY DEF FeedInit
    <3>5. idle \in BOOLEAN /\ raced \in BOOLEAN
      BY Zenon DEF FeedInit
    <3> QED BY <3>2, <3>3, <3>4, <3>5 DEF FanTyped
  <2>2. ExtrasTyped
    BY MostExtras DEF FeedInit, ExtrasTyped, IsInjective
  <2>3. ClientsTyped
    BY DEF FeedInit, ClientsTyped
  <2>4. StartTyped
    BY DEF FeedInit, StartTyped
  <2> QED BY <2>1, <2>2, <2>3, <2>4 DEF Typed
<1>2. StartsMade /\ Generations
  BY DEF FeedInit, StartsMade, Generations, Connecting
<1>3. Connected /\ Current
  BY DEF FeedInit, Connected, Current, Attached, Connecting
<1>4. Locked /\ Owned /\ JoinedClosed
  BY DEF FeedInit, Locked, Owned, JoinedClosed
<1>5. Listed
  BY DEF FeedInit, Listed
<1> QED BY <1>1, <1>2, <1>3, <1>4, <1>5 DEF FeedInv

LEMMA FeedStep == FeedInv /\ [FeedNext]_feedVars => FeedInv'
BY StartsMadeStep, GenerationsStep, ConnectedStep, CurrentStep, LockedStep, OwnedStep,
   JoinedClosedStep, ListedStep, TypedStep DEF FeedInv

LEMMA FeedAlways == FeedSpec => []FeedInv
<1>1. FeedInit => FeedInv
  BY FeedBegins
<1>2. FeedInv /\ [FeedNext]_feedVars => FeedInv'
  BY FeedStep
<1> QED BY <1>1, <1>2, PTL DEF FeedSpec

(* Every variable keeps to its values.                                       *)
THEOREM FeedTyping == FeedSpec => []FeedTypeOK
<1>1. FeedInv => FeedTypeOK
  BY FeedParts DEF FeedInv, Typed
<1> QED BY <1>1, FeedAlways, PTL

(* Nobody is about to close a connection of a client that is settled.        *)
LEMMA SettledOwned ==
  ASSUME FeedInv, NEW k \in Starts, link[k] = "active", Settled(client[k])
  PROVE  connection[client[k]] = k /\ wanted[client[k]]
<1>1. ~Closer(k)
  <2> SUFFICES ASSUME Closer(k) PROVE FALSE
    OBVIOUS
  <2>1. PICK t \in Starts : stage[t] \in {"closing", "checking"} /\ uses[t] = k
    BY DEF Closer, Settled
  <2>2. client[t] = client[k]
    BY <2>1, FeedNumbers DEF FeedInv, Typed, Connected, Attached
  <2> QED BY <2>1, <2>2 DEF Settled, Running, UnderWay, Restarting, Connecting
<1> QED BY <1>1 DEF FeedInv, Owned

(* A connection that stays up is its client's, and a start was the last thing*)
(* that happened to the client: whoever overtakes a start closes what the start *)
(* leaves, in whatever order the two arrive.                                 *)
THEOREM FeedsAreOwned == FeedSpec => []NoFeedWithoutOwner
<1>1. FeedInv => NoFeedWithoutOwner
  BY SettledOwned DEF NoFeedWithoutOwner
<1> QED BY <1>1, FeedAlways, PTL

(* A client that connects, or stays connected, is one that the next fan-out  *)
(* stops, unless two fan-outs ran at once or a client was started that had been *)
(* stopped for good.                                                         *)
THEOREM FeedsAreListed == FeedSpec => []EveryFeedListedUnlessRaced
<1>1. FeedInv => EveryFeedListedUnlessRaced
  <2> SUFFICES ASSUME FeedInv, ~raced, NEW c \in Clients \ {Singleton},
                      \/ \E t \in Starts : client[t] = c /\ stage[t] \in Connecting /\ IsCurrent(t)
                      \/ Settled(c) /\ \E k \in Starts : client[k] = c /\ link[k] = "active"
               PROVE  c \in ToSet(extras)
    BY DEF EveryFeedListedUnlessRaced
  <2>1. wanted[c]
    <3>1. CASE \E t \in Starts : client[t] = c /\ stage[t] \in Connecting /\ IsCurrent(t)
      BY <3>1 DEF FeedInv, Current
    <3>2. ASSUME Settled(c), NEW k \in Starts, client[k] = c, link[k] = "active" PROVE wanted[c]
      BY <3>2, SettledOwned
    <3> QED BY <3>1, <3>2
  <2>2. c \in 1..made
    BY FeedRanges, FeedNumbers DEF FeedInv, StartsMade
  <2> QED BY <2>1, <2>2 DEF FeedInv, Listed, Dismissed
<1> QED BY <1>1, FeedAlways, PTL
===============================================================================
