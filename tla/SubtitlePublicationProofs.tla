---------------------- MODULE SubtitlePublicationProofs ----------------------
(* Machine-checked properties of SubtitlePublication, for every value of its  *)
(* constants.                                                                 *)
EXTENDS SubtitlePublication, TLAPS

(* What the subtitle becomes: a content nobody has, or nothing.               *)
New(content, last) ==
  \/ content = 0 /\ last = written
  \/ CanWrite /\ content = Fresh /\ last = Fresh

LEMMA PutSource ==
  ASSUME FilesOK(file, written), NEW content, NEW last, New(content, last), NEW gone \in SUBSET Engines
  PROVE  FilesOK([p \in Paths |-> IF p = Source THEN content
                                  ELSE IF p \in gone THEN 0 ELSE file[p]], last)
  BY PublicationAssumption DEF FilesOK, New, Fresh, CanWrite, Contents, Paths

LEMMA PutOne ==
  ASSUME FilesOK(file, written), NEW content, NEW last, New(content, last), NEW p \in Paths
  PROVE  FilesOK([file EXCEPT ![p] = content], last)
  BY PublicationAssumption DEF FilesOK, New, Fresh, CanWrite, Contents, Paths

(* The fields of a sync job.                                                  *)
LEMMA NoSyncType == NoSync \in SyncType
  BY PublicationAssumption DEF NoSync, SyncType, Modes, Contents

LEMMA BeginType ==
  ASSUME NEW mode \in Modes
  PROVE  /\ [NoSync EXCEPT !.mode = mode] \in SyncType
         /\ [NoSync EXCEPT !.mode = mode, !.queued = TRUE] \in SyncType
<1>1. [NoSync EXCEPT !.mode = mode] \in SyncType
  BY NoSyncType DEF SyncType
<1>2. [NoSync EXCEPT !.mode = mode, !.queued = TRUE] \in SyncType
  BY NoSyncType DEF SyncType
<1> QED BY <1>1, <1>2

LEMMA EngineField ==
  ASSUME sync \in [Syncs -> SyncType], NEW y \in Syncs, NEW e \in Engines
  PROVE  /\ [sync EXCEPT ![y].engine = e] \in [Syncs -> SyncType]
         /\ [sync EXCEPT ![y].engine = e][y].engine = e
         /\ \A z \in Syncs \ {y} : [sync EXCEPT ![y].engine = e][z] = sync[z]
  BY DEF SyncType

LEMMA TriedField ==
  ASSUME sync \in [Syncs -> SyncType], NEW y \in Syncs, NEW e \in Engines
  PROVE  /\ [sync EXCEPT ![y].tried = @ \cup {e}] \in [Syncs -> SyncType]
         /\ \A z \in Syncs : [sync EXCEPT ![y].tried = @ \cup {e}][z].engine = sync[z].engine
  BY DEF SyncType

LEMMA ReadField ==
  ASSUME sync \in [Syncs -> SyncType], NEW y \in Syncs, NEW c \in Contents
  PROVE  /\ [sync EXCEPT ![y].read = c] \in [Syncs -> SyncType]
         /\ \A z \in Syncs : [sync EXCEPT ![y].read = c][z].engine = sync[z].engine
  BY DEF SyncType

LEMMA NextEngineType ==
  ASSUME sync \in [Syncs -> SyncType], NEW y \in Syncs, sync[y].engine \in Engines
  PROVE  /\ NextEngine(y) \in [Syncs -> SyncType]
         /\ \A z \in Syncs \ {y} : NextEngine(y)[z] = sync[z]
<1>1. 0 \in Contents
  BY PublicationAssumption DEF Contents
<1>2. NextEngine(y) \in [Syncs -> SyncType]
  BY <1>1 DEF SyncType, NextEngine
<1>3. \A z \in Syncs \ {y} : NextEngine(y)[z] = sync[z]
  BY DEF NextEngine
<1> QED BY <1>2, <1>3

LEMMA RecordsType ==
  ASSUME NEW r \in [Paths -> Nat], NEW f \in [Paths -> Contents], NEW mode
  PROVE  Record(r, f, mode) \in [Paths -> RecordType] /\ NoRecord \in [Paths -> RecordType]
  BY PublicationAssumption DEF Record, NoRecord, RecordType, Contents

-----------------------------------------------------------------------------
(* The parts of TypeOK that the changes of the files concern.                 *)
Changed ==
  /\ FilesOK(file', written') /\ revision' \in [Paths -> Nat]
  /\ touched' \in [Actors -> SUBSET Paths]
  /\ derived' \in [Engines -> Contents] /\ excused' \subseteq Engines

LEMMA SettleType ==
  ASSUME TypeOK, NEW changed \in SUBSET Paths, Settle(changed)
  PROVE  revision' \in [Paths -> Nat] /\ touched' \in [Actors -> SUBSET Paths]
  BY DEF TypeOK, Settle

LEMMA ChangeSourceType ==
  ASSUME TypeOK, NEW content, New(content, written'), ChangeSource(content)
  PROVE  Changed
<1>1. PICK gone \in SUBSET Present :
        /\ file' = [p \in Paths |-> IF p = Source THEN content
                                    ELSE IF p \in gone THEN 0 ELSE file[p]]
        /\ Settle({Source} \cup gone)
        /\ excused' = Present \ gone
        /\ derived' = [e \in Engines |-> IF e \in gone THEN 0 ELSE derived[e]]
  BY DEF ChangeSource
<1>2. gone \in SUBSET Engines /\ {Source} \cup gone \in SUBSET Paths
  BY DEF Present, Paths
<1>3. FilesOK(file', written')
  BY <1>1, <1>2, PutSource DEF TypeOK
<1>4. revision' \in [Paths -> Nat] /\ touched' \in [Actors -> SUBSET Paths]
  BY <1>1, <1>2, SettleType
<1>5. derived' \in [Engines -> Contents] /\ excused' \subseteq Engines
  BY <1>1, PublicationAssumption DEF TypeOK, Present, Contents
<1> QED BY <1>3, <1>4, <1>5 DEF Changed

LEMMA ReplaceSourceOnlyType ==
  ASSUME TypeOK, NEW content, New(content, written'), ReplaceSourceOnly(content)
  PROVE  Changed
<1>1. Source \in Paths
  BY DEF Paths
<1>2. FilesOK(file', written')
  BY <1>1, PutOne DEF TypeOK, ReplaceSourceOnly
<1>3. revision' \in [Paths -> Nat] /\ touched' \in [Actors -> SUBSET Paths]
  BY <1>1, SettleType DEF ReplaceSourceOnly
<1> QED BY <1>2, <1>3 DEF Changed, ReplaceSourceOnly, TypeOK, Present

LEMMA ChangeOutputType ==
  ASSUME TypeOK, NEW e \in Engines, NEW content, New(content, written'),
         NEW from \in Contents, ChangeOutput(e, content, from)
  PROVE  Changed
<1>1. e \in Paths
  BY DEF Paths
<1>2. FilesOK(file', written')
  BY <1>1, PutOne DEF TypeOK, ChangeOutput
<1>3. revision' \in [Paths -> Nat] /\ touched' \in [Actors -> SUBSET Paths]
  BY <1>1, SettleType DEF ChangeOutput
<1>4. derived' \in [Engines -> Contents] /\ excused' \subseteq Engines
  BY DEF TypeOK, ChangeOutput
<1> QED BY <1>2, <1>3, <1>4 DEF Changed

-----------------------------------------------------------------------------
(* A publication that ends, or never held the lock, leaves it in order.       *)
LEMMA ReleaseType ==
  ASSUME TypeOK, NEW a \in Actors, Release(a), NEW s \in Stages \ {"publishing"},
         stage' = [stage EXCEPT ![a] = s]
  PROVE  /\ lock' \in Actors \cup {Free} /\ slipped' \in BOOLEAN
         /\ stage' \in [Actors -> Stages]
         /\ \A b \in Actors : stage'[b] = "publishing" <=> lock' = b
<1>1. Free \notin Actors
  BY PublicationAssumption DEF Actors
<1> QED BY <1>1 DEF TypeOK, Release, Stages

LEMMA OpenType ==
  ASSUME TypeOK, NEW a \in Actors, Open(a), lock = Free,
         a \in Syncs => stage[a] = "finished"
  PROVE  TypeOK'
<1>1. Free \notin Actors /\ Syncs \subseteq Actors
  BY PublicationAssumption DEF Actors
<1>2. /\ lock' \in Actors \cup {Free} /\ stage' \in [Actors -> Stages]
      /\ \A b \in Actors : stage'[b] = "publishing" <=> lock' = b
  BY <1>1 DEF TypeOK, Open, Stages
<1>3. \A y \in Syncs : stage'[y] \in {"working", "finished", "publishing"} => sync'[y].engine \in Engines
  BY <1>1 DEF TypeOK, Open
<1> QED BY <1>2, <1>3 DEF TypeOK, Open, coordinatorVars, historyVars

(* What remains of TypeOK when the files are done with.                       *)
Worked ==
  /\ lock \in Actors \cup {Free} /\ slipped \in BOOLEAN
  /\ stage \in [Actors -> Stages]
  /\ \A a \in Actors : stage[a] = "publishing" <=> lock = a
  /\ seen \in [Actors -> [Paths -> RecordType]]
  /\ sync \in [Syncs -> SyncType]
  /\ \A y \in Syncs : stage[y] \in {"working", "finished", "publishing"} => sync[y].engine \in Engines

LEMMA Parts ==
  /\ Changed /\ outside' \in 0..MaxOutside /\ Worked' => TypeOK'
  /\ TypeOK => Worked /\ outside \in 0..MaxOutside
BY DEF Changed, Worked, TypeOK

LEMMA Untouched ==
  ASSUME TypeOK, UNCHANGED <<file, written, revision>>, UNCHANGED <<derived, excused>>,
         touched' \in [Actors -> SUBSET Paths]
  PROVE  Changed
BY DEF Changed, TypeOK

-----------------------------------------------------------------------------
(* The actions of the files.                                                  *)
LEMMA EditType == ASSUME TypeOK, NEW p \in Paths, Edit(p) PROVE TypeOK'
<1>1. New(Fresh, written') /\ 0 \in Contents
  BY PublicationAssumption DEF Edit, New, Contents
<1>2. Changed
  <2>1. CASE p = Source
    BY <1>1, <2>1, ChangeSourceType DEF Edit
  <2>2. CASE p # Source
    BY <1>1, <2>2, ChangeOutputType DEF Edit, Paths
  <2> QED BY <2>1, <2>2
<1> QED BY <1>2, Parts DEF Edit, TypeOK, Worked

LEMMA DeleteType == ASSUME TypeOK, NEW p \in Paths, Delete(p) PROVE TypeOK'
<1>1. New(0, written') /\ 0 \in Contents
  BY PublicationAssumption DEF Delete, New, Contents
<1>2. Changed
  <2>1. CASE p = Source
    BY <1>1, <2>1, ChangeSourceType DEF Delete
  <2>2. CASE p # Source
    BY <1>1, <2>2, ChangeOutputType DEF Delete, Paths
  <2> QED BY <2>1, <2>2
<1> QED BY <1>2, Parts DEF Delete, TypeOK, Worked

LEMMA DeleteMissingType == ASSUME TypeOK, NEW p \in Paths, DeleteMissing(p) PROVE TypeOK'
<1>1. revision' \in [Paths -> Nat] /\ touched' \in [Actors -> SUBSET Paths]
  BY SettleType DEF DeleteMissing
<1>2. outside' \in 0..MaxOutside
  BY PublicationAssumption DEF DeleteMissing, TypeOK
<1> QED BY <1>1, <1>2 DEF DeleteMissing, TypeOK

LEMMA OutsideType == ASSUME TypeOK, NEW p \in Paths, Outside(p) PROVE TypeOK'
<1>1. FilesOK(file', written')
  <2>1. CASE CanWrite /\ written' = Fresh /\ file' = [file EXCEPT ![p] = Fresh]
    BY <2>1, PutOne DEF TypeOK, New
  <2>2. CASE file' = [file EXCEPT ![p] = 0] /\ UNCHANGED written
    BY <2>2, PutOne DEF TypeOK, New
  <2> QED BY <2>1, <2>2 DEF Outside
<1>2. outside' \in 0..MaxOutside
  BY PublicationAssumption DEF Outside, TypeOK
<1>3. derived' \in [Engines -> Contents] /\ excused' \subseteq Engines
  BY PublicationAssumption DEF Outside, TypeOK, Present, Contents
<1>4. Changed
  BY <1>1, <1>3 DEF Changed, Outside, TypeOK
<1>5. Worked'
  BY DEF Worked, Outside, TypeOK
<1> QED BY <1>2, <1>4, <1>5, Parts

(* The actions of a staged write.                                             *)
LEMMA StagedBeginsType == ASSUME TypeOK, NEW w \in Writers, StagedBegins(w) PROVE TypeOK'
<1>1. w \in Actors /\ w \notin Syncs /\ Free \notin Actors
  BY PublicationAssumption DEF Actors
<1>2. Record(revision, file, "overwrite") \in [Paths -> RecordType]
  BY RecordsType DEF TypeOK, FilesOK
<1>3. Worked'
  BY <1>1, <1>2 DEF Worked, StagedBegins, TypeOK, Stages
<1>4. Changed
  <2>1. touched' \in [Actors -> SUBSET Paths]
    BY <1>1 DEF TypeOK, StagedBegins
  <2> QED BY <2>1, Untouched DEF StagedBegins, coordinatorVars
<1> QED BY <1>3, <1>4, Parts DEF StagedBegins, coordinatorVars

LEMMA StagedChecksType == ASSUME TypeOK, NEW w \in Writers, StagedChecks(w) PROVE TypeOK'
<1>1. w \in Actors /\ w \notin Syncs
  BY PublicationAssumption DEF Actors
<1> QED BY <1>1, OpenType DEF StagedChecks

LEMMA DoneType ==
  ASSUME TypeOK, NEW a \in Actors, Release(a), Done(a),
         \/ UNCHANGED sync
         \/ a \in Syncs /\ sync' = [sync EXCEPT ![a] = NoSync]
  PROVE  Worked'
<1>1. NoRecord \in [Paths -> RecordType]
  BY RecordsType DEF TypeOK, FilesOK
<1>2. seen' \in [Actors -> [Paths -> RecordType]]
  BY <1>1 DEF Done, TypeOK
<1>3. /\ lock' \in Actors \cup {Free} /\ slipped' \in BOOLEAN
      /\ stage' \in [Actors -> Stages]
      /\ \A b \in Actors : stage'[b] = "publishing" <=> lock' = b
  BY ReleaseType DEF Done, Stages
<1>4. Syncs \subseteq Actors
  BY DEF Actors
<1>5. sync' \in [Syncs -> SyncType]
  BY NoSyncType DEF TypeOK
<1>6. \A y \in Syncs : stage'[y] \in {"working", "finished", "publishing"} => sync'[y].engine \in Engines
  BY <1>4 DEF TypeOK, Done
<1> QED BY <1>2, <1>3, <1>5, <1>6 DEF Worked

LEMMA StagedGivesUpType == ASSUME TypeOK, NEW w \in Writers, StagedGivesUp(w) PROVE TypeOK'
<1>1. Worked'
  BY DoneType DEF StagedGivesUp, Actors
<1>2. Changed
  BY Untouched DEF StagedGivesUp, coordinatorVars, TypeOK
<1> QED BY <1>1, <1>2, Parts DEF StagedGivesUp, coordinatorVars

LEMMA StagedReplacesType == ASSUME TypeOK, NEW w \in Writers, StagedReplaces(w) PROVE TypeOK'
<1>1. Worked'
  BY DoneType DEF StagedReplaces, Actors
<1>2. Changed
  BY ChangeSourceType DEF StagedReplaces, New
<1> QED BY <1>1, <1>2, Parts DEF StagedReplaces

(* The actions of a sync job.                                                 *)
(* An upload changes the subtitle as an edit does.                             *)
LEMMA UploadChanges ==
  ASSUME NEW y \in Syncs, NEW mode \in Modes, Upload(y, mode)
  PROVE  ChangeSource(Fresh)
<1>1. PICK gone \in SUBSET Present :
       /\ file' = [p \in Paths |-> IF p = Source THEN Fresh
                                   ELSE IF p \in gone THEN 0 ELSE file[p]]
       /\ revision' = [p \in Paths |-> IF p \in {Source} \cup gone THEN revision[p] + 1
                                       ELSE revision[p]]
       /\ touched' = [a \in Actors |-> IF stage[a] = "idle" THEN {}
                                         ELSE touched[a] \cup {Source} \cup gone]
       /\ excused' = Present \ gone
       /\ derived' = [e \in Engines |-> IF e \in gone THEN 0 ELSE derived[e]]
  BY DEF Upload
<1>2. Settle({Source} \cup gone)
  BY <1>1 DEF Settle
<1> QED BY <1>1, <1>2 DEF ChangeSource

LEMMA UploadType ==
  ASSUME TypeOK, NEW y \in Syncs, NEW mode \in Modes, Upload(y, mode)
  PROVE  TypeOK'
<1>3. ChangeSource(Fresh)
  BY UploadChanges
<1>4. Changed
  BY <1>3, ChangeSourceType DEF Upload, New
<1>5. y \in Actors /\ Free \notin Actors
  BY PublicationAssumption DEF Actors
<1>6. Record(revision', file', mode) \in [Paths -> RecordType]
  BY <1>4, RecordsType DEF Changed, FilesOK
<1>7. [NoSync EXCEPT !.mode = mode, !.queued = TRUE] \in SyncType
  BY BeginType
<1>8. Worked'
  <2>1. sync' \in [Syncs -> SyncType]
    BY <1>7 DEF Upload, TypeOK
  <2>2. seen' \in [Actors -> [Paths -> RecordType]]
    BY <1>5, <1>6 DEF Upload, TypeOK
  <2>3. \A z \in Syncs : stage'[z] \in {"working", "finished", "publishing"} => sync'[z].engine \in Engines
    BY DEF Upload, TypeOK, Actors
  <2> QED BY <1>5, <2>1, <2>2, <2>3 DEF Worked, Upload, TypeOK, Stages
<1> QED BY <1>4, <1>8, Parts DEF Upload, TypeOK

LEMMA SyncBeginsType ==
  ASSUME TypeOK, NEW y \in Syncs, NEW mode \in Modes, SyncBegins(y, mode)
  PROVE  TypeOK'
<1>1. y \in Actors /\ Free \notin Actors
  BY PublicationAssumption DEF Actors
<1>2. Record(revision, file, mode) \in [Paths -> RecordType]
  BY RecordsType DEF TypeOK, FilesOK
<1>3. [NoSync EXCEPT !.mode = mode] \in SyncType
  BY BeginType
<1>4. Worked'
  <2>1. sync' \in [Syncs -> SyncType]
    BY <1>3 DEF SyncBegins, TypeOK
  <2>2. seen' \in [Actors -> [Paths -> RecordType]]
    BY <1>1, <1>2 DEF SyncBegins, TypeOK
  <2>3. \A z \in Syncs : stage'[z] \in {"working", "finished", "publishing"} => sync'[z].engine \in Engines
    BY DEF SyncBegins, TypeOK, Actors
  <2> QED BY <1>1, <2>1, <2>2, <2>3 DEF Worked, SyncBegins, TypeOK, Stages
<1>5. Changed
  <2>1. touched' \in [Actors -> SUBSET Paths]
    BY <1>1 DEF TypeOK, SyncBegins
  <2> QED BY <2>1, Untouched DEF SyncBegins, coordinatorVars
<1> QED BY <1>4, <1>5, Parts DEF SyncBegins, coordinatorVars, TypeOK

(* A step of a sync job that leaves the files, the lock and the records alone. *)
LEMMA SyncStepType ==
  ASSUME TypeOK, NEW y \in Syncs, UNCHANGED <<coordinatorVars, lock, seen, historyVars>>,
         sync' \in [Syncs -> SyncType], \A z \in Syncs \ {y} : sync'[z].engine = sync[z].engine,
         stage[y] # "publishing",
         NEW s \in Stages \ {"publishing"}, stage' = [stage EXCEPT ![y] = s],
         s \in {"working", "finished"} => sync'[y].engine \in Engines
  PROVE  TypeOK'
<1>1. y \in Actors /\ Syncs \subseteq Actors
  BY DEF Actors
<1>2. Worked'
  <2>1. stage' \in [Actors -> Stages]
    BY DEF TypeOK
  <2>2. \A a \in Actors : stage'[a] = "publishing" <=> lock' = a
    BY <1>1 DEF TypeOK
  <2>3. \A z \in Syncs : stage'[z] \in {"working", "finished", "publishing"} => sync'[z].engine \in Engines
    BY <1>1 DEF TypeOK
  <2> QED BY <2>1, <2>2, <2>3 DEF Worked, TypeOK, historyVars
<1>3. Changed
  BY Untouched DEF coordinatorVars, historyVars, TypeOK
<1> QED BY <1>2, <1>3, Parts DEF coordinatorVars

LEMMA EngineStartsType == ASSUME TypeOK, NEW y \in Syncs, EngineStarts(y) PROVE TypeOK'
<1>1. PICK e \in Engines : sync' = [sync EXCEPT ![y].engine = e]
  BY DEF EngineStarts
<1>2. sync \in [Syncs -> SyncType]
  BY DEF TypeOK
<1>3. /\ sync' \in [Syncs -> SyncType] /\ sync'[y].engine \in Engines
      /\ \A z \in Syncs \ {y} : sync'[z].engine = sync[z].engine
  BY <1>1, <1>2, EngineField
<1>4. "working" \in Stages \ {"publishing"}
  BY DEF Stages
<1> QED BY <1>3, <1>4, SyncStepType DEF EngineStarts

LEMMA EngineSkippedType == ASSUME TypeOK, NEW y \in Syncs, EngineSkipped(y) PROVE TypeOK'
<1>1. PICK e \in Engines : sync' = [sync EXCEPT ![y].tried = @ \cup {e}]
  BY DEF EngineSkipped
<1>2. sync \in [Syncs -> SyncType]
  BY DEF TypeOK
<1>3. /\ sync' \in [Syncs -> SyncType]
      /\ \A z \in Syncs \ {y} : sync'[z].engine = sync[z].engine
  BY <1>1, <1>2, TriedField
<1>4. "next" \in Stages \ {"publishing"} /\ stage' = [stage EXCEPT ![y] = "next"]
  BY DEF Stages, EngineSkipped, TypeOK, Actors
<1> QED BY <1>3, <1>4, SyncStepType DEF EngineSkipped

LEMMA EngineReadsType == ASSUME TypeOK, NEW y \in Syncs, EngineReads(y) PROVE TypeOK'
<1>1. sync \in [Syncs -> SyncType] /\ file[Source] \in Contents
  BY DEF TypeOK, FilesOK, Paths
<1>2. /\ sync' \in [Syncs -> SyncType]
      /\ \A z \in Syncs : sync'[z].engine = sync[z].engine
  BY <1>1, ReadField DEF EngineReads
<1>3. "finished" \in Stages \ {"publishing"} /\ sync[y].engine \in Engines
  BY DEF Stages, EngineReads, TypeOK
<1> QED BY <1>2, <1>3, SyncStepType DEF EngineReads

LEMMA NextEngineWorked ==
  ASSUME TypeOK, NEW y \in Syncs, Release(y), stage[y] \in {"finished", "publishing"},
         stage' = [stage EXCEPT ![y] = "next"], sync' = NextEngine(y), UNCHANGED seen
  PROVE  Worked'
<1>1. y \in Actors /\ Syncs \subseteq Actors /\ "next" \in Stages \ {"publishing"}
  BY DEF Actors, Stages
<1>2. /\ lock' \in Actors \cup {Free} /\ slipped' \in BOOLEAN
      /\ stage' \in [Actors -> Stages]
      /\ \A b \in Actors : stage'[b] = "publishing" <=> lock' = b
  BY <1>1, ReleaseType
<1>3. /\ sync' \in [Syncs -> SyncType]
      /\ \A z \in Syncs \ {y} : sync'[z] = sync[z]
  BY NextEngineType DEF TypeOK
<1>4. \A z \in Syncs : stage'[z] \in {"working", "finished", "publishing"} => sync'[z].engine \in Engines
  BY <1>1, <1>3 DEF TypeOK
<1> QED BY <1>2, <1>3, <1>4 DEF Worked, TypeOK

LEMMA EngineFailsType == ASSUME TypeOK, NEW y \in Syncs, EngineFails(y) PROVE TypeOK'
<1>1. Worked'
  BY NextEngineWorked DEF EngineFails
<1>2. Changed
  BY Untouched DEF EngineFails, coordinatorVars, TypeOK
<1> QED BY <1>1, <1>2, Parts DEF EngineFails, coordinatorVars

LEMMA SyncChecksType == ASSUME TypeOK, NEW y \in Syncs, SyncChecks(y) PROVE TypeOK'
BY OpenType DEF SyncChecks, Actors

LEMMA SyncOverwritesType == ASSUME TypeOK, NEW y \in Syncs, SyncOverwrites(y) PROVE TypeOK'
<1>1. Worked'
  BY DoneType DEF SyncOverwrites, Actors
<1>2. Changed
  BY ChangeSourceType, ReplaceSourceOnlyType DEF SyncOverwrites, New
<1> QED BY <1>1, <1>2, Parts DEF SyncOverwrites

LEMMA SyncKeepsType == ASSUME TypeOK, NEW y \in Syncs, SyncKeeps(y) PROVE TypeOK'
<1>1. Worked'
  BY NextEngineWorked DEF SyncKeeps
<1>2. sync[y].engine \in Engines /\ sync[y].read \in Contents
  BY DEF SyncKeeps, TypeOK, SyncType
<1>3. Changed
  BY <1>2, ChangeOutputType DEF SyncKeeps, New
<1> QED BY <1>1, <1>3, Parts DEF SyncKeeps

LEMMA SyncEndsType == ASSUME TypeOK, NEW y \in Syncs, SyncEnds(y) PROVE TypeOK'
<1>1. Release(y)
  BY DEF SyncEnds, Release, TypeOK, historyVars, Actors
<1>2. Worked'
  BY <1>1, DoneType DEF SyncEnds, Actors
<1>3. Changed
  BY Untouched DEF SyncEnds, coordinatorVars, historyVars, TypeOK
<1> QED BY <1>2, <1>3, Parts DEF SyncEnds, coordinatorVars

-----------------------------------------------------------------------------
LEMMA InitType == Init => TypeOK
<1> SUFFICES ASSUME Init PROVE TypeOK
  OBVIOUS
<1>1. 0 \in Contents /\ 0 \in 0..MaxOutside /\ Free \notin Actors
  BY PublicationAssumption DEF Contents, Actors
<1>2. FilesOK(file, written)
  BY <1>1 DEF Init, FilesOK
<1>3. NoRecord \in [Paths -> RecordType]
  BY <1>1 DEF NoRecord, RecordType
<1>4. Worked
  <2>1. stage \in [Actors -> Stages] /\ seen \in [Actors -> [Paths -> RecordType]]
    BY <1>3 DEF Init, Stages
  <2>2. sync \in [Syncs -> SyncType]
    BY NoSyncType DEF Init
  <2>3. \A a \in Actors : stage[a] = "publishing" <=> lock = a
    BY <1>1 DEF Init
  <2>4. \A y \in Syncs : stage[y] \notin {"working", "finished", "publishing"}
    BY DEF Init, Actors
  <2> QED BY <2>1, <2>2, <2>3, <2>4 DEF Init, Worked
<1> QED BY <1>1, <1>2, <1>4 DEF Init, TypeOK, Worked

LEMMA StutterType == TypeOK /\ UNCHANGED vars => TypeOK'
BY DEF TypeOK, vars, coordinatorVars, historyVars, FilesOK

LEMMA NextType == TypeOK /\ [Next]_vars => TypeOK'
<1> SUFFICES ASSUME TypeOK, [Next]_vars PROVE TypeOK'
  OBVIOUS
<1>1. CASE UNCHANGED vars
  BY <1>1, StutterType
<1>2. CASE \E p \in Paths : Edit(p) \/ Delete(p) \/ DeleteMissing(p) \/ Outside(p)
  BY <1>2, EditType, DeleteType, DeleteMissingType, OutsideType
<1>3. CASE \E w \in Writers : StagedStep(w)
  BY <1>3, StagedBeginsType, StagedChecksType, StagedGivesUpType, StagedReplacesType DEF StagedStep
<1>4. CASE \E y \in Syncs : SyncStep(y)
  BY <1>4, UploadType, SyncBeginsType, EngineStartsType, EngineSkippedType, EngineReadsType,
     EngineFailsType, SyncChecksType, SyncOverwritesType, SyncKeepsType, SyncEndsType DEF SyncStep
<1> QED BY <1>1, <1>2, <1>3, <1>4 DEF Next

(* Every state has its types, and only the holder of the coordinator's lock is *)
(* between the checks and the end of a publication (subtitle_write_lock).      *)
THEOREM Typing == Spec => []TypeOK
BY InitType, NextType, PTL DEF Spec

-----------------------------------------------------------------------------
(* Why a publication is safe: a record never runs ahead of the revision, it is *)
(* behind for every path changed since it was made, and what a publication     *)
(* stands on is still at the revision of its record.                           *)
RecordsBehind ==
  \A a \in Actors, p \in Paths :
    /\ seen[a][p].revision <= revision[p]
    /\ p \in touched[a] => seen[a][p].revision < revision[p]

PublishersCurrent ==
  \A a \in Actors : stage[a] = "publishing" =>
    \A p \in StandsOn(a) :
      /\ seen[a][p].revision = revision[p]
      /\ ~slipped => seen[a][p].version = file[p]

PublicationInv == TypeOK /\ RecordsBehind /\ PublishersCurrent

LEMMA StandsOnPaths ==
  ASSUME TypeOK, NEW a \in Actors, stage[a] = "publishing"
  PROVE  StandsOn(a) \subseteq Paths
BY DEF TypeOK, StandsOn, Paths

(* How the records stay behind.                                                *)
LEMMA BehindSettles ==
  ASSUME TypeOK, RecordsBehind, NEW changed \in SUBSET Paths, Settle(changed),
         \A a \in Actors : seen'[a] = seen[a] \/ seen'[a] = NoRecord
  PROVE  RecordsBehind'
<1> SUFFICES ASSUME NEW a \in Actors, NEW p \in Paths
             PROVE  /\ seen'[a][p].revision <= revision'[p]
                    /\ p \in touched'[a] => seen'[a][p].revision < revision'[p]
  BY DEF RecordsBehind
<1>1. /\ revision[p] \in Nat /\ seen[a][p].revision \in Nat
      /\ seen[a][p].revision <= revision[p]
      /\ p \in touched[a] => seen[a][p].revision < revision[p]
  BY DEF TypeOK, RecordsBehind, RecordType
<1>2. /\ revision'[p] = IF p \in changed THEN revision[p] + 1 ELSE revision[p]
      /\ p \in touched'[a] => p \in touched[a] \/ p \in changed
  BY DEF Settle
<1>3. seen'[a][p].revision = seen[a][p].revision \/ seen'[a][p].revision = 0
  BY DEF NoRecord
<1> QED BY <1>1, <1>2, <1>3

LEMMA BehindRests ==
  ASSUME TypeOK, RecordsBehind, UNCHANGED <<revision, touched>>,
         \A a \in Actors : seen'[a] = seen[a] \/ seen'[a] = NoRecord
  PROVE  RecordsBehind'
<1> SUFFICES ASSUME NEW a \in Actors, NEW p \in Paths
             PROVE  /\ seen'[a][p].revision <= revision'[p]
                    /\ p \in touched'[a] => seen'[a][p].revision < revision'[p]
  BY DEF RecordsBehind
<1>1. /\ revision[p] \in Nat /\ seen[a][p].revision \in Nat
      /\ seen[a][p].revision <= revision[p]
      /\ p \in touched[a] => seen[a][p].revision < revision[p]
  BY DEF TypeOK, RecordsBehind, RecordType
<1>2. seen'[a][p].revision = seen[a][p].revision \/ seen'[a][p].revision = 0
  BY DEF NoRecord
<1> QED BY <1>1, <1>2

LEMMA BehindBegins ==
  ASSUME TypeOK, RecordsBehind, UNCHANGED revision, NEW a \in Actors, NEW mode,
         seen' = [seen EXCEPT ![a] = Record(revision, file, mode)],
         touched' = [touched EXCEPT ![a] = {}]
  PROVE  RecordsBehind'
<1> SUFFICES ASSUME NEW b \in Actors, NEW p \in Paths
             PROVE  /\ seen'[b][p].revision <= revision'[p]
                    /\ p \in touched'[b] => seen'[b][p].revision < revision'[p]
  BY DEF RecordsBehind
<1>1. CASE b = a
  <2>1. seen'[b][p].revision \in {revision[p], 0} /\ touched'[b] = {}
    BY <1>1 DEF TypeOK, Record, NoRecord
  <2> QED BY <2>1 DEF TypeOK
<1>2. CASE b # a
  BY <1>2 DEF TypeOK, RecordsBehind
<1> QED BY <1>1, <1>2

(* How the publications stay current.                                          *)
LEMMA CurrentFree ==
  ASSUME TypeOK', lock' = Free
  PROVE  PublishersCurrent'
<1>1. Free \notin Actors
  BY PublicationAssumption DEF Actors
<1> QED BY <1>1 DEF TypeOK, PublishersCurrent

LEMMA CurrentKept ==
  ASSUME TypeOK, PublishersCurrent, UNCHANGED revision,
         \/ slipped'
         \/ UNCHANGED <<file, slipped>>
         \/ lock' = Free,
         TypeOK',
         \A a \in Actors : stage'[a] = "publishing" =>
           /\ stage[a] = "publishing" /\ seen'[a] = seen[a]
           /\ a \in Syncs => sync'[a] = sync[a]
  PROVE  PublishersCurrent'
<1>1. CASE lock' = Free
  BY <1>1, CurrentFree
<1>2. CASE slipped' \/ UNCHANGED <<file, slipped>>
  <2> SUFFICES ASSUME NEW a \in Actors, stage'[a] = "publishing", NEW p \in StandsOn(a)'
               PROVE  /\ seen'[a][p].revision = revision'[p]
                      /\ ~slipped' => seen'[a][p].version = file'[p]
    BY DEF PublishersCurrent
  <2>1. p \in StandsOn(a)
    BY DEF StandsOn
  <2> QED BY <1>2, <2>1 DEF PublishersCurrent
<1> QED BY <1>1, <1>2

(* What the checks of a publication compare is what it stands on.              *)
LEMMA CurrentOpens ==
  ASSUME TypeOK, NEW a \in Actors, lock = Free, Open(a), \A p \in StandsOn(a) : Same(a, p)
  PROVE  PublishersCurrent'
<1>1. Free \notin Actors
  BY PublicationAssumption DEF Actors
<1>2. \A b \in Actors : stage'[b] = "publishing" => b = a
  BY <1>1 DEF TypeOK, Open
<1>3. StandsOn(a)' = StandsOn(a)
  BY DEF StandsOn, Open
<1>4. \A p \in StandsOn(a) : seen[a][p].revision = revision[p] /\ seen[a][p].version = file[p]
  <2> SUFFICES ASSUME NEW p \in StandsOn(a)
               PROVE  seen[a][p].revision = revision[p] /\ seen[a][p].version = file[p]
    OBVIOUS
  <2> DEFINE record == [revision |-> revision[p], version |-> file[p]]
  <2>1. seen[a][p] = record
    BY DEF Same
  <2>2. record.revision = revision[p] /\ record.version = file[p]
    OBVIOUS
  <2> HIDE DEF record
  <2> QED BY <2>1, <2>2
<1> QED BY <1>2, <1>3, <1>4 DEF PublishersCurrent, Open, coordinatorVars

(* An actor that leaves its publication frees the lock, or never had it.       *)
LEMMA Released ==
  ASSUME TypeOK, NEW a \in Actors, Release(a), stage[a] = "publishing"
  PROVE  lock' = Free
BY DEF TypeOK, Release

LEMMA ChangeSourceBehind ==
  ASSUME TypeOK, RecordsBehind, NEW content, ChangeSource(content),
         \A a \in Actors : seen'[a] = seen[a] \/ seen'[a] = NoRecord
  PROVE  RecordsBehind'
<1>1. PICK gone \in SUBSET Present : Settle({Source} \cup gone)
  BY DEF ChangeSource
<1>2. {Source} \cup gone \in SUBSET Paths
  BY DEF Present, Paths
<1> QED BY <1>1, <1>2, BehindSettles

LEMMA ChangeOneBehind ==
  ASSUME TypeOK, RecordsBehind, NEW p \in Paths, Settle({p}),
         \A a \in Actors : seen'[a] = seen[a] \/ seen'[a] = NoRecord
  PROVE  RecordsBehind'
BY BehindSettles

LEMMA DoneRecords ==
  ASSUME TypeOK, NEW a \in Actors, Done(a)
  PROVE  /\ \A b \in Actors : seen'[b] = seen[b] \/ seen'[b] = NoRecord
         /\ \A b \in Actors : stage'[b] = "publishing" =>
              b # a /\ stage[b] = "publishing" /\ seen'[b] = seen[b]
BY DEF TypeOK, Done

(* What every action leaves of the two.                                        *)
LEMMA FilesKeep ==
  ASSUME PublicationInv, TypeOK', NEW p \in Paths, Edit(p) \/ Delete(p) \/ DeleteMissing(p) \/ Outside(p)
  PROVE  RecordsBehind' /\ PublishersCurrent'
<1> USE DEF PublicationInv
<1>1. CASE Edit(p)
  <2>1. RecordsBehind'
    BY <1>1, ChangeSourceBehind, ChangeOneBehind DEF Edit, ChangeOutput
  <2>2. PublishersCurrent'
    BY <1>1, CurrentFree DEF Edit
  <2> QED BY <2>1, <2>2
<1>2. CASE Delete(p)
  <2>1. RecordsBehind'
    BY <1>2, ChangeSourceBehind, ChangeOneBehind DEF Delete, ChangeOutput
  <2>2. PublishersCurrent'
    BY <1>2, CurrentFree DEF Delete
  <2> QED BY <2>1, <2>2
<1>3. CASE Outside(p)
  <2>1. RecordsBehind'
    BY <1>3, BehindRests DEF Outside
  <2>2. slipped' \/ lock' = Free
    BY <1>3 DEF Outside
  <2>3. PublishersCurrent'
    BY <1>3, <2>2, CurrentKept DEF Outside
  <2> QED BY <2>1, <2>3
<1>4. CASE DeleteMissing(p)
  <2>1. RecordsBehind'
    BY <1>4, ChangeOneBehind DEF DeleteMissing
  <2>2. PublishersCurrent'
    BY <1>4, CurrentFree DEF DeleteMissing
  <2> QED BY <2>1, <2>2
<1> QED BY <1>1, <1>2, <1>3, <1>4

LEMMA StagedKeeps ==
  ASSUME PublicationInv, TypeOK', NEW w \in Writers, StagedStep(w)
  PROVE  RecordsBehind' /\ PublishersCurrent'
<1> USE DEF PublicationInv
<1>1. w \in Actors /\ w \notin Syncs
  BY PublicationAssumption DEF Actors
<1>2. CASE StagedBegins(w)
  <2>1. RecordsBehind'
    BY <1>1, <1>2, BehindBegins DEF StagedBegins, coordinatorVars
  <2>2. PublishersCurrent'
    BY <1>2, CurrentFree DEF StagedBegins
  <2> QED BY <2>1, <2>2
<1>3. CASE StagedChecks(w)
  <2>1. RecordsBehind'
    BY <1>3, BehindRests DEF StagedChecks, Open, coordinatorVars, historyVars
  <2>2. \A p \in StandsOn(w) : Same(w, p)
    BY <1>1, <1>3 DEF StagedChecks, StandsOn
  <2>3. PublishersCurrent'
    BY <1>1, <1>3, <2>2, CurrentOpens DEF StagedChecks
  <2> QED BY <2>1, <2>3
<1>4. CASE StagedGivesUp(w)
  <2>1. RecordsBehind'
    BY <1>1, <1>4, DoneRecords, BehindRests DEF StagedGivesUp, coordinatorVars
  <2>2. UNCHANGED <<file, slipped>> \/ lock' = Free
    BY <1>4 DEF StagedGivesUp, Release, coordinatorVars
  <2>3. PublishersCurrent'
    BY <1>1, <1>4, <2>2, DoneRecords, CurrentKept DEF StagedGivesUp, coordinatorVars
  <2> QED BY <2>1, <2>3
<1>5. CASE StagedReplaces(w)
  <2>1. RecordsBehind'
    BY <1>1, <1>5, DoneRecords, ChangeSourceBehind DEF StagedReplaces
  <2>2. PublishersCurrent'
    BY <1>1, <1>5, Released, CurrentFree DEF StagedReplaces
  <2> QED BY <2>1, <2>2
<1> QED BY <1>2, <1>3, <1>4, <1>5 DEF StagedStep

LEMMA UploadBehind ==
  ASSUME PublicationInv, NEW y \in Syncs, NEW mode \in Modes, Upload(y, mode)
  PROVE  RecordsBehind'
<1>1. PICK gone \in SUBSET Present :
       /\ revision' = [p \in Paths |-> IF p \in {Source} \cup gone THEN revision[p] + 1
                                       ELSE revision[p]]
       /\ touched' = [a \in Actors |-> IF stage[a] = "idle" THEN {}
                                         ELSE touched[a] \cup {Source} \cup gone]
  BY DEF Upload
<1>2. y \in Actors
  BY DEF Actors
<1> SUFFICES ASSUME NEW a \in Actors, NEW p \in Paths
             PROVE  /\ seen'[a][p].revision <= revision'[p]
                    /\ p \in touched'[a] => seen'[a][p].revision < revision'[p]
  BY DEF RecordsBehind
<1>3. CASE a = y
  <2>1. touched'[a] = {} /\ revision'[p] \in Nat
    BY <1>1, <1>2, <1>3 DEF Upload, PublicationInv, TypeOK
  <2>2. seen'[a][p] = Record(revision', file', mode)[p]
    BY <1>2, <1>3 DEF Upload, PublicationInv, TypeOK
  <2>3. seen'[a][p].revision \in {revision'[p], 0}
    BY <2>2 DEF Record, NoRecord
  <2> QED BY <2>1, <2>3
<1>4. CASE a # y
  <2>1. seen'[a] = seen[a]
    BY <1>2, <1>4 DEF Upload, PublicationInv, TypeOK
  <2>2. revision[p] \in Nat /\ seen[a][p].revision \in Nat
    BY DEF PublicationInv, TypeOK, RecordType
  <2> QED BY <1>1, <2>1, <2>2 DEF PublicationInv, RecordsBehind
<1> QED BY <1>3, <1>4

LEMMA SyncKeepsThem ==
  ASSUME PublicationInv, TypeOK', NEW y \in Syncs, SyncStep(y)
  PROVE  RecordsBehind' /\ PublishersCurrent'
<1> USE DEF PublicationInv
<1>1. y \in Actors
  BY DEF Actors
<1>2. ASSUME NEW mode \in Modes, Upload(y, mode) PROVE RecordsBehind' /\ PublishersCurrent'
  BY <1>2, UploadBehind, CurrentFree DEF Upload
<1>3. ASSUME NEW mode \in Modes, SyncBegins(y, mode) PROVE RecordsBehind' /\ PublishersCurrent'
  <2>1. RecordsBehind'
    BY <1>1, <1>3, BehindBegins DEF SyncBegins, coordinatorVars
  <2>2. PublishersCurrent'
    BY <1>3, CurrentFree DEF SyncBegins
  <2> QED BY <2>1, <2>2
<1>4. CASE EngineStarts(y) \/ EngineSkipped(y) \/ EngineReads(y)
  <2>1. UNCHANGED <<coordinatorVars, lock, seen, historyVars>>
    BY <1>4 DEF EngineStarts, EngineSkipped, EngineReads
  <2>2. \A a \in Actors : stage'[a] = "publishing" => a # y /\ stage[a] = "publishing"
    BY <1>1, <1>4 DEF EngineStarts, EngineSkipped, EngineReads, TypeOK
  <2>3. \A z \in Syncs \ {y} : sync'[z] = sync[z]
    BY <1>4 DEF EngineStarts, EngineSkipped, EngineReads, TypeOK
  <2>4. RecordsBehind'
    BY <2>1, BehindRests DEF coordinatorVars, historyVars
  <2>5. PublishersCurrent'
    BY <2>1, <2>2, <2>3, CurrentKept DEF coordinatorVars, historyVars
  <2> QED BY <2>4, <2>5
<1>5. CASE EngineFails(y)
  <2>1. RecordsBehind'
    BY <1>5, BehindRests DEF EngineFails, coordinatorVars
  <2>2. UNCHANGED <<file, slipped>> \/ lock' = Free
    BY <1>5 DEF EngineFails, Release, coordinatorVars
  <2>3. \A a \in Actors : stage'[a] = "publishing" => a # y /\ stage[a] = "publishing"
    BY <1>1, <1>5 DEF EngineFails, TypeOK
  <2>4. \A z \in Syncs \ {y} : sync'[z] = sync[z]
    BY <1>5 DEF EngineFails, NextEngine, TypeOK
  <2>5. PublishersCurrent'
    BY <1>5, <2>2, <2>3, <2>4, CurrentKept DEF EngineFails, coordinatorVars
  <2> QED BY <2>1, <2>5
<1>6. CASE SyncChecks(y)
  <2>1. RecordsBehind'
    BY <1>6, BehindRests DEF SyncChecks, Open, coordinatorVars, historyVars
  <2>2. \A p \in StandsOn(y) : Same(y, p)
    BY <1>6 DEF SyncChecks, SourceUnchanged, DestinationUnchanged, StandsOn
  <2>3. PublishersCurrent'
    BY <1>1, <1>6, <2>2, CurrentOpens DEF SyncChecks
  <2> QED BY <2>1, <2>3
<1>7. CASE SyncOverwrites(y)
  <2>1. \A b \in Actors : seen'[b] = seen[b] \/ seen'[b] = NoRecord
    BY <1>1, <1>7, DoneRecords DEF SyncOverwrites
  <2>2. RecordsBehind'
    BY <1>7, <2>1, ChangeSourceBehind, ChangeOneBehind DEF SyncOverwrites, ReplaceSourceOnly, Paths
  <2>3. PublishersCurrent'
    BY <1>1, <1>7, Released, CurrentFree DEF SyncOverwrites
  <2> QED BY <2>2, <2>3
<1>8. CASE SyncKeeps(y)
  <2>1. sync[y].engine \in Paths
    BY <1>8 DEF SyncKeeps, TypeOK, Paths
  <2>2. RecordsBehind'
    BY <1>8, <2>1, ChangeOneBehind DEF SyncKeeps, ChangeOutput
  <2>3. PublishersCurrent'
    BY <1>1, <1>8, Released, CurrentFree DEF SyncKeeps
  <2> QED BY <2>2, <2>3
<1>9. CASE SyncEnds(y)
  <2>1. RecordsBehind'
    BY <1>1, <1>9, DoneRecords, BehindRests DEF SyncEnds, coordinatorVars, historyVars
  <2>2. \A z \in Syncs \ {y} : sync'[z] = sync[z]
    BY <1>9 DEF SyncEnds, TypeOK
  <2>3. PublishersCurrent'
    BY <1>1, <1>9, <2>2, DoneRecords, CurrentKept DEF SyncEnds, coordinatorVars, historyVars
  <2> QED BY <2>1, <2>3
<1> QED BY <1>2, <1>3, <1>4, <1>5, <1>6, <1>7, <1>8, <1>9 DEF SyncStep

LEMMA InitInv == Init => PublicationInv
<1> SUFFICES ASSUME Init PROVE PublicationInv
  OBVIOUS
<1>1. RecordsBehind
  BY DEF Init, RecordsBehind, NoRecord
<1>2. PublishersCurrent
  BY DEF Init, PublishersCurrent
<1> QED BY <1>1, <1>2, InitType DEF PublicationInv

LEMMA NextInv == PublicationInv /\ [Next]_vars => PublicationInv'
<1> SUFFICES ASSUME PublicationInv, [Next]_vars PROVE PublicationInv'
  OBVIOUS
<1>1. TypeOK'
  BY NextType DEF PublicationInv
<1>2. CASE UNCHANGED vars
  BY <1>1, <1>2 DEF PublicationInv, RecordsBehind, PublishersCurrent, StandsOn, vars,
     coordinatorVars, historyVars
<1>3. CASE Next
  BY <1>1, <1>3, FilesKeep, StagedKeeps, SyncKeepsThem DEF Next, PublicationInv
<1> QED BY <1>2, <1>3

LEMMA Invariance == Spec => []PublicationInv
BY InitInv, NextInv, PTL DEF Spec

(* No write and no deletion under the coordinator is undone by a staged write  *)
(* or a sync job that began before it.                                         *)
THEOREM WritesStand == Spec => []NoWriteUndone
<1>1. PublicationInv => NoWriteUndone
  <2> SUFFICES ASSUME PublicationInv, NEW a \in Actors, stage[a] = "publishing",
                      NEW p \in touched[a] \cap StandsOn(a)
               PROVE  FALSE
    BY DEF NoWriteUndone
  <2>1. p \in Paths
    BY StandsOnPaths DEF PublicationInv
  <2>2. revision[p] \in Nat /\ seen[a][p].revision \in Nat
    BY <2>1 DEF PublicationInv, TypeOK, RecordType
  <2>3. seen[a][p].revision < revision[p] /\ seen[a][p].revision = revision[p]
    BY <2>1 DEF PublicationInv, RecordsBehind, PublishersCurrent
  <2> QED BY <2>2, <2>3
<1> QED BY <1>1, Invariance, PTL

(* Nor is a change made outside Bazarr, unless it falls between the checks of  *)
(* a publication and its replace.                                              *)
THEOREM OutsideChangesStand == Spec => []NoOutsideChangeUndone
<1>1. PublicationInv => NoOutsideChangeUndone
  BY DEF PublicationInv, PublishersCurrent, NoOutsideChangeUndone
<1> QED BY <1>1, Invariance, PTL

-----------------------------------------------------------------------------
(* Why an output follows its subtitle: a content is written once, so that a    *)
(* subtitle that is as recorded was never another one in between, and what an  *)
(* engine read of it meanwhile is what is there now.                           *)
RecordsWritten == \A a \in Actors, p \in Paths : seen[a][p].version <= written

ReadsCurrent ==
  \A y \in Syncs :
    /\ stage[y] \in {"working", "finished", "publishing"} => seen[y][Source].version # 0
    /\ stage[y] \in {"finished", "publishing"} /\ file[Source] = seen[y][Source].version =>
         sync[y].read = file[Source]

OutputInv == PublicationInv /\ RecordsWritten /\ ReadsCurrent /\ OutputsFollowSource

(* What a step does to the records: they stay, are forgotten, or are made of   *)
(* what the files are then; and no content comes back.                         *)
RecordsMove ==
  \A a \in Actors :
    \/ seen'[a] = seen[a] \/ seen'[a] = NoRecord
    \/ \E mode \in Modes : seen'[a] = Record(revision', file', mode)
SourceMoves ==
  /\ written' \in {written, Fresh}
  /\ file'[Source] \in {file[Source], 0, Fresh}

LEMMA ChangeSourceMoves ==
  ASSUME TypeOK, NEW content, ChangeSource(content)
  PROVE  file'[Source] = content
BY DEF ChangeSource, Paths

LEMMA ChangeOneMoves ==
  ASSUME TypeOK, NEW p \in Paths, NEW content, file' = [file EXCEPT ![p] = content]
  PROVE  file'[Source] = IF p = Source THEN content ELSE file[Source]
BY DEF TypeOK, FilesOK, Paths

LEMMA FilesMove ==
  ASSUME TypeOK, NEW p \in Paths, Edit(p) \/ Delete(p) \/ DeleteMissing(p) \/ Outside(p)
  PROVE  SourceMoves /\ UNCHANGED <<stage, seen, sync>>
<1>1. CASE Edit(p)
  BY <1>1, ChangeSourceMoves, ChangeOneMoves DEF Edit, ChangeOutput, SourceMoves
<1>2. CASE Delete(p)
  BY <1>2, ChangeSourceMoves, ChangeOneMoves DEF Delete, ChangeOutput, SourceMoves
<1>3. CASE DeleteMissing(p)
  BY <1>3 DEF DeleteMissing, SourceMoves
<1>4. CASE Outside(p)
  BY <1>4, ChangeOneMoves DEF Outside, SourceMoves
<1> QED BY <1>1, <1>2, <1>3, <1>4 DEF Edit, Delete, DeleteMissing, Outside

LEMMA StagedMove ==
  ASSUME TypeOK, NEW w \in Writers, StagedStep(w)
  PROVE  /\ SourceMoves /\ RecordsMove /\ sync' = sync
         /\ \A a \in Actors : a # w => stage'[a] = stage[a] /\ seen'[a] = seen[a]
<1>1. w \in Actors /\ "overwrite" \in Modes
  BY DEF Actors, Modes
<1>2. CASE StagedBegins(w)
  BY <1>1, <1>2 DEF StagedBegins, coordinatorVars, SourceMoves, RecordsMove, TypeOK
<1>3. CASE StagedChecks(w)
  BY <1>1, <1>3 DEF StagedChecks, Open, coordinatorVars, SourceMoves, RecordsMove, TypeOK
<1>4. CASE StagedGivesUp(w)
  BY <1>1, <1>4 DEF StagedGivesUp, Done, coordinatorVars, SourceMoves, RecordsMove, TypeOK
<1>5. CASE StagedReplaces(w)
  <2>1. SourceMoves
    BY <1>5, ChangeSourceMoves DEF StagedReplaces, SourceMoves
  <2> QED BY <1>1, <1>5, <2>1 DEF StagedReplaces, Done, RecordsMove, TypeOK
<1> QED BY <1>2, <1>3, <1>4, <1>5 DEF StagedStep

LEMMA SyncMove ==
  ASSUME TypeOK, NEW y \in Syncs, SyncStep(y)
  PROVE  /\ SourceMoves /\ RecordsMove
         /\ \A a \in Actors : a # y => stage'[a] = stage[a] /\ seen'[a] = seen[a]
         /\ \A z \in Syncs : z # y => sync'[z] = sync[z]
<1>1. y \in Actors
  BY DEF Actors
<1>2. ASSUME NEW mode \in Modes, Upload(y, mode)
      PROVE  /\ SourceMoves /\ RecordsMove
             /\ \A a \in Actors : a # y => stage'[a] = stage[a] /\ seen'[a] = seen[a]
             /\ \A z \in Syncs : z # y => sync'[z] = sync[z]
  <2>1. SourceMoves
    BY <1>2, UploadChanges, ChangeSourceMoves DEF Upload, SourceMoves
  <2> QED BY <1>1, <1>2, <2>1 DEF Upload, RecordsMove, TypeOK
<1>3. ASSUME NEW mode \in Modes, SyncBegins(y, mode)
      PROVE  /\ SourceMoves /\ RecordsMove
             /\ \A a \in Actors : a # y => stage'[a] = stage[a] /\ seen'[a] = seen[a]
             /\ \A z \in Syncs : z # y => sync'[z] = sync[z]
  BY <1>1, <1>3 DEF SyncBegins, coordinatorVars, SourceMoves, RecordsMove, TypeOK
<1>4. CASE EngineStarts(y) \/ EngineSkipped(y) \/ EngineReads(y) \/ EngineFails(y)
  BY <1>1, <1>4
     DEF EngineStarts, EngineSkipped, EngineReads, EngineFails, NextEngine, coordinatorVars,
         SourceMoves, RecordsMove, TypeOK
<1>5. CASE SyncChecks(y) \/ SyncEnds(y)
  BY <1>1, <1>5
     DEF SyncChecks, SyncEnds, Open, Done, coordinatorVars, SourceMoves, RecordsMove, TypeOK
<1>6. CASE SyncOverwrites(y)
  <2>1. SourceMoves
    BY <1>6, ChangeSourceMoves, ChangeOneMoves DEF SyncOverwrites, ReplaceSourceOnly, SourceMoves, Paths
  <2> QED BY <1>1, <1>6, <2>1 DEF SyncOverwrites, Done, RecordsMove, TypeOK
<1>7. CASE SyncKeeps(y)
  <2>1. sync[y].engine \in Paths /\ sync[y].engine # Source
    BY <1>7, PublicationAssumption DEF SyncKeeps, TypeOK, Paths
  <2>2. SourceMoves
    BY <1>7, <2>1, ChangeOneMoves DEF SyncKeeps, ChangeOutput, SourceMoves
  <2> QED BY <1>1, <1>7, <2>2 DEF SyncKeeps, NextEngine, RecordsMove, TypeOK
<1> QED BY <1>2, <1>3, <1>4, <1>5, <1>6, <1>7 DEF SyncStep

(* Nobody has recorded a content that is not written yet.                      *)
LEMMA WrittenKept ==
  ASSUME TypeOK, TypeOK', RecordsWritten, RecordsMove, written' \in {written, Fresh}
  PROVE  RecordsWritten'
<1> SUFFICES ASSUME NEW a \in Actors, NEW p \in Paths PROVE seen'[a][p].version <= written'
  BY DEF RecordsWritten
<1>1. /\ written \in Nat /\ written' \in Nat /\ written <= written'
      /\ seen[a][p].version \in Nat /\ seen[a][p].version <= written
  BY PublicationAssumption DEF TypeOK, FilesOK, Contents, RecordType, RecordsWritten, Fresh
<1>2. file'[p] \in Nat /\ file'[p] <= written'
  BY PublicationAssumption DEF TypeOK, FilesOK, Contents
<1>3. CASE seen'[a] = seen[a]
  BY <1>1, <1>3
<1>4. CASE seen'[a] = NoRecord
  BY <1>1, <1>4 DEF NoRecord
<1>5. ASSUME NEW mode \in Modes, seen'[a] = Record(revision', file', mode)
      PROVE  seen'[a][p].version <= written'
  <2>1. seen'[a][p].version \in {file'[p], 0}
    BY <1>5 DEF Record, NoRecord
  <2> QED BY <1>1, <1>2, <2>1
<1> QED BY <1>3, <1>4, <1>5 DEF RecordsMove

(* What a job has read stays what it recorded, whatever is written.            *)
LEMMA ReadKept ==
  ASSUME TypeOK, RecordsWritten, ReadsCurrent, SourceMoves, NEW y \in Syncs,
         seen'[y] = seen[y], sync'[y] = sync[y],
         stage'[y] = stage[y] \/ (stage[y] = "finished" /\ stage'[y] = "publishing")
  PROVE  /\ stage'[y] \in {"working", "finished", "publishing"} => seen'[y][Source].version # 0
         /\ stage'[y] \in {"finished", "publishing"} /\ file'[Source] = seen'[y][Source].version =>
              sync'[y].read = file'[Source]
<1>1. Source \in Paths /\ y \in Actors
  BY DEF Paths, Actors
<1>2. /\ seen[y][Source].version <= written /\ written \in Nat
      /\ seen[y][Source].version \in Nat
  BY <1>1, PublicationAssumption DEF RecordsWritten, TypeOK, FilesOK, Contents, RecordType
<1>3. stage'[y] \in {"working", "finished", "publishing"} => seen'[y][Source].version # 0
  BY DEF ReadsCurrent
<1>4. ASSUME stage'[y] \in {"finished", "publishing"}, file'[Source] = seen'[y][Source].version
      PROVE  sync'[y].read = file'[Source]
  <2>1. file'[Source] # 0 /\ file'[Source] # Fresh
    BY <1>2, <1>3, <1>4 DEF Fresh
  <2>2. file'[Source] = file[Source]
    BY <2>1 DEF SourceMoves
  <2> QED BY <1>4, <2>2 DEF ReadsCurrent
<1> QED BY <1>3, <1>4

LEMMA ReadsStep ==
  ASSUME TypeOK, RecordsWritten, ReadsCurrent, NEW y \in Syncs, SyncStep(y)
  PROVE  ReadsCurrent'
<1>1. /\ y \in Actors /\ Syncs \subseteq Actors /\ SourceMoves
      /\ \A z \in Syncs : z # y => stage'[z] = stage[z] /\ seen'[z] = seen[z] /\ sync'[z] = sync[z]
  BY SyncMove DEF Actors
<1>2. SUFFICES
        /\ stage'[y] \in {"working", "finished", "publishing"} => seen'[y][Source].version # 0
        /\ stage'[y] \in {"finished", "publishing"} /\ file'[Source] = seen'[y][Source].version =>
             sync'[y].read = file'[Source]
  BY <1>1, <1>2, ReadKept DEF ReadsCurrent
<1>3. CASE stage'[y] \in {"idle", "next"}
  BY <1>3
<1>4. CASE EngineStarts(y)
  <2>1. stage'[y] = "working" /\ seen'[y][Source].version # 0
    BY <1>1, <1>4 DEF EngineStarts, SourceUnchanged, TypeOK
  <2> QED BY <2>1
<1>5. CASE EngineReads(y)
  <2>1. /\ stage[y] = "working" /\ seen'[y] = seen[y] /\ file' = file
        /\ sync' = [sync EXCEPT ![y].read = file[Source]]
    BY <1>5 DEF EngineReads, coordinatorVars
  <2>2. sync'[y].read = file[Source]
    BY <2>1 DEF TypeOK, SyncType
  <2> QED BY <2>1, <2>2 DEF ReadsCurrent
<1>6. CASE SyncChecks(y)
  <2>1. /\ seen'[y] = seen[y] /\ sync'[y] = sync[y]
        /\ stage[y] = "finished" /\ stage'[y] = "publishing"
    BY <1>1, <1>6 DEF SyncChecks, Open, TypeOK
  <2> QED BY <1>1, <2>1, ReadKept
<1>7. CASE stage'[y] \notin {"idle", "next"}
  <2>1. ASSUME NEW mode \in Modes, Upload(y, mode) \/ SyncBegins(y, mode) PROVE FALSE
    BY <1>1, <1>7, <2>1 DEF Upload, SyncBegins, TypeOK
  <2>2. ~(EngineSkipped(y) \/ EngineFails(y))
    BY <1>1, <1>7 DEF EngineSkipped, EngineFails, TypeOK
  <2>3. ~(SyncOverwrites(y) \/ SyncKeeps(y) \/ SyncEnds(y))
    BY <1>1, <1>7 DEF SyncOverwrites, SyncKeeps, SyncEnds, Done, TypeOK
  <2> QED BY <1>4, <1>5, <1>6, <2>1, <2>2, <2>3 DEF SyncStep
<1> QED BY <1>3, <1>7

(* The outputs after the changes of the files.                                 *)
LEMMA NoneLeft ==
  ASSUME TypeOK, Present' \subseteq excused'
  PROVE  OutputsFollowSource'
BY DEF OutputsFollowSource

LEMMA ChangeSourceFollows ==
  ASSUME TypeOK, NEW content, ChangeSource(content) \/ ReplaceSourceOnly(content)
  PROVE  OutputsFollowSource'
<1>1. Source \notin Engines
  BY PublicationAssumption
<1>2. CASE ChangeSource(content)
  BY <1>1, <1>2, NoneLeft DEF ChangeSource, Present, Paths
<1>3. CASE ReplaceSourceOnly(content)
  BY <1>1, <1>3, NoneLeft DEF ReplaceSourceOnly, Present, Paths, TypeOK, FilesOK
<1> QED BY <1>2, <1>3

LEMMA ChangeOutputFollows ==
  ASSUME TypeOK, OutputsFollowSource, NEW e \in Engines, NEW content, NEW from,
         ChangeOutput(e, content, from),
         from \in {0, file[Source]} \/ (lock # Free /\ slipped)
  PROVE  OutputsFollowSource'
<1>1. Source \notin Engines /\ e \in Paths /\ e # Source
  BY PublicationAssumption DEF Paths
<1>2. /\ file' = [file EXCEPT ![e] = content] /\ derived' = [derived EXCEPT ![e] = from]
      /\ excused' = IF lock # Free /\ slipped THEN excused \cup {e} ELSE excused \ {e}
  BY DEF ChangeOutput
<1>3. file'[Source] = file[Source]
  BY <1>1, <1>2, ChangeOneMoves
<1>4. ASSUME NEW f \in Engines, f \in Present', f \notin excused'
      PROVE  derived'[f] \in {0, file'[Source]}
  <2>1. CASE f = e
    BY <1>2, <1>3, <1>4, <2>1 DEF TypeOK
  <2>2. CASE f # e
    <3>1. f \in Present /\ f \notin excused /\ derived'[f] = derived[f]
      BY <1>2, <1>4, <2>2 DEF Present, TypeOK, FilesOK, Paths
    <3> QED BY <1>3, <3>1 DEF OutputsFollowSource
  <2> QED BY <2>1, <2>2
<1> QED BY <1>4 DEF OutputsFollowSource, Present

LEMMA NothingMoves ==
  ASSUME OutputsFollowSource, UNCHANGED <<file, derived, excused>>
  PROVE  OutputsFollowSource'
BY DEF OutputsFollowSource, Present

LEMMA FilesFollow ==
  ASSUME TypeOK, OutputsFollowSource, NEW p \in Paths,
         Edit(p) \/ Delete(p) \/ DeleteMissing(p) \/ Outside(p)
  PROVE  OutputsFollowSource'
<1>1. CASE Edit(p)
  BY <1>1, ChangeSourceFollows, ChangeOutputFollows DEF Edit, Paths
<1>2. CASE Delete(p)
  BY <1>2, ChangeSourceFollows, ChangeOutputFollows DEF Delete, Paths
<1>3. CASE DeleteMissing(p)
  BY <1>3, NothingMoves DEF DeleteMissing
<1>4. CASE Outside(p) /\ p = Source
  BY <1>4, PublicationAssumption, NoneLeft DEF Outside, Present, TypeOK, FilesOK, Paths
<1>5. CASE Outside(p) /\ p # Source
  <2>1. \E content : file' = [file EXCEPT ![p] = content]
    BY <1>5 DEF Outside
  <2>2. file'[Source] = file[Source]
    BY <1>5, <2>1, ChangeOneMoves
  <2>3. excused' = excused \ {p} /\ derived' = [derived EXCEPT ![p] = 0]
    BY <1>5 DEF Outside
  <2>4. ASSUME NEW f \in Engines, f \in Present', f \notin excused'
        PROVE  derived'[f] \in {0, file'[Source]}
    <3>1. CASE f = p
      BY <2>3, <3>1 DEF TypeOK
    <3>2. CASE f # p
      <4>1. f \in Present /\ f \notin excused /\ derived'[f] = derived[f]
        BY <2>1, <2>3, <2>4, <3>2 DEF Present, TypeOK, FilesOK, Paths
      <4> QED BY <2>2, <4>1 DEF OutputsFollowSource
    <3> QED BY <3>1, <3>2
  <2> QED BY <2>4 DEF OutputsFollowSource, Present
<1> QED BY <1>1, <1>2, <1>3, <1>4, <1>5

LEMMA SyncFollows ==
  ASSUME OutputInv, NEW y \in Syncs, SyncStep(y)
  PROVE  OutputsFollowSource'
<1>1. TypeOK /\ PublishersCurrent /\ ReadsCurrent /\ OutputsFollowSource
  BY DEF OutputInv, PublicationInv
<1>2. ASSUME NEW mode \in Modes, Upload(y, mode) PROVE OutputsFollowSource'
  BY <1>1, <1>2, UploadChanges, ChangeSourceFollows
<1>3. CASE SyncOverwrites(y)
  BY <1>1, <1>3, ChangeSourceFollows DEF SyncOverwrites
<1>4. CASE SyncKeeps(y)
  <2>1. /\ stage[y] = "publishing" /\ y \in Actors /\ Free \notin Actors
        /\ sync[y].engine \in Engines
        /\ ChangeOutput(sync[y].engine, Fresh, sync[y].read)
    BY <1>1, <1>4, PublicationAssumption DEF SyncKeeps, Actors, TypeOK
  <2>2. lock = y /\ lock # Free
    BY <1>1, <2>1 DEF TypeOK
  <2>3. ~slipped => seen[y][Source].version = file[Source]
    BY <1>1, <2>1 DEF PublishersCurrent, StandsOn
  <2>4. ~slipped => sync[y].read = file[Source]
    BY <1>1, <2>1, <2>3 DEF ReadsCurrent
  <2> QED BY <1>1, <2>1, <2>2, <2>4, ChangeOutputFollows
<1>5. CASE UNCHANGED <<file, derived, excused>>
  BY <1>1, <1>5, NothingMoves
<1> QED BY <1>2, <1>3, <1>4, <1>5
        DEF SyncStep, SyncBegins, EngineStarts, EngineSkipped, EngineReads, EngineFails, SyncChecks,
            SyncEnds, Open, coordinatorVars, historyVars

LEMMA StagedFollows ==
  ASSUME TypeOK, OutputsFollowSource, NEW w \in Writers, StagedStep(w)
  PROVE  OutputsFollowSource'
<1>1. CASE StagedReplaces(w)
  BY <1>1, ChangeSourceFollows DEF StagedReplaces
<1>2. CASE UNCHANGED <<file, derived, excused>>
  BY <1>2, NothingMoves
<1> QED BY <1>1, <1>2
        DEF StagedStep, StagedBegins, StagedChecks, StagedGivesUp, Open, coordinatorVars, historyVars

LEMMA OutputInit == Init => OutputInv
<1> SUFFICES ASSUME Init PROVE OutputInv
  OBVIOUS
<1>1. RecordsWritten
  BY DEF Init, RecordsWritten, NoRecord
<1>2. ReadsCurrent
  BY DEF Init, ReadsCurrent, Actors
<1>3. OutputsFollowSource
  BY DEF Init, OutputsFollowSource, Present, Paths
<1> QED BY <1>1, <1>2, <1>3, InitInv DEF OutputInv

LEMMA OutputStep == OutputInv /\ [Next]_vars => OutputInv'
<1> SUFFICES ASSUME OutputInv, [Next]_vars PROVE OutputInv'
  OBVIOUS
<1>1. PublicationInv'
  BY NextInv DEF OutputInv
<1>2. TypeOK /\ TypeOK' /\ RecordsWritten /\ ReadsCurrent /\ OutputsFollowSource
  BY <1>1 DEF OutputInv, PublicationInv
<1>3. CASE UNCHANGED vars
  BY <1>1, <1>3 DEF OutputInv, RecordsWritten, ReadsCurrent, OutputsFollowSource, Present, vars,
     coordinatorVars, historyVars
<1>4. ASSUME NEW p \in Paths, Edit(p) \/ Delete(p) \/ DeleteMissing(p) \/ Outside(p)
      PROVE  OutputInv'
  <2>1. SourceMoves /\ UNCHANGED <<stage, seen, sync>>
    BY <1>2, <1>4, FilesMove
  <2>2. RecordsWritten'
    BY <1>2, <2>1, WrittenKept DEF RecordsMove, SourceMoves
  <2>3. ReadsCurrent'
    BY <1>2, <2>1, ReadKept DEF ReadsCurrent
  <2>4. OutputsFollowSource'
    BY <1>2, <1>4, FilesFollow
  <2> QED BY <1>1, <2>2, <2>3, <2>4 DEF OutputInv
<1>5. ASSUME NEW w \in Writers, StagedStep(w) PROVE OutputInv'
  <2>1. /\ SourceMoves /\ RecordsMove /\ sync' = sync
        /\ \A a \in Actors : a # w => stage'[a] = stage[a] /\ seen'[a] = seen[a]
    BY <1>2, <1>5, StagedMove
  <2>2. RecordsWritten'
    BY <1>2, <2>1, WrittenKept DEF SourceMoves
  <2>3. \A y \in Syncs : stage'[y] = stage[y] /\ seen'[y] = seen[y] /\ sync'[y] = sync[y]
    BY <2>1, PublicationAssumption DEF Actors
  <2>4. ReadsCurrent'
    BY <1>2, <2>1, <2>3, ReadKept DEF ReadsCurrent
  <2>5. OutputsFollowSource'
    BY <1>2, <1>5, StagedFollows
  <2> QED BY <1>1, <2>2, <2>4, <2>5 DEF OutputInv
<1>6. ASSUME NEW y \in Syncs, SyncStep(y) PROVE OutputInv'
  <2>1. RecordsWritten'
    BY <1>2, <1>6, SyncMove, WrittenKept DEF SourceMoves
  <2>2. ReadsCurrent'
    BY <1>2, <1>6, ReadsStep
  <2>3. OutputsFollowSource'
    BY <1>6, SyncFollows
  <2> QED BY <1>1, <2>1, <2>2, <2>3 DEF OutputInv
<1> QED BY <1>3, <1>4, <1>5, <1>6 DEF Next

(* A generated output beside a subtitle was computed from the subtitle that is *)
(* there, whatever was written, deleted or uploaded while its engine ran       *)
(* (SubsyncEngineRunner.run, quarantine_sync_outputs).                         *)
THEOREM OutputsFollow == Spec => []OutputsFollowSource
<1>1. OutputInv => OutputsFollowSource
  BY DEF OutputInv
<1> QED BY <1>1, OutputInit, OutputStep, PTL DEF Spec
=============================================================================
