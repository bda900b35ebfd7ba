--------------------------- MODULE ProviderHubProofs ---------------------------
(* Machine-checked properties of ProviderHub, for any number of jobs and       *)
(* builds, and every value of the bounds.                                     *)
EXTENDS ProviderHub, TLAPS

Origins == Sources \cup {Local, None}
Places ==
  {"idle", "resolved", "download", "build", "check", "record", "enable", "missing", "disable",
   "remove", "done"}
JobsTyped == job \in [Jobs -> JobStates] /\ \A j \in Jobs : JobOK(job[j])

-----------------------------------------------------------------------------
(* The rows that steps write are rows.                                        *)

LEMMA NoRowOK == RowOK(NoRow)
BY HubAssumption DEF RowOK, Rows, NoRow

LEMMA StagedRowOK ==
  ASSUME NEW r, RowOK(r), NEW b \in Builds, NEW s \in Origins
  PROVE  RowOK(StagedRow(r, b, s))
BY HubAssumption DEF RowOK, Rows, StagedRow, Origins

LEMMA FailedRowOK ==
  ASSUME NEW r, RowOK(r), NEW s \in Origins
  PROVE  RowOK(FailedRow(r, s))
BY HubAssumption DEF RowOK, Rows, NoRow, FailedRow, Origins

LEMMA UnboundOK == ASSUME NEW r, RowOK(r) PROVE RowOK(Unbound(r))
BY HubAssumption DEF RowOK, Rows, Unbound

LEMMA RemovedRowOK == ASSUME RowOK(row) PROVE RowOK(RemovedRow)
BY HubAssumption, NoRowOK DEF RowOK, Rows, RemovedRow

LEMMA PromotedOK ==
  ASSUME NEW r, RowOK(r), r.pending, r.state = "staged" PROVE RowOK(Promoted(r))
BY HubAssumption DEF RowOK, Rows, Promoted

LEMMA NotPromotedOK ==
  ASSUME NEW r, RowOK(r), r.state = "staged" PROVE RowOK(NotPromoted(r))
BY HubAssumption DEF RowOK, Rows, NotPromoted

-----------------------------------------------------------------------------
(* The jobs that steps leave are jobs.                                        *)

LEMMA NoJobTyped == NoJob \in JobStates /\ EndedJob \in JobStates /\ JobOK(NoJob) /\ JobOK(EndedJob)
<1>1. NoJob.saw = NoRow /\ EndedJob.saw = NoRow
  BY DEF NoJob, EndedJob
<1>2. NoJob.at = "idle" /\ EndedJob.at = "done"
  BY DEF NoJob, EndedJob
<1>3. NoJob \in JobStates /\ EndedJob \in JobStates
  BY NoRowOK DEF NoJob, EndedJob, JobStates, RowOK
<1> QED BY <1>1, <1>2, <1>3, NoRowOK DEF JobOK, Staging

(* The place of one job changes, or all of it does.                           *)
LEMMA OneJobTyped ==
  ASSUME JobsTyped, NEW j \in Jobs, NEW new \in JobStates, JobOK(new),
         job' = [job EXCEPT ![j] = new]
  PROVE  JobsTyped'
<1>1. job' \in [Jobs -> JobStates] /\ \A k \in Jobs : job'[k] = IF k = j THEN new ELSE job[k]
  BY DEF JobsTyped
<1>2. \A k \in Jobs : JobOK(job'[k])
  BY <1>1 DEF JobsTyped
<1> QED BY <1>1, <1>2 DEF JobsTyped, JobOK, RowOK

LEMMA JobAtTyped ==
  ASSUME JobsTyped, NEW j \in Jobs, NEW where \in Places, JobAt(j, where),
         where \in Staging => job[j].build # 0
  PROVE  JobsTyped'
<1> DEFINE new == [job[j] EXCEPT !.at = where]
<1>1. job' = [job EXCEPT ![j] = new]
  BY DEF JobAt, JobsTyped
<1>2. new \in JobStates /\ JobOK(new)
  BY DEF JobsTyped, JobStates, Places, JobOK
<1> QED BY <1>1, <1>2, OneJobTyped

LEMMA EndsTyped ==
  ASSUME JobsTyped, NEW j \in Jobs, Ends(j)
  PROVE  JobsTyped'
BY NoJobTyped, OneJobTyped DEF Ends

LEMMA BeginTyped ==
  ASSUME JobsTyped, NEW j \in Jobs, NEW new \in JobStates, JobOK(new), Begin(j, new)
  PROVE  JobsTyped'
BY OneJobTyped DEF Begin

-----------------------------------------------------------------------------
(* Every step keeps the types.                                                *)

LEMMA CountTyped ==
  ASSUME TypeOK, NEW what \in {"edits", "refreshes", "restarts", "faults"}, NEW most,
         Count(what, most)
  PROVE  bounds' \in [edits : Nat, refreshes : Nat, restarts : Nat, faults : Nat]
BY DEF TypeOK, Count

LEMMA EditionTyped == ASSUME TypeOK, NEW s PROVE EditionOf(s) \in Nat
BY DEF TypeOK, EditionOf

LEMMA InitTyped == Init => TypeOK
<1> SUFFICES ASSUME Init PROVE TypeOK
  OBVIOUS
<1>1. JobsTyped
  BY NoJobTyped DEF Init, JobsTyped
<1>2. RowOK(row)
  BY NoRowOK DEF Init, RowOK
<1>3. listed \in [Sources -> SUBSET Builds]
  BY DEF Init
<1>4. edition \in 0..2 /\ origin \in Nat /\ loaded \in Builds \cup {0}
  BY DEF Init
<1>5. bounds \in [edits : Nat, refreshes : Nat, restarts : Nat, faults : Nat]
  BY DEF Init
<1>6. /\ enabled \in BOOLEAN /\ bundles \subseteq Builds /\ envs \subseteq Builds
      /\ phase \in {"down", "reconciled", "up"} /\ overtaken \in BOOLEAN
      /\ gone \in {"no", "disabled", "yes"}
  BY DEF Init
<1> QED BY <1>1, <1>2, <1>3, <1>4, <1>5, <1>6 DEF TypeOK, JobsTyped

(* A job begins, or binds, and nothing else changes but how far an uninstall   *)
(* came.                                                                      *)
LEMMA OnlyJobsChange ==
  ASSUME TypeOK, JobsTyped', gone' \in {"no", "disabled", "yes"},
         UNCHANGED <<hubVars, diskVars, catalogVars, processVars, bounds, overtaken>>
  PROVE  TypeOK'
BY DEF TypeOK, JobsTyped, diskVars, hubVars, catalogVars, processVars, RowOK

LEMMA BeginKeepsTypes ==
  ASSUME TypeOK, NEW j \in Jobs, NEW new \in JobStates, JobOK(new), Begin(j, new)
  PROVE  TypeOK'
<1>1. JobsTyped'
  BY BeginTyped DEF TypeOK, JobsTyped
<1>2. gone' \in {"no", "disabled", "yes"}
  BY DEF Begin, TypeOK
<1> QED BY <1>1, <1>2, OnlyJobsChange DEF Begin

LEMMA InstallBeginsTyped == ASSUME TypeOK, NEW j \in Jobs, InstallBegins(j) PROVE TypeOK'
<1>1. CASE \E s \in Sources : \E b \in listed[s] :
             Begin(j, [NoJob EXCEPT !.at = "resolved", !.build = b, !.source = s,
                                    !.edition = EditionOf(s)])
  <2>1. PICK s \in Sources, b \in Builds :
          Begin(j, [NoJob EXCEPT !.at = "resolved", !.build = b, !.source = s,
                                 !.edition = EditionOf(s)])
    BY <1>1 DEF TypeOK
  <2> DEFINE new == [NoJob EXCEPT !.at = "resolved", !.build = b, !.source = s,
                                  !.edition = EditionOf(s)]
  <2>2. new \in JobStates /\ new.saw = NoRow /\ new.build = b
    BY NoRowOK, EditionTyped DEF NoJob, JobStates, RowOK
  <2> QED BY <2>1, <2>2, NoRowOK, BeginKeepsTypes, HubAssumption DEF JobOK
<1>2. CASE \E b \in Builds :
             Begin(j, [NoJob EXCEPT !.at = "download", !.build = b, !.source = Local, !.saw = row])
  <2>1. PICK b \in Builds :
          Begin(j, [NoJob EXCEPT !.at = "download", !.build = b, !.source = Local, !.saw = row])
    BY <1>2
  <2> DEFINE new == [NoJob EXCEPT !.at = "download", !.build = b, !.source = Local, !.saw = row]
  <2>2. new \in JobStates /\ new.saw = row /\ new.build = b
    BY DEF NoJob, JobStates, RowOK, TypeOK
  <2> QED BY <2>1, <2>2, BeginKeepsTypes, HubAssumption DEF JobOK, TypeOK
<1> QED BY <1>1, <1>2 DEF InstallBegins

LEMMA UpdateBeginsTyped == ASSUME TypeOK, NEW j \in Jobs, UpdateBegins(j) PROVE TypeOK'
<1>1. CASE Newer = {}
  <2> DEFINE new == [NoJob EXCEPT !.kind = "update", !.at = "missing", !.saw = row]
  <2>1. new \in JobStates /\ new.saw = row /\ new.at = "missing"
    BY DEF NoJob, JobStates, RowOK, TypeOK
  <2>2. JobOK(new)
    BY <2>1 DEF JobOK, Staging, TypeOK
  <2> QED BY <1>1, <2>1, <2>2, BeginKeepsTypes DEF UpdateBegins
<1>2. CASE Newer # {}
  <2>1. PICK b \in Newer :
          Begin(j, [NoJob EXCEPT !.kind = "update", !.at = "resolved", !.build = b,
                                 !.source = row.source, !.edition = EditionOf(row.source)])
    BY <1>2 DEF UpdateBegins, Newest
  <2> DEFINE new == [NoJob EXCEPT !.kind = "update", !.at = "resolved", !.build = b,
                                  !.source = row.source, !.edition = EditionOf(row.source)]
  <2>2. b \in Builds
    BY DEF Newer, TypeOK
  <2>3. row.source \in Sources \cup {Local, None}
    BY DEF TypeOK, RowOK, Rows
  <2>4. new \in JobStates /\ new.saw = NoRow /\ new.build = b
    BY <2>2, <2>3, NoRowOK, EditionTyped DEF NoJob, JobStates, RowOK
  <2> QED BY <2>1, <2>2, <2>4, NoRowOK, BeginKeepsTypes, HubAssumption DEF JobOK
<1> QED BY <1>1, <1>2

LEMMA UninstallBeginsTyped == ASSUME TypeOK, NEW j \in Jobs, UninstallBegins(j) PROVE TypeOK'
<1> DEFINE new == [NoJob EXCEPT !.kind = "uninstall", !.at = "disable"]
<1>1. new \in JobStates /\ new.saw = NoRow /\ new.at = "disable"
  BY NoRowOK DEF NoJob, JobStates, RowOK
<1> QED BY <1>1, NoRowOK, BeginKeepsTypes DEF UninstallBegins, JobOK, Staging

LEMMA BindTyped == ASSUME TypeOK, NEW j \in Jobs, Bind(j) PROVE TypeOK'
<1> DEFINE s == Binding(job[j].source, job[j].build)
<1>1. JobsTyped'
  <2>1. CASE Refused(s)
    BY <2>1, EndsTyped DEF Bind, TypeOK, JobsTyped
  <2>2. CASE ~Refused(s)
    <3> DEFINE new == [job[j] EXCEPT !.at = "download", !.source = s, !.saw = row,
                                     !.edition = EditionOf(s)]
    <3>1. s \in Origins /\ EditionOf(s) \in Nat
      BY EditionTyped DEF Binding, TypeOK, JobStates, Origins
    <3>2. job' = [job EXCEPT ![j] = new]
      BY <2>2 DEF Bind, TypeOK, JobStates
    <3>3. job[j] \in JobStates /\ row \in Rows /\ job[j].build # 0
      BY DEF TypeOK, RowOK, JobOK, Bind, Staging
    <3>4. new \in JobStates /\ new.saw = row /\ new.build = job[j].build
      <4> HIDE DEF s
      <4> QED BY <3>1, <3>3 DEF JobStates, Origins
    <3> QED BY <3>2, <3>3, <3>4, OneJobTyped DEF JobOK, TypeOK, JobsTyped
  <2> QED BY <2>1, <2>2
<1> QED BY <1>1, OnlyJobsChange DEF Bind, TypeOK

LEMMA StagingTyped ==
  ASSUME TypeOK, NEW j \in Jobs, Download(j) \/ Build(j) \/ Check(j) \/ Stop(j)
  PROVE  TypeOK'
<1>1. job[j].at \in Staging
  BY DEF Staging, Download, Build, Check, Stop
<1>2. job[j].build \in Builds
  BY <1>1 DEF TypeOK, JobStates, JobOK
<1>3. JobsTyped'
  BY <1>2, JobAtTyped, EndsTyped, HubAssumption
     DEF TypeOK, JobsTyped, Places, Download, Build, Check, Stop
<1>4. bundles' \subseteq Builds /\ envs' \subseteq Builds
  BY <1>2 DEF TypeOK, Download, Build, Check, Stop, diskVars
<1>5. UNCHANGED <<hubVars, catalogVars, processVars, bounds, gone>> /\ overtaken' \in BOOLEAN
  BY DEF TypeOK, Download, Build, Check, Stop, Shared
<1> QED BY <1>3, <1>4, <1>5 DEF TypeOK, JobsTyped, hubVars, catalogVars, processVars, RowOK

LEMMA CurrentOK == ASSUME TypeOK, NEW j \in Jobs PROVE RowOK(Current(j))
BY DEF TypeOK, JobOK, Current

LEMMA JobSource == ASSUME TypeOK, NEW j \in Jobs PROVE job[j].source \in Origins
BY DEF TypeOK, JobStates, Origins

LEMMA RecordsTyped ==
  ASSUME TypeOK, NEW j \in Jobs, RecordMissing(j) \/ StageFails(j) \/ Record(j) \/ Enable(j)
  PROVE  TypeOK'
<1>1. RowOK(row')
  <2>1. CASE RecordMissing(j)
    BY <2>1 DEF RecordMissing, TypeOK, JobOK
  <2>2. CASE StageFails(j)
    BY <2>2, CurrentOK, JobSource, FailedRowOK DEF StageFails
  <2>3. CASE Record(j)
    <3>1. job[j].build \in Builds
      BY <2>3 DEF Record, TypeOK, JobStates, JobOK, Staging
    <3> QED BY <2>3, <3>1, CurrentOK, JobSource, StagedRowOK DEF Record
  <2>4. CASE Enable(j)
    BY <2>4 DEF Enable, TypeOK
  <2> QED BY <2>1, <2>2, <2>3, <2>4
<1>2. JobsTyped'
  BY JobAtTyped, EndsTyped
     DEF TypeOK, JobsTyped, Places, Staging, RecordMissing, StageFails, Record, Enable
<1>3. origin' \in Nat
  BY DEF TypeOK, JobStates, RecordMissing, StageFails, Record, Enable
<1>4. enabled' \in BOOLEAN /\ overtaken' \in BOOLEAN
  BY DEF TypeOK, RecordMissing, StageFails, Record, Enable, SourceLost
<1>5. bounds' \in [edits : Nat, refreshes : Nat, restarts : Nat, faults : Nat]
  BY CountTyped DEF TypeOK, RecordMissing, StageFails, Record, Enable, Fault
<1>6. UNCHANGED <<diskVars, catalogVars, processVars, gone>>
  BY DEF RecordMissing, StageFails, Record, Enable
<1> QED BY <1>1, <1>2, <1>3, <1>4, <1>5, <1>6
        DEF TypeOK, JobsTyped, diskVars, catalogVars, processVars, RowOK

LEMMA UninstallTyped ==
  ASSUME TypeOK, NEW j \in Jobs, Disable(j) \/ Remove(j) \/ RemoveFails(j)
  PROVE  TypeOK'
<1>1. RowOK(row') /\ origin' \in Nat
  BY RemovedRowOK DEF TypeOK, Disable, Remove, RemoveFails
<1>2. JobsTyped'
  <2>1. CASE Ends(j)
    BY <2>1, EndsTyped DEF TypeOK, JobsTyped
  <2>2. CASE job' = [job EXCEPT ![j].at = "remove", ![j].was = enabled]
    <3> DEFINE new == [job[j] EXCEPT !.at = "remove", !.was = enabled]
    <3>1. job' = [job EXCEPT ![j] = new]
      BY <2>2 DEF TypeOK, JobStates
    <3>2. new \in JobStates /\ new.saw = job[j].saw /\ new.at = "remove"
      BY DEF TypeOK, JobStates
    <3> QED BY <3>1, <3>2, OneJobTyped DEF TypeOK, JobsTyped, JobOK, Staging
  <2> QED BY <2>1, <2>2 DEF Disable, Remove, RemoveFails
<1>3. enabled' \in BOOLEAN /\ gone' \in {"no", "disabled", "yes"}
  BY DEF TypeOK, JobStates, Disable, Disabled, Remove, RemoveFails
<1>4. bounds' \in [edits : Nat, refreshes : Nat, restarts : Nat, faults : Nat]
  BY CountTyped DEF TypeOK, Disable, Remove, RemoveFails, Fault
<1>5. UNCHANGED <<diskVars, catalogVars, processVars, overtaken>>
  BY DEF Disable, Remove, RemoveFails
<1> QED BY <1>1, <1>2, <1>3, <1>4, <1>5
        DEF TypeOK, JobsTyped, diskVars, catalogVars, processVars, RowOK

LEMMA CatalogTyped ==
  ASSUME TypeOK, (\E s \in Sources : Refresh(s)) \/ RemoveSource \/ AddSource
  PROVE  TypeOK'
<1>1. RowOK(row')
  BY UnboundOK DEF TypeOK, Refresh, RemoveSource, AddSource, hubVars
<1>2. listed' \in [Sources -> SUBSET Builds]
  BY DEF TypeOK, Refresh, RemoveSource, AddSource
<1>3. edition' \in 0..2 /\ overtaken' \in BOOLEAN
  <2>1. overtaken \in BOOLEAN /\ edition \in 0..2
    BY DEF TypeOK
  <2>2. edition' \in {edition, 0, 2}
    BY DEF Refresh, RemoveSource, AddSource
  <2>3. overtaken' = overtaken \/ overtaken' = (overtaken \/ edition = 1)
    BY DEF Refresh, RemoveSource, AddSource
  <2>4. edition' \in 0..2
    BY <2>1, <2>2
  <2>5. overtaken' \in BOOLEAN
    BY <2>1, <2>3, Zenon
  <2> QED BY <2>4, <2>5
<1>4. bounds' \in [edits : Nat, refreshes : Nat, restarts : Nat, faults : Nat]
  BY CountTyped DEF TypeOK, Refresh, RemoveSource, AddSource
<1>5. UNCHANGED <<enabled, origin, diskVars, job, processVars, gone>>
  BY DEF Refresh, RemoveSource, AddSource, hubVars
<1> QED BY <1>1, <1>2, <1>3, <1>4, <1>5 DEF TypeOK, JobOK, diskVars, processVars, RowOK

LEMMA EditsTyped ==
  ASSUME TypeOK, EditConfig \/ \E to \in BOOLEAN : SetEnabled(to)
  PROVE  TypeOK'
<1>1. RowOK(row')
  BY DEF TypeOK, EditConfig, SetEnabled, RowOK, Rows
<1>2. bounds' \in [edits : Nat, refreshes : Nat, restarts : Nat, faults : Nat]
  BY CountTyped DEF TypeOK, EditConfig, SetEnabled
<1>3. enabled' \in BOOLEAN /\ gone' \in {"no", "disabled", "yes"}
  BY DEF TypeOK, EditConfig, SetEnabled
<1>4. UNCHANGED <<origin, diskVars, catalogVars, job, processVars, overtaken>>
  BY DEF EditConfig, SetEnabled
<1> QED BY <1>1, <1>2, <1>3, <1>4 DEF TypeOK, JobOK, diskVars, catalogVars, processVars, RowOK

LEMMA StartupTyped == ASSUME TypeOK, Restart \/ Reconcile \/ Activate PROVE TypeOK'
<1>1. CASE Restart
  <2>1. job' \in [Jobs -> JobStates] /\ \A j \in Jobs : JobOK(job'[j])
    BY <1>1, NoJobTyped DEF Restart, TypeOK
  <2>2. bounds' \in [edits : Nat, refreshes : Nat, restarts : Nat, faults : Nat]
    BY <1>1, CountTyped DEF Restart
  <2> QED BY <1>1, <2>1, <2>2
          DEF Restart, TypeOK, JobOK, hubVars, diskVars, catalogVars, RowOK
<1>2. CASE Reconcile
  <2>1. Official \in Origins /\ listed[Official] \subseteq Builds
    BY DEF Origins, Sources, TypeOK
  <2>2. RowOK(row') /\ bundles' \subseteq Builds /\ envs' \subseteq Builds /\ origin' \in Nat
    <3>1. CASE UNCHANGED <<hubVars, diskVars, bounds>>
      BY <3>1 DEF TypeOK, hubVars, diskVars, RowOK
    <3>2. CASE /\ \E b \in Newest(listed[Official]) :
                    /\ row' = StagedRow(row, b, Official)
                    /\ bundles' = bundles \cup {b} /\ envs' = envs \cup {b}
               /\ origin' = 0
      BY <2>1, <3>2, StagedRowOK DEF TypeOK, Newest
    <3>3. CASE row' = FailedRow(row, Official) /\ origin' = 0 /\ UNCHANGED diskVars
      BY <2>1, <3>3, FailedRowOK DEF TypeOK, diskVars
    <3> QED BY <1>2, <3>1, <3>2, <3>3 DEF Reconcile
  <2>3. bounds' \in [edits : Nat, refreshes : Nat, restarts : Nat, faults : Nat]
    BY <1>2, CountTyped DEF Reconcile, Fault, TypeOK
  <2>4. phase' = "reconciled" /\ UNCHANGED <<enabled, loaded, catalogVars, job, overtaken, gone>>
    BY <1>2 DEF Reconcile, hubVars
  <2> QED BY <2>2, <2>3, <2>4 DEF TypeOK, JobOK, catalogVars, RowOK
<1>3. CASE Activate
  <2>1. RowOK(row') /\ origin' \in Nat
    BY <1>3, NoRowOK, PromotedOK, NotPromotedOK DEF Activate, TypeOK
  <2>2. bounds' \in [edits : Nat, refreshes : Nat, restarts : Nat, faults : Nat]
    BY <1>3, CountTyped DEF Activate, Fault, TypeOK
  <2>3. loaded' \in Builds \cup {0} /\ enabled' \in BOOLEAN /\ phase' = "up"
    BY <1>3, <2>1 DEF Activate, TypeOK, RowOK, Rows
  <2>4. UNCHANGED <<diskVars, catalogVars, job, overtaken, gone>>
    BY <1>3 DEF Activate
  <2> QED BY <2>1, <2>2, <2>3, <2>4 DEF TypeOK, JobOK, diskVars, catalogVars, RowOK
<1> QED BY <1>1, <1>2, <1>3

LEMMA StepTyped == TypeOK /\ [Next]_vars => TypeOK'
<1> SUFFICES ASSUME TypeOK, [Next]_vars PROVE TypeOK'
  OBVIOUS
<1>1. ASSUME NEW j \in Jobs, JobStep(j) PROVE TypeOK'
  BY <1>1, InstallBeginsTyped, UpdateBeginsTyped, UninstallBeginsTyped, BindTyped, StagingTyped,
     RecordsTyped, UninstallTyped DEF JobStep, InstallStep
<1>2. CASE UNCHANGED vars
  BY <1>2 DEF TypeOK, vars, hubVars, diskVars, catalogVars, processVars, JobOK, RowOK
<1> QED BY <1>1, <1>2, CatalogTyped, EditsTyped, StartupTyped DEF Next, UserStep

(* The types hold in every reachable state: no row waits for a restart with     *)
(* nothing to activate, none is active or to be removed without an active       *)
(* build, and a job that stages something knows what.                         *)
THEOREM Typing == Spec => []TypeOK
BY InitTyped, StepTyped, PTL DEF Spec

-----------------------------------------------------------------------------
(* The build that runs.  What a job read of the active build is still so when   *)
(* it records, because only a restart changes the active build, and ends the   *)
(* jobs; so a stopped job spares the files of the build that is active now.    *)

Reading == {"download", "build", "check", "record", "missing"}
ActiveKept ==
  /\ phase # "up" => loaded = 0 /\ \A j \in Jobs : job[j].at \in {"idle", "done"}
  /\ \A j \in Jobs : job[j].at \in Reading => job[j].saw.active = row.active
  /\ row.active # 0 => OnDisk(row.active)
  /\ loaded # 0 => row.active = loaded

LEMMA KeepsActive ==
  ASSUME ActiveKept, phase = "up", UNCHANGED processVars, row'.active = row.active,
         row.active # 0 => OnDisk(row.active)',
         \A k \in Jobs : job'[k].at \in Reading => job'[k].saw.active = row.active
  PROVE  ActiveKept'
BY DEF ActiveKept, processVars, OnDisk

(* A step of one job, which goes on with the row it read, or reads the row now. *)
LEMMA OneJobReads ==
  ASSUME TypeOK, ActiveKept, NEW j \in Jobs, NEW new, job' = [job EXCEPT ![j] = new],
         new.at \in Reading => new.saw.active = row.active
  PROVE  \A k \in Jobs : job'[k].at \in Reading => job'[k].saw.active = row.active
BY DEF TypeOK, ActiveKept

LEMMA EndedReadsNothing == EndedJob.at = "done" /\ EndedJob.at \notin Reading
BY DEF EndedJob, NoJob, Reading

LEMMA JobAtReads ==
  ASSUME TypeOK, ActiveKept, NEW j \in Jobs, NEW where, JobAt(j, where),
         where \in Reading => job[j].at \in Reading
  PROVE  \A k \in Jobs : job'[k].at \in Reading => job'[k].saw.active = row.active
<1> DEFINE new == [job[j] EXCEPT !.at = where]
<1>1. job' = [job EXCEPT ![j] = new]
  BY DEF JobAt, TypeOK
<1>2. new.at = where /\ new.saw = job[j].saw
  BY DEF TypeOK, JobStates
<1> QED BY <1>1, <1>2, OneJobReads DEF ActiveKept

LEMMA EndsReads ==
  ASSUME TypeOK, ActiveKept, NEW j \in Jobs, Ends(j)
  PROVE  \A k \in Jobs : job'[k].at \in Reading => job'[k].saw.active = row.active
BY EndedReadsNothing, OneJobReads DEF Ends

LEMMA BeginKeepsActive ==
  ASSUME TypeOK, ActiveKept, NEW j \in Jobs, NEW new, Begin(j, new),
         new.at \in Reading => new.saw.active = row.active
  PROVE  ActiveKept'
<1>1. \A k \in Jobs : job'[k].at \in Reading => job'[k].saw.active = row.active
  BY OneJobReads DEF Begin
<1> QED BY <1>1, KeepsActive DEF Begin, ActiveKept, hubVars, diskVars, OnDisk

LEMMA BeginsKeepActive ==
  ASSUME TypeOK, ActiveKept, NEW j \in Jobs,
         InstallBegins(j) \/ UpdateBegins(j) \/ UninstallBegins(j)
  PROVE  ActiveKept'
<1>1. ASSUME NEW b, NEW s, NEW e,
             Begin(j, [NoJob EXCEPT !.at = "resolved", !.build = b, !.source = s, !.edition = e])
      PROVE  ActiveKept'
  BY <1>1, BeginKeepsActive DEF NoJob, Reading
<1>2. ASSUME NEW b, NEW s, NEW e,
             Begin(j, [NoJob EXCEPT !.kind = "update", !.at = "resolved", !.build = b,
                                    !.source = s, !.edition = e])
      PROVE  ActiveKept'
  BY <1>2, BeginKeepsActive DEF NoJob, Reading
<1>3. ASSUME NEW b,
             Begin(j, [NoJob EXCEPT !.at = "download", !.build = b, !.source = Local, !.saw = row])
      PROVE  ActiveKept'
  BY <1>3, BeginKeepsActive DEF NoJob, Reading
<1>4. ASSUME Begin(j, [NoJob EXCEPT !.kind = "update", !.at = "missing", !.saw = row])
      PROVE  ActiveKept'
  BY <1>4, BeginKeepsActive DEF NoJob, Reading
<1>5. ASSUME Begin(j, [NoJob EXCEPT !.kind = "uninstall", !.at = "disable"])
      PROVE  ActiveKept'
  BY <1>5, BeginKeepsActive DEF NoJob, Reading
<1> QED BY <1>1, <1>2, <1>3, <1>4, <1>5 DEF InstallBegins, UpdateBegins, UninstallBegins

LEMMA RunningIsUp ==
  ASSUME ActiveKept, NEW j \in Jobs, job[j].at \notin {"idle", "done"} PROVE phase = "up"
BY DEF ActiveKept

LEMMA StagingKeepsActive ==
  ASSUME TypeOK, ActiveKept, NEW j \in Jobs, Bind(j) \/ Download(j) \/ Build(j) \/ Check(j) \/ Stop(j)
  PROVE  ActiveKept'
<1>1. phase = "up" /\ UNCHANGED processVars /\ row' = row
  BY RunningIsUp DEF Bind, Download, Build, Check, Stop, hubVars
<1>2. \A k \in Jobs : job'[k].at \in Reading => job'[k].saw.active = row.active
  <2>1. CASE Bind(j)
    <3> DEFINE s == Binding(job[j].source, job[j].build)
               new == [job[j] EXCEPT !.at = "download", !.source = s, !.saw = row,
                                     !.edition = EditionOf(s)]
    <3>1. Ends(j) \/ job' = [job EXCEPT ![j] = new]
      BY <2>1 DEF Bind, TypeOK, JobStates
    <3>2. new.saw = row
      <4> HIDE DEF s
      <4> QED BY DEF TypeOK, JobStates
    <3> QED BY <3>1, <3>2, EndsReads, OneJobReads
  <2>2. CASE Download(j) \/ Build(j) \/ Check(j) \/ Stop(j)
    BY <2>2, EndsReads, JobAtReads DEF Download, Build, Check, Stop, Reading
  <2> QED BY <2>1, <2>2
<1>3. row.active # 0 => OnDisk(row.active)'
  <2>1. CASE Stop(j)
    <3>1. job[j].saw.active = row.active
      BY <2>1 DEF Stop, ActiveKept, Reading
    <3>2. row.active \notin Discarded(j, {"build", "check", "record"})
          /\ row.active \notin Discarded(j, {"check", "record"})
      BY <3>1 DEF Discarded, InUse
    <3> QED BY <1>1, <2>1, <3>2 DEF Stop, ActiveKept, OnDisk
  <2>2. CASE Bind(j) \/ Download(j) \/ Build(j) \/ Check(j)
    BY <1>1, <2>2 DEF Bind, Download, Build, Check, ActiveKept, OnDisk, diskVars
  <2> QED BY <2>1, <2>2
<1> QED BY <1>1, <1>2, <1>3, KeepsActive

LEMMA CurrentActive ==
  ASSUME TypeOK, ActiveKept, NEW j \in Jobs, job[j].at \in Reading
  PROVE  Current(j).active = row.active
BY DEF TypeOK, RowOK, ActiveKept, Current, Installed

LEMMA RecordsKeepActive ==
  ASSUME TypeOK, ActiveKept, NEW j \in Jobs,
         RecordMissing(j) \/ StageFails(j) \/ Record(j) \/ Enable(j)
  PROVE  ActiveKept'
<1>1. phase = "up" /\ UNCHANGED <<processVars, diskVars>>
  BY RunningIsUp DEF RecordMissing, StageFails, Record, Enable
<1>2. row'.active = row.active
  <2>1. CASE RecordMissing(j)
    BY <2>1 DEF RecordMissing, ActiveKept, Reading
  <2>2. CASE StageFails(j)
    <3>1. Current(j).active = row.active /\ RowOK(Current(j))
      BY <2>2, CurrentActive, CurrentOK DEF StageFails, Reading
    <3>2. FailedRow(Current(j), job[j].source).active = Current(j).active
      BY <3>1 DEF FailedRow, NoRow, RowOK, Rows
    <3> QED BY <2>2, <3>1, <3>2 DEF StageFails
  <2>3. CASE Record(j)
    <3>1. Current(j).active = row.active /\ RowOK(Current(j))
      BY <2>3, CurrentActive, CurrentOK DEF Record, Reading
    <3> QED BY <2>3, <3>1 DEF Record, StagedRow, RowOK, Rows
  <2>4. CASE Enable(j)
    BY <2>4 DEF Enable
  <2> QED BY <2>1, <2>2, <2>3, <2>4
<1>3. \A k \in Jobs : job'[k].at \in Reading => job'[k].saw.active = row.active
  BY EndsReads, JobAtReads DEF Reading, RecordMissing, StageFails, Record, Enable
<1> QED BY <1>1, <1>2, <1>3, KeepsActive DEF ActiveKept, OnDisk, diskVars

LEMMA OthersKeepActive ==
  ASSUME TypeOK, ActiveKept,
         \/ \E j \in Jobs : Disable(j) \/ Remove(j) \/ RemoveFails(j)
         \/ RemoveSource \/ AddSource \/ EditConfig \/ \E to \in BOOLEAN : SetEnabled(to)
  PROVE  ActiveKept'
<1>1. phase = "up" /\ UNCHANGED <<processVars, diskVars>>
  BY RunningIsUp DEF Disable, Remove, RemoveFails, RemoveSource, AddSource, EditConfig, SetEnabled
<1>2. row'.active = row.active
  <2>1. RemovedRow.active = row.active /\ Unbound(row).active = row.active
    BY DEF TypeOK, RowOK, Rows, NoRow, RemovedRow, Unbound
  <2>2. ASSUME NEW to, row' = [row EXCEPT !.config = to] PROVE row'.active = row.active
    BY <2>2 DEF TypeOK, RowOK, Rows
  <2> QED BY <2>1, <2>2
          DEF hubVars, Disable, Remove, RemoveFails, RemoveSource, AddSource, EditConfig, SetEnabled
<1>3. \A k \in Jobs : job'[k].at \in Reading => job'[k].saw.active = row.active
  <2>1. ASSUME NEW j \in Jobs, job' = [job EXCEPT ![j].at = "remove", ![j].was = enabled]
        PROVE  \A k \in Jobs : job'[k].at \in Reading => job'[k].saw.active = row.active
    <3> DEFINE new == [job[j] EXCEPT !.at = "remove", !.was = enabled]
    <3>1. job' = [job EXCEPT ![j] = new]
      BY <2>1 DEF TypeOK, JobStates
    <3>2. new.at \notin Reading
      BY DEF TypeOK, JobStates, Reading
    <3> QED BY <3>1, <3>2, OneJobReads
  <2> QED BY <2>1, EndsReads
          DEF ActiveKept, Disable, Remove, RemoveFails, RemoveSource, AddSource, EditConfig, SetEnabled
<1> QED BY <1>1, <1>2, <1>3, KeepsActive DEF ActiveKept, OnDisk, diskVars

LEMMA StartupKeepsActive ==
  ASSUME TypeOK, ActiveKept, Restart \/ Reconcile \/ Activate
  PROVE  ActiveKept'
<1>1. CASE Restart
  <2>1. \A j \in Jobs : job'[j].at \in {"idle", "done"}
    BY <1>1, EndedReadsNothing DEF Restart, Running, TypeOK
  <2> QED BY <1>1, <2>1 DEF Restart, ActiveKept, Reading, hubVars, diskVars, OnDisk
<1>2. CASE Reconcile
  <2>1. row'.active = row.active /\ bundles \subseteq bundles' /\ envs \subseteq envs'
    BY <1>2 DEF Reconcile, TypeOK, RowOK, Rows, StagedRow, FailedRow, NoRow, hubVars, diskVars
  <2> QED BY <1>2, <2>1 DEF Reconcile, ActiveKept, OnDisk
<1>3. CASE Activate
  <2>1. \A j \in Jobs : job[j].at \notin Reading
    BY <1>3 DEF Activate, ActiveKept, Reading
  <2>2. row'.active # 0 => OnDisk(row'.active)
    <3>1. CASE row' = NoRow
      BY <3>1 DEF NoRow
    <3>2. CASE OnDisk(row.staged) /\ row' = Promoted(row)
      BY <3>2 DEF Promoted, TypeOK, RowOK, Rows
    <3>3. CASE row' = NotPromoted(row) \/ row' = row
      <4>1. row'.active = row.active
        BY <3>3 DEF NotPromoted, TypeOK, RowOK, Rows
      <4> QED BY <4>1 DEF ActiveKept
    <3> QED BY <1>3, <3>1, <3>2, <3>3 DEF Activate
  <2>3. loaded' # 0 => row'.active = loaded'
    BY <1>3 DEF Activate
  <2>4. phase' = "up" /\ UNCHANGED <<diskVars, job>>
    BY <1>3 DEF Activate
  <2> QED BY <2>1, <2>2, <2>3, <2>4 DEF ActiveKept, OnDisk, diskVars
<1> QED BY <1>1, <1>2, <1>3

LEMMA StepKeepsActive == TypeOK /\ ActiveKept /\ [Next]_vars => ActiveKept'
<1> SUFFICES ASSUME TypeOK, ActiveKept, [Next]_vars PROVE ActiveKept'
  OBVIOUS
<1>1. ASSUME NEW j \in Jobs, JobStep(j) PROVE ActiveKept'
  BY <1>1, BeginsKeepActive, StagingKeepsActive, RecordsKeepActive, OthersKeepActive
     DEF JobStep, InstallStep
<1>2. ASSUME NEW s \in Sources, Refresh(s) PROVE ActiveKept'
  BY <1>2 DEF Refresh, ActiveKept, OnDisk, hubVars, diskVars, processVars
<1>3. CASE UNCHANGED vars
  BY <1>3 DEF ActiveKept, OnDisk, vars, hubVars, diskVars, processVars
<1> QED BY <1>1, <1>2, <1>3, OthersKeepActive, StartupKeepsActive DEF Next, UserStep

LEMMA InitActive == Init => ActiveKept
BY DEF Init, ActiveKept, NoRow, NoJob, Reading

(* No job, however late it records, fails or is stopped, takes the running      *)
(* build from its row or its files from the disk.                             *)
THEOREM RunningBuildStays == Spec => []LoadedKept
<1>1. ActiveKept => LoadedKept
  BY DEF ActiveKept, LoadedKept
<1> QED BY <1>1, InitTyped, StepTyped, InitActive, StepKeepsActive, PTL DEF Spec

-----------------------------------------------------------------------------
(* The configuration.  Edits are numbered as they come, and only an update      *)
(* that finds nothing writes a row that was read before.                      *)

ConfigKept ==
  /\ row.config <= bounds.edits
  /\ \A j \in Jobs : job[j].saw.config <= bounds.edits

LEMMA CountsGrow ==
  ASSUME TypeOK, NEW what \in {"edits", "refreshes", "restarts", "faults"}, NEW most,
         Count(what, most)
  PROVE  bounds.edits <= bounds'.edits
BY DEF TypeOK, Count

LEMMA EditsGrow == ASSUME TypeOK, [Next]_vars PROVE bounds.edits <= bounds'.edits
<1>1. bounds.edits \in Nat
  BY DEF TypeOK
<1>2. UNCHANGED bounds
      \/ \E what \in {"edits", "refreshes", "restarts", "faults"}, most \in Nat : Count(what, most)
  BY HubAssumption
     DEF Next, JobStep, InstallStep, UserStep, InstallBegins, UpdateBegins, UninstallBegins, Begin,
         RecordMissing, Bind, Download, Build, Check, StageFails, Stop, Record, Enable, Disable,
         Remove, RemoveFails, Refresh, RemoveSource, AddSource, EditConfig, SetEnabled, Restart,
         Reconcile, Activate, Fault, vars
<1> QED BY <1>1, <1>2, CountsGrow

(* Where the configuration of the row comes from.                             *)
ConfigFrom ==
  \/ row'.config = row.config
  \/ ~Installed(row') /\ row'.config = 0
  \/ row'.config = bounds.edits + 1 /\ bounds'.edits = bounds.edits + 1
  \/ \E j \in Jobs : /\ row'.config = job[j].saw.config
                     /\ ~Installed(row) \/ (job[j].at = "missing" /\ job'[j].at = "done")

LEMMA JobConfigFrom == ASSUME TypeOK, NEW j \in Jobs, JobStep(j) PROVE ConfigFrom
<1>1. CASE UNCHANGED row
  BY <1>1 DEF ConfigFrom
<1>2. CASE RecordMissing(j)
  <2>1. job'[j].at = "done"
    BY <1>2 DEF RecordMissing, Ends, TypeOK, EndedJob, NoJob
  <2> QED BY <1>2, <2>1 DEF RecordMissing, ConfigFrom
<1>3. CASE StageFails(j)
  <2>1. RowOK(Current(j))
    BY CurrentOK
  <2>2. row'.config = Current(j).config
    BY <1>3, <2>1 DEF StageFails, FailedRow, NoRow, RowOK, Rows
  <2> QED BY <2>2 DEF Current, ConfigFrom
<1>4. CASE Record(j)
  <2>1. RowOK(Current(j))
    BY CurrentOK
  <2>2. row'.config = Current(j).config
    BY <1>4, <2>1 DEF Record, StagedRow, RowOK, Rows
  <2> QED BY <2>2 DEF Current, ConfigFrom
<1>5. CASE Remove(j)
  <2>1. RemovedRow = NoRow \/ RemovedRow.config = row.config
    BY DEF RemovedRow, TypeOK, RowOK, Rows
  <2>2. ~Installed(NoRow) /\ NoRow.config = 0
    BY DEF Installed, NoRow
  <2> QED BY <1>5, <2>1, <2>2 DEF Remove, ConfigFrom
<1> QED BY <1>1, <1>2, <1>3, <1>4, <1>5
        DEF JobStep, InstallStep, InstallBegins, UpdateBegins, UninstallBegins, Begin, Bind,
            Download, Build, Check, Stop, Enable, Disable, RemoveFails, hubVars

LEMMA StepConfigFrom == ASSUME TypeOK, [Next]_vars PROVE ConfigFrom
<1>1. CASE UNCHANGED row
  BY <1>1 DEF ConfigFrom
<1>2. CASE RemoveSource
  BY <1>2 DEF RemoveSource, Unbound, ConfigFrom, TypeOK, RowOK, Rows
<1>3. CASE EditConfig
  BY <1>3 DEF EditConfig, Count, ConfigFrom, TypeOK, RowOK, Rows
<1>4. CASE Reconcile
  <2>1. row'.config = row.config
    BY <1>4 DEF Reconcile, StagedRow, FailedRow, NoRow, TypeOK, RowOK, Rows, hubVars
  <2> QED BY <2>1 DEF ConfigFrom
<1>5. CASE Activate
  <2>1. row' = NoRow \/ row'.config = row.config
    BY <1>5 DEF Activate, Promoted, NotPromoted, TypeOK, RowOK, Rows
  <2>2. ~Installed(NoRow) /\ NoRow.config = 0
    BY DEF Installed, NoRow
  <2> QED BY <2>1, <2>2 DEF ConfigFrom
<1> QED BY <1>1, <1>2, <1>3, <1>4, <1>5, JobConfigFrom
        DEF Next, UserStep, Refresh, AddSource, SetEnabled, Restart, vars, hubVars

(* A job holds the row as it read it, or reads the row as it is.               *)
LEMMA JobsRead ==
  ASSUME TypeOK, [Next]_vars, NEW k \in Jobs
  PROVE  job'[k].saw \in {job[k].saw, row, NoRow}
<1>1. ASSUME NEW j \in Jobs, NEW new, job' = [job EXCEPT ![j] = new],
             new.saw \in {job[j].saw, row, NoRow}
      PROVE  job'[k].saw \in {job[k].saw, row, NoRow}
  BY <1>1 DEF TypeOK
<1>2. ASSUME NEW j \in Jobs, Ends(j) PROVE job'[k].saw \in {job[k].saw, row, NoRow}
  BY <1>1, <1>2 DEF Ends, EndedJob, NoJob
<1>3. ASSUME NEW j \in Jobs, NEW where, JobAt(j, where)
      PROVE  job'[k].saw \in {job[k].saw, row, NoRow}
  BY <1>3 DEF JobAt, TypeOK, JobStates
<1>4. ASSUME NEW j \in Jobs, InstallBegins(j) \/ UpdateBegins(j) \/ UninstallBegins(j)
      PROVE  job'[k].saw \in {job[k].saw, row, NoRow}
  <2>1. ASSUME NEW new, Begin(j, new), new.saw \in {row, NoRow}
        PROVE  job'[k].saw \in {job[k].saw, row, NoRow}
    BY <1>1, <2>1 DEF Begin
  <2>2. ASSUME NEW b, NEW s, NEW e,
               Begin(j, [NoJob EXCEPT !.at = "resolved", !.build = b, !.source = s, !.edition = e])
        PROVE  job'[k].saw \in {job[k].saw, row, NoRow}
    BY <2>1, <2>2 DEF NoJob
  <2>3. ASSUME NEW b, NEW s, NEW e,
               Begin(j, [NoJob EXCEPT !.kind = "update", !.at = "resolved", !.build = b,
                                      !.source = s, !.edition = e])
        PROVE  job'[k].saw \in {job[k].saw, row, NoRow}
    BY <2>1, <2>3 DEF NoJob
  <2>4. ASSUME NEW b,
               Begin(j, [NoJob EXCEPT !.at = "download", !.build = b, !.source = Local, !.saw = row])
        PROVE  job'[k].saw \in {job[k].saw, row, NoRow}
    BY <2>1, <2>4 DEF NoJob
  <2>5. ASSUME Begin(j, [NoJob EXCEPT !.kind = "update", !.at = "missing", !.saw = row])
        PROVE  job'[k].saw \in {job[k].saw, row, NoRow}
    BY <2>1, <2>5 DEF NoJob
  <2>6. ASSUME Begin(j, [NoJob EXCEPT !.kind = "uninstall", !.at = "disable"])
        PROVE  job'[k].saw \in {job[k].saw, row, NoRow}
    BY <2>1, <2>6 DEF NoJob
  <2> QED BY <1>4, <2>2, <2>3, <2>4, <2>5, <2>6 DEF InstallBegins, UpdateBegins, UninstallBegins
<1>5. ASSUME NEW j \in Jobs, Bind(j) PROVE job'[k].saw \in {job[k].saw, row, NoRow}
  BY <1>2, <1>5 DEF Bind, TypeOK, JobStates
<1>6. ASSUME NEW j \in Jobs, Disable(j) PROVE job'[k].saw \in {job[k].saw, row, NoRow}
  BY <1>2, <1>6 DEF Disable, TypeOK, JobStates
<1>7. CASE Restart
  BY <1>7 DEF Restart, TypeOK, EndedJob, NoJob
<1>8. ASSUME NEW j \in Jobs, JobStep(j) PROVE job'[k].saw \in {job[k].saw, row, NoRow}
  BY <1>2, <1>3, <1>4, <1>5, <1>6, <1>8
     DEF JobStep, InstallStep, RecordMissing, Download, Build, Check, StageFails, Stop, Record,
         Enable, Remove, RemoveFails
<1> QED BY <1>7, <1>8
        DEF Next, UserStep, Refresh, RemoveSource, AddSource, EditConfig, SetEnabled, Reconcile,
            Activate, vars

LEMMA StepKeepsConfig == TypeOK /\ ConfigKept /\ [Next]_vars => ConfigKept'
<1> SUFFICES ASSUME TypeOK, ConfigKept, [Next]_vars PROVE ConfigKept'
  OBVIOUS
<1>1. bounds.edits \in Nat /\ bounds'.edits \in Nat /\ bounds.edits <= bounds'.edits
  BY EditsGrow, StepTyped DEF TypeOK
<1>2. row.config \in Nat /\ \A j \in Jobs : job[j].saw.config \in Nat
  BY DEF TypeOK, JobOK, RowOK, Rows
<1>3. row'.config <= bounds'.edits
  BY <1>1, <1>2, StepConfigFrom DEF ConfigFrom, ConfigKept
<1>4. ASSUME NEW j \in Jobs PROVE job'[j].saw.config <= bounds'.edits
  <2>1. NoRow.config = 0
    BY DEF NoRow
  <2> QED BY <1>1, <1>2, <2>1, JobsRead DEF ConfigKept
<1> QED BY <1>3, <1>4 DEF ConfigKept

LEMMA InitConfig == Init => ConfigKept
BY DEF Init, ConfigKept, NoJob, NoRow

(* No edit of an installed provider is undone by what a job read before it,     *)
(* except where an update that found nothing writes the row back.             *)
THEOREM EditsStay == Spec => EditsKept
<1>1. TypeOK /\ ConfigKept /\ [Next]_vars
        => [Installed(row) /\ Installed(row') /\ row'.config < row.config =>
              \E j \in Jobs : job[j].at = "missing" /\ job'[j].at = "done"]_vars
  <2> SUFFICES ASSUME TypeOK, ConfigKept, [Next]_vars, Installed(row), Installed(row'),
                      row'.config < row.config
               PROVE  \E j \in Jobs : job[j].at = "missing" /\ job'[j].at = "done"
    OBVIOUS
  <2>1. row.config \in Nat /\ bounds.edits \in Nat
    BY DEF TypeOK, RowOK, Rows
  <2> QED BY <2>1, StepConfigFrom DEF ConfigFrom, ConfigKept
<1> QED BY <1>1, InitTyped, StepTyped, InitConfig, StepKeepsConfig, PTL DEF Spec, EditsKept

-----------------------------------------------------------------------------
(* An uninstall that nothing overlapped.  From when it has disabled the         *)
(* provider until somebody undoes it, only uninstalls run, so nobody enables   *)
(* the provider and startup finds nothing to reconcile.                       *)

GoneKept ==
  gone # "no" =>
    /\ enabled = FALSE
    /\ \A j \in Jobs : job[j].at \in {"idle", "done", "disable", "remove"}
    /\ gone = "yes" => ~Installed(row) \/ (row.state = "removed" /\ row.pending)

LEMMA BeginKeepsGone ==
  ASSUME TypeOK, GoneKept, NEW j \in Jobs,
         InstallBegins(j) \/ UpdateBegins(j) \/ UninstallBegins(j)
  PROVE  GoneKept'
<1>1. ASSUME NEW new, Begin(j, new), new.kind # "uninstall" PROVE GoneKept'
  BY <1>1 DEF Begin, GoneKept
<1>2. ASSUME NEW b, NEW s, NEW e,
             Begin(j, [NoJob EXCEPT !.at = "resolved", !.build = b, !.source = s, !.edition = e])
      PROVE  GoneKept'
  BY <1>1, <1>2 DEF NoJob
<1>3. ASSUME NEW b, NEW s, NEW e,
             Begin(j, [NoJob EXCEPT !.kind = "update", !.at = "resolved", !.build = b,
                                    !.source = s, !.edition = e])
      PROVE  GoneKept'
  BY <1>1, <1>3 DEF NoJob
<1>4. ASSUME NEW b,
             Begin(j, [NoJob EXCEPT !.at = "download", !.build = b, !.source = Local, !.saw = row])
      PROVE  GoneKept'
  BY <1>1, <1>4 DEF NoJob
<1>5. ASSUME Begin(j, [NoJob EXCEPT !.kind = "update", !.at = "missing", !.saw = row])
      PROVE  GoneKept'
  BY <1>1, <1>5 DEF NoJob
<1>6. ASSUME Begin(j, [NoJob EXCEPT !.kind = "uninstall", !.at = "disable"])
      PROVE  GoneKept'
  <2> DEFINE new == [NoJob EXCEPT !.kind = "uninstall", !.at = "disable"]
  <2>1. new.kind = "uninstall" /\ new.at = "disable"
    BY DEF NoJob
  <2>2. gone' = gone /\ row' = row /\ enabled' = enabled /\ job' = [job EXCEPT ![j] = new]
    BY <1>6, <2>1 DEF Begin, hubVars
  <2> QED BY <2>1, <2>2 DEF GoneKept, TypeOK, Installed
<1> QED BY <1>2, <1>3, <1>4, <1>5, <1>6 DEF InstallBegins, UpdateBegins, UninstallBegins

(* Installs and updates do not run while the provider is gone.                *)
LEMMA InstallKeepsGone ==
  ASSUME TypeOK, GoneKept, NEW j \in Jobs, InstallStep(j) PROVE GoneKept'
<1>1. gone' = gone
  BY DEF InstallStep, RecordMissing, Bind, Download, Build, Check, StageFails, Stop, Record, Enable
<1>2. job[j].at \notin {"idle", "done", "disable", "remove"}
  BY DEF InstallStep, RecordMissing, Bind, Download, Build, Check, StageFails, Stop, Record, Enable
<1> QED BY <1>1, <1>2 DEF GoneKept

LEMMA UninstallKeepsGone ==
  ASSUME TypeOK, GoneKept, NEW j \in Jobs, Disable(j) \/ Remove(j) \/ RemoveFails(j)
  PROVE  GoneKept'
<1>1. CASE Disable(j)
  <2>1. CASE Ends(j) /\ enabled' = enabled /\ UNCHANGED gone
    BY <1>1, <2>1, NoJobTyped DEF Disable, Ends, EndedJob, NoJob, GoneKept, TypeOK, Installed
  <2>2. CASE /\ enabled' = Disabled /\ job' = [job EXCEPT ![j].at = "remove", ![j].was = enabled]
             /\ gone' = IF Running = {j} THEN "disabled" ELSE "no"
    <3>1. \A k \in Jobs : Running = {j} /\ k # j => job[k].at \in {"idle", "done"}
      BY DEF Running
    <3>2. \A k \in Jobs \ {j} : job'[k] = job[k]
      BY <2>2 DEF TypeOK
    <3>3. job'[j].at = "remove"
      BY <2>2 DEF TypeOK, JobStates
    <3> QED BY <2>2, <3>1, <3>2, <3>3 DEF GoneKept, Disabled
  <2> QED BY <1>1, <2>1, <2>2 DEF Disable
<1>2. CASE Remove(j)
  <2>1. Installed(row') => row'.state = "removed" /\ row'.pending
    BY <1>2 DEF Remove, RemovedRow, NoRow, Installed, TypeOK, RowOK, Rows
  <2>2. \A k \in Jobs : job'[k].at \in {job[k].at, "done"}
    BY <1>2 DEF Remove, Ends, EndedJob, NoJob, TypeOK
  <2>3. gone' # "no" => gone = "disabled" /\ enabled' = enabled
    BY <1>2 DEF Remove
  <2> QED BY <2>1, <2>2, <2>3 DEF GoneKept
<1>3. CASE RemoveFails(j)
  BY <1>3 DEF RemoveFails, GoneKept
<1> QED BY <1>1, <1>2, <1>3

LEMMA UserKeepsGone ==
  ASSUME TypeOK, GoneKept, UserStep \/ \E s \in Sources : Refresh(s)
  PROVE  GoneKept'
<1>1. CASE RemoveSource
  BY <1>1 DEF RemoveSource, Unbound, Installed, GoneKept, TypeOK, RowOK, Rows
<1>2. CASE EditConfig
  BY <1>2 DEF EditConfig, Installed, GoneKept, TypeOK, RowOK, Rows
<1>3. ASSUME NEW to \in BOOLEAN, SetEnabled(to) PROVE GoneKept'
  BY <1>3 DEF SetEnabled, Installed, GoneKept
<1> QED BY <1>1, <1>2, <1>3 DEF UserStep, Refresh, AddSource, Installed, GoneKept, hubVars

LEMMA StartupKeepsGone ==
  ASSUME TypeOK, GoneKept, Restart \/ Reconcile \/ Activate
  PROVE  GoneKept'
<1>1. CASE Restart
  <2>1. \A k \in Jobs : job'[k].at \in {job[k].at, "done"}
    BY <1>1 DEF Restart, EndedJob, NoJob
  <2>2. gone' # "no" => gone = gone'
    BY <1>1 DEF Restart
  <2> QED BY <1>1, <2>1, <2>2 DEF Restart, GoneKept, Installed, hubVars
<1>2. CASE Reconcile
  BY <1>2 DEF Reconcile, MissingAtStart, GoneKept, Installed, hubVars
<1>3. CASE Activate
  <2>1. gone # "no" => enabled' = FALSE
    BY <1>3 DEF Activate, GoneKept
  <2>2. gone = "yes" => ~Installed(row') \/ (row'.state = "removed" /\ row'.pending)
    BY <1>3 DEF Activate, GoneKept, Installed, NoRow, TypeOK, RowOK
  <2> QED BY <1>3, <2>1, <2>2 DEF Activate, GoneKept
<1> QED BY <1>1, <1>2, <1>3

LEMMA StepKeepsGone == TypeOK /\ GoneKept /\ [Next]_vars => GoneKept'
<1> SUFFICES ASSUME TypeOK, GoneKept, [Next]_vars PROVE GoneKept'
  OBVIOUS
<1>1. ASSUME NEW j \in Jobs, JobStep(j) PROVE GoneKept'
  BY <1>1, BeginKeepsGone, InstallKeepsGone, UninstallKeepsGone DEF JobStep
<1>2. CASE UNCHANGED vars
  BY <1>2 DEF GoneKept, Installed, vars, hubVars
<1> QED BY <1>1, <1>2, UserKeepsGone, StartupKeepsGone DEF Next

(* An uninstall that no other job overlapped stays done, through restarts and   *)
(* what startup installs, until somebody installs or enables the provider.     *)
THEOREM UninstallStays == Spec => []UninstallSticks
<1>1. Init => GoneKept
  BY DEF Init, GoneKept
<1>2. GoneKept => UninstallSticks
  BY DEF GoneKept, UninstallSticks
<1> QED BY <1>1, <1>2, InitTyped, StepTyped, StepKeepsGone, PTL DEF Spec

-----------------------------------------------------------------------------
(* The source of the row, unless a job acted on what was no longer so.  A job   *)
(* that is bound to the community source was bound while there was one.        *)

Bound == {"download", "build", "check", "record"}
OriginKept ==
  /\ ~overtaken /\ row.source = Community => edition # 0 /\ origin = edition
  /\ \A j \in Jobs : job[j].at \in Bound /\ job[j].source = Community => job[j].edition # 0

LEMMA KeepsOrigin ==
  ASSUME OriginKept, UNCHANGED <<row, origin, edition>>, overtaken => overtaken',
         \A k \in Jobs : job'[k].at \in Bound /\ job'[k].source = Community => job'[k].edition # 0
  PROVE  OriginKept'
BY DEF OriginKept

LEMMA OneJobBound ==
  ASSUME TypeOK, OriginKept, NEW j \in Jobs, NEW new, job' = [job EXCEPT ![j] = new],
         new.at \in Bound /\ new.source = Community => new.edition # 0
  PROVE  \A k \in Jobs : job'[k].at \in Bound /\ job'[k].source = Community => job'[k].edition # 0
BY DEF TypeOK, OriginKept

LEMMA EndsBound ==
  ASSUME TypeOK, OriginKept, NEW j \in Jobs, Ends(j)
  PROVE  \A k \in Jobs : job'[k].at \in Bound /\ job'[k].source = Community => job'[k].edition # 0
<1>1. EndedJob.at \notin Bound
  BY DEF EndedJob, NoJob, Bound
<1> QED BY <1>1, OneJobBound DEF Ends

LEMMA JobAtBound ==
  ASSUME TypeOK, OriginKept, NEW j \in Jobs, NEW where, JobAt(j, where),
         where \in Bound => job[j].at \in Bound
  PROVE  \A k \in Jobs : job'[k].at \in Bound /\ job'[k].source = Community => job'[k].edition # 0
<1> DEFINE new == [job[j] EXCEPT !.at = where]
<1>1. job' = [job EXCEPT ![j] = new]
  BY DEF JobAt, TypeOK
<1>2. new.at = where /\ new.source = job[j].source /\ new.edition = job[j].edition
  BY DEF TypeOK, JobStates
<1> QED BY <1>1, <1>2, OneJobBound DEF OriginKept

LEMMA BeginsKeepOrigin ==
  ASSUME TypeOK, OriginKept, NEW j \in Jobs,
         InstallBegins(j) \/ UpdateBegins(j) \/ UninstallBegins(j)
  PROVE  OriginKept'
<1>1. ASSUME NEW new, Begin(j, new), new.at \notin Bound \/ new.source # Community PROVE OriginKept'
  <2>1. \A k \in Jobs : job'[k].at \in Bound /\ job'[k].source = Community => job'[k].edition # 0
    BY <1>1, OneJobBound DEF Begin
  <2> QED BY <1>1, <2>1, KeepsOrigin DEF Begin, hubVars, catalogVars
<1>2. ASSUME NEW b, NEW s, NEW e,
             Begin(j, [NoJob EXCEPT !.at = "resolved", !.build = b, !.source = s, !.edition = e])
      PROVE  OriginKept'
  BY <1>1, <1>2 DEF NoJob, Bound
<1>3. ASSUME NEW b, NEW s, NEW e,
             Begin(j, [NoJob EXCEPT !.kind = "update", !.at = "resolved", !.build = b,
                                    !.source = s, !.edition = e])
      PROVE  OriginKept'
  BY <1>1, <1>3 DEF NoJob, Bound
<1>4. ASSUME NEW b,
             Begin(j, [NoJob EXCEPT !.at = "download", !.build = b, !.source = Local, !.saw = row])
      PROVE  OriginKept'
  BY <1>1, <1>4, HubAssumption DEF NoJob, Bound, Sources
<1>5. ASSUME Begin(j, [NoJob EXCEPT !.kind = "update", !.at = "missing", !.saw = row])
      PROVE  OriginKept'
  BY <1>1, <1>5 DEF NoJob, Bound
<1>6. ASSUME Begin(j, [NoJob EXCEPT !.kind = "uninstall", !.at = "disable"])
      PROVE  OriginKept'
  BY <1>1, <1>6 DEF NoJob, Bound
<1> QED BY <1>2, <1>3, <1>4, <1>5, <1>6 DEF InstallBegins, UpdateBegins, UninstallBegins

LEMMA StagingKeepsOrigin ==
  ASSUME TypeOK, OriginKept, NEW j \in Jobs, Bind(j) \/ Download(j) \/ Build(j) \/ Check(j) \/ Stop(j)
  PROVE  OriginKept'
<1>1. UNCHANGED <<row, origin, edition>>
  BY DEF Bind, Download, Build, Check, Stop, hubVars, catalogVars
<1>3. overtaken => overtaken'
  BY Zenon DEF Bind, Download, Build, Check, Stop
<1>2. \A k \in Jobs : job'[k].at \in Bound /\ job'[k].source = Community => job'[k].edition # 0
  <2>1. CASE Bind(j)
    <3> DEFINE s == Binding(job[j].source, job[j].build)
               new == [job[j] EXCEPT !.at = "download", !.source = s, !.saw = row,
                                     !.edition = EditionOf(s)]
    <3>1. Ends(j) \/ job' = [job EXCEPT ![j] = new]
      BY <2>1 DEF Bind, TypeOK, JobStates
    <3>2. s = Community => EditionOf(s) # 0
      BY HubAssumption DEF Binding, Present, EditionOf, Sources
    <3>3. new.source = s /\ new.edition = EditionOf(s)
      <4> HIDE DEF s
      <4> QED BY DEF TypeOK, JobStates
    <3> QED BY <3>1, <3>2, <3>3, EndsBound, OneJobBound
  <2>2. CASE Download(j) \/ Build(j) \/ Check(j) \/ Stop(j)
    BY <2>2, EndsBound, JobAtBound DEF Download, Build, Check, Stop, Bound
  <2> QED BY <2>1, <2>2
<1> QED BY <1>1, <1>2, <1>3, KeepsOrigin

LEMMA RecordsKeepOrigin ==
  ASSUME TypeOK, ActiveKept, OriginKept, NEW j \in Jobs,
         RecordMissing(j) \/ StageFails(j) \/ Record(j) \/ Enable(j)
  PROVE  OriginKept'
<1>1. \A k \in Jobs : job'[k].at \in Bound /\ job'[k].source = Community => job'[k].edition # 0
  BY EndsBound, JobAtBound DEF RecordMissing, StageFails, Record, Enable, Bound
<1>2. edition' = edition
  BY DEF RecordMissing, StageFails, Record, Enable, catalogVars
<1>3. ~overtaken' /\ row'.source = Community => edition # 0 /\ origin' = edition
  <2>1. CASE RecordMissing(j)
    BY <2>1 DEF RecordMissing, OriginKept
  <2>2. CASE StageFails(j)
    <3>1. Current(j).active = row.active /\ RowOK(Current(j)) /\ RowOK(row)
      BY <2>2, CurrentActive, CurrentOK DEF StageFails, Reading, TypeOK
    <3>2. CASE row.active = 0
      <4>1. row'.state = "failed" /\ row'.source = job[j].source
        BY <2>2, <3>1, <3>2 DEF StageFails, FailedRow, NoRow
      <4> QED BY <2>2, <4>1 DEF StageFails, SourceLost, OriginKept, Bound
    <3>3. CASE row.active # 0
      <4>1. Current(j) = row
        BY <3>1, <3>3 DEF Current, Installed, RowOK
      <4>2. row'.state = row.state /\ row'.source = row.source /\ row.state # "failed"
        BY <2>2, <3>1, <3>3, <4>1 DEF StageFails, FailedRow, RowOK, Rows
      <4> QED BY <2>2, <4>2 DEF StageFails, OriginKept
    <3> QED BY <3>2, <3>3
  <2>3. CASE Record(j)
    <3>1. row'.source = job[j].source
      BY <2>3, CurrentOK DEF Record, StagedRow, RowOK, Rows
    <3> QED BY <2>3, <3>1 DEF Record, SourceLost, OriginKept, Bound
  <2>4. CASE Enable(j)
    BY <2>4 DEF Enable, OriginKept
  <2> QED BY <2>1, <2>2, <2>3, <2>4
<1> QED BY <1>1, <1>2, <1>3 DEF OriginKept

LEMMA UninstallKeepsOrigin ==
  ASSUME TypeOK, OriginKept, NEW j \in Jobs, Disable(j) \/ Remove(j) \/ RemoveFails(j)
  PROVE  OriginKept'
<1>1. \A k \in Jobs : job'[k].at \in Bound /\ job'[k].source = Community => job'[k].edition # 0
  <2>1. CASE job' = [job EXCEPT ![j].at = "remove", ![j].was = enabled]
    <3> DEFINE new == [job[j] EXCEPT !.at = "remove", !.was = enabled]
    <3>1. job' = [job EXCEPT ![j] = new]
      BY <2>1 DEF TypeOK, JobStates
    <3>2. new.at \notin Bound
      BY DEF TypeOK, JobStates, Bound
    <3> QED BY <3>1, <3>2, OneJobBound
  <2> QED BY <2>1, EndsBound DEF Disable, Remove, RemoveFails
<1>2. UNCHANGED <<edition, overtaken>>
  BY DEF Disable, Remove, RemoveFails, catalogVars
<1>3. CASE Remove(j)
  <2>1. NoRow.source = None /\ NoRow.state = "none"
    BY DEF NoRow
  <2>2. Installed(row) /\ row.active = 0 => RemovedRow = NoRow
    BY DEF RemovedRow
  <2>4. row.active # 0 => RemovedRow.source = row.source
    BY DEF RemovedRow, TypeOK, RowOK, Rows
  <2>5. NoRow.source # Community
    BY <2>1, HubAssumption DEF Sources
  <2>3. row'.source = Community => row'.source = row.source /\ origin' = origin
    <3>1. CASE Installed(row) /\ row.active = 0
      BY <1>3, <2>2, <2>5, <3>1 DEF Remove
    <3>2. CASE Installed(row) /\ row.active # 0
      BY <1>3, <2>4, <3>2 DEF Remove
    <3>3. CASE ~Installed(row)
      BY <1>3, <3>3 DEF Remove
    <3> QED BY <3>1, <3>2, <3>3
  <2> QED BY <1>1, <1>2, <2>3 DEF OriginKept
<1>4. CASE Disable(j) \/ RemoveFails(j)
  BY <1>1, <1>2, <1>4, KeepsOrigin DEF Disable, RemoveFails
<1> QED BY <1>3, <1>4

LEMMA UserKeepsOrigin ==
  ASSUME TypeOK, OriginKept, UserStep \/ \E s \in Sources : Refresh(s)
  PROVE  OriginKept'
<1>1. CASE RemoveSource
  <2>1. row'.source # Community
    BY <1>1, HubAssumption DEF RemoveSource, Unbound, TypeOK, RowOK, Rows, Sources
  <2> QED BY <1>1, <2>1 DEF RemoveSource, OriginKept
<1>2. CASE AddSource
  <2>1. UNCHANGED <<row, origin, job>> /\ edition' = 2
    BY <1>2 DEF AddSource, hubVars
  <2>2. ~overtaken' => ~overtaken /\ edition # 1
    BY Zenon, <1>2 DEF AddSource
  <2>3. edition \in {0, 1, 2} /\ edition # 2
    BY <1>2 DEF AddSource, TypeOK
  <2>4. ~overtaken' => row'.source # Community
    BY <2>1, <2>2, <2>3 DEF OriginKept
  <2> QED BY <2>1, <2>4 DEF OriginKept
<1>3. CASE EditConfig
  BY <1>3 DEF EditConfig, OriginKept, TypeOK, RowOK, Rows, catalogVars
<1>4. ASSUME NEW to \in BOOLEAN, SetEnabled(to) PROVE OriginKept'
  BY <1>4 DEF SetEnabled, OriginKept, catalogVars
<1>5. ASSUME NEW s \in Sources, Refresh(s) PROVE OriginKept'
  BY <1>5 DEF Refresh, OriginKept, hubVars
<1> QED BY <1>1, <1>2, <1>3, <1>4, <1>5 DEF UserStep

LEMMA StartupKeepsOrigin ==
  ASSUME TypeOK, OriginKept, Restart \/ Reconcile \/ Activate
  PROVE  OriginKept'
<1>1. CASE Restart
  <2>1. \A k \in Jobs : job'[k] \in {job[k], EndedJob}
    BY <1>1 DEF Restart
  <2>2. EndedJob.at \notin Bound
    BY DEF EndedJob, NoJob, Bound
  <2> QED BY <1>1, <2>1, <2>2 DEF Restart, OriginKept, hubVars, catalogVars
<1>2. CASE Reconcile
  <2>1. (row'.source = row.source /\ origin' = origin) \/ row'.source # Community
    <3>1. CASE UNCHANGED hubVars
      BY <3>1 DEF hubVars
    <3>2. CASE (\E b \in Builds : row' = StagedRow(row, b, Official)) \/ row' = FailedRow(row, Official)
      <4>1. CASE \E b \in Builds : row' = StagedRow(row, b, Official)
        BY <4>1, HubAssumption DEF StagedRow, TypeOK, RowOK, Rows
      <4>2. CASE row' = FailedRow(row, Official) /\ row.active = 0
        BY <4>2, HubAssumption DEF FailedRow, NoRow
      <4>3. CASE row.active # 0 /\ ~UNCHANGED hubVars
        BY <1>2, <4>3 DEF Reconcile, MissingAtStart, TypeOK, RowOK
      <4> QED BY <3>1, <3>2, <4>1, <4>2, <4>3
    <3> QED BY <1>2, <3>1, <3>2 DEF Reconcile, Newest, TypeOK, Sources
  <2> QED BY <1>2, <2>1 DEF Reconcile, OriginKept, catalogVars
<1>3. CASE Activate
  <2>1. (row'.source = row.source /\ origin' = origin) \/ row'.source # Community
    <3>1. NoRow.source # Community
      BY HubAssumption DEF NoRow, Sources
    <3>2. Promoted(row).source = row.source /\ NotPromoted(row).source = row.source
      BY DEF Promoted, NotPromoted, TypeOK, RowOK, Rows
    <3> QED BY <1>3, <3>1, <3>2 DEF Activate
  <2> QED BY <1>3, <2>1 DEF Activate, OriginKept, catalogVars
<1> QED BY <1>1, <1>2, <1>3

LEMMA StepKeepsOrigin == TypeOK /\ ActiveKept /\ OriginKept /\ [Next]_vars => OriginKept'
<1> SUFFICES ASSUME TypeOK, ActiveKept, OriginKept, [Next]_vars PROVE OriginKept'
  OBVIOUS
<1>1. ASSUME NEW j \in Jobs, JobStep(j) PROVE OriginKept'
  BY <1>1, BeginsKeepOrigin, StagingKeepsOrigin, RecordsKeepOrigin, UninstallKeepsOrigin
     DEF JobStep, InstallStep
<1>2. CASE UNCHANGED vars
  BY <1>2 DEF OriginKept, vars, hubVars, catalogVars
<1> QED BY <1>1, <1>2, UserKeepsOrigin, StartupKeepsOrigin DEF Next

(* The source of a row is the catalog its code came from, unless that went       *)
(* while a job was under way or another replaced it under its name.            *)
THEOREM SourceStays == Spec => []SourceIsOrigin
<1>1. Init => OriginKept
  BY HubAssumption DEF Init, OriginKept, NoRow, NoJob, Bound, Sources
<1>2. OriginKept => SourceIsOrigin
  BY DEF OriginKept, SourceIsOrigin
<1> QED BY <1>1, <1>2, InitTyped, StepTyped, InitActive, StepKeepsActive, StepKeepsOrigin, PTL DEF Spec

-----------------------------------------------------------------------------
(* What waits for the restart is whole.  A job past its download, or past its   *)
(* build, has its files, because only a stop removes files: of no other job     *)
(* that runs, and of no row that has staged them since.                        *)

HasFiles(x) ==
  /\ x.at \in {"build", "check", "record"} => x.build \in bundles
  /\ x.at \in {"check", "record"} => x.build \in envs
RowWhole == row.state = "staged" /\ row.pending => OnDisk(row.staged)
Whole == RowWhole /\ \A j \in Jobs : HasFiles(job[j])
WholeKept == overtaken \/ Whole

LEMMA OvertakenStays ==
  ASSUME NEW j \in Jobs, JobStep(j), ~overtaken' PROVE ~overtaken
<1>1. ASSUME NEW new, Begin(j, new) PROVE ~overtaken
  BY <1>1, Zenon DEF Begin
<1>2. InstallBegins(j) \/ UpdateBegins(j) \/ UninstallBegins(j) => \E new : Begin(j, new)
  BY Zenon DEF InstallBegins, UpdateBegins, UninstallBegins
<1>3. CASE InstallStep(j)
  BY <1>3, Zenon DEF InstallStep, RecordMissing, Bind, Download, Build, Check, StageFails, Stop,
     Record, Enable
<1>4. CASE Disable(j) \/ Remove(j) \/ RemoveFails(j)
  BY <1>4, Zenon DEF Disable, Remove, RemoveFails
<1> QED BY <1>1, <1>2, <1>3, <1>4 DEF JobStep

LEMMA StepNotOvertaken == ASSUME [Next]_vars, ~overtaken' PROVE ~overtaken
<1>1. CASE UNCHANGED vars
  BY <1>1 DEF vars
<1>2. CASE UserStep \/ \E s \in Sources : Refresh(s)
  BY <1>2, Zenon DEF UserStep, EditConfig, RemoveSource, AddSource, SetEnabled, Refresh
<1>3. CASE Restart \/ Reconcile \/ Activate
  BY <1>3, Zenon DEF Restart, Reconcile, Activate
<1> QED BY <1>1, <1>2, <1>3, OvertakenStays DEF Next

LEMMA OneJobHasFiles ==
  ASSUME TypeOK, Whole, NEW j \in Jobs, NEW new, job' = [job EXCEPT ![j] = new],
         bundles \subseteq bundles', envs \subseteq envs', HasFiles(new)'
  PROVE  \A k \in Jobs : HasFiles(job[k])'
BY DEF TypeOK, Whole, HasFiles

LEMMA EndsHasFiles ==
  ASSUME TypeOK, Whole, NEW j \in Jobs, Ends(j), UNCHANGED diskVars
  PROVE  \A k \in Jobs : HasFiles(job[k])'
BY DEF TypeOK, Whole, HasFiles, Ends, EndedJob, NoJob, diskVars

LEMMA BeginsKeepWhole ==
  ASSUME TypeOK, Whole, NEW j \in Jobs, InstallBegins(j) \/ UpdateBegins(j) \/ UninstallBegins(j)
  PROVE  Whole'
<1>1. ASSUME NEW new, Begin(j, new), new.at \notin {"build", "check", "record"} PROVE Whole'
  BY <1>1 DEF Begin, Whole, HasFiles, RowWhole, OnDisk, hubVars, diskVars, TypeOK
<1>2. ASSUME NEW b, NEW s, NEW e,
             Begin(j, [NoJob EXCEPT !.at = "resolved", !.build = b, !.source = s, !.edition = e])
      PROVE  Whole'
  BY <1>1, <1>2 DEF NoJob
<1>3. ASSUME NEW b, NEW s, NEW e,
             Begin(j, [NoJob EXCEPT !.kind = "update", !.at = "resolved", !.build = b,
                                    !.source = s, !.edition = e])
      PROVE  Whole'
  BY <1>1, <1>3 DEF NoJob
<1>4. ASSUME NEW b,
             Begin(j, [NoJob EXCEPT !.at = "download", !.build = b, !.source = Local, !.saw = row])
      PROVE  Whole'
  BY <1>1, <1>4 DEF NoJob
<1>5. ASSUME Begin(j, [NoJob EXCEPT !.kind = "update", !.at = "missing", !.saw = row])
      PROVE  Whole'
  BY <1>1, <1>5 DEF NoJob
<1>6. ASSUME Begin(j, [NoJob EXCEPT !.kind = "uninstall", !.at = "disable"])
      PROVE  Whole'
  BY <1>1, <1>6 DEF NoJob
<1> QED BY <1>2, <1>3, <1>4, <1>5, <1>6 DEF InstallBegins, UpdateBegins, UninstallBegins

LEMMA StagingKeepsWhole ==
  ASSUME TypeOK, Whole, NEW j \in Jobs, Bind(j) \/ Download(j) \/ Build(j) \/ Check(j)
  PROVE  Whole'
<1>1. row' = row /\ bundles \subseteq bundles' /\ envs \subseteq envs'
  BY DEF Bind, Download, Build, Check, hubVars, diskVars
<1>2. \A k \in Jobs : HasFiles(job[k])'
  <2>1. CASE Bind(j)
    BY <2>1, <1>1, EndsHasFiles DEF Bind, TypeOK, JobStates, Whole, HasFiles
  <2>2. CASE Download(j)
    BY <2>2, <1>1 DEF Download, JobAt, TypeOK, JobStates, Whole, HasFiles
  <2>3. CASE Build(j)
    BY <2>3, <1>1 DEF Build, JobAt, TypeOK, JobStates, Whole, HasFiles
  <2>4. CASE Check(j)
    BY <2>4, <1>1 DEF Check, JobAt, OnDisk, TypeOK, JobStates, Whole, HasFiles
  <2> QED BY <2>1, <2>2, <2>3, <2>4
<1> QED BY <1>1, <1>2 DEF Whole, RowWhole, OnDisk

LEMMA StopKeepsWhole ==
  ASSUME TypeOK, Whole, NEW j \in Jobs, Stop(j), ~overtaken' PROVE Whole'
<1>1. ~Shared(j)
  BY Zenon DEF Stop
<1>2. ASSUME NEW b, b # job[j].build \/ b \in InUse(j)
      PROVE  (b \in bundles => b \in bundles') /\ (b \in envs => b \in envs')
  BY <1>2 DEF Stop, Discarded
<1>3. RowWhole'
  <2>1. row.staged = job[j].build => row.staged \in InUse(j)
    BY <1>1 DEF Shared, InUse
  <2> QED BY <1>2, <2>1 DEF Stop, Whole, RowWhole, OnDisk, hubVars
<1>4. ASSUME NEW k \in Jobs PROVE HasFiles(job[k])'
  <2>1. CASE k = j
    BY <2>1 DEF Stop, Ends, EndedJob, NoJob, TypeOK, HasFiles
  <2>2. CASE k # j
    <3>1. job'[k] = job[k]
      BY <2>2 DEF Stop, Ends, TypeOK
    <3>2. job[k].at \in {"build", "check", "record"} => job[k].build # job[j].build
      BY <1>1, <2>2 DEF Shared, Running
    <3> QED BY <1>2, <3>1, <3>2 DEF Whole, HasFiles
  <2> QED BY <2>1, <2>2
<1> QED BY <1>3, <1>4 DEF Whole

LEMMA RecordsKeepWhole ==
  ASSUME TypeOK, Whole, NEW j \in Jobs, ~overtaken',
         RecordMissing(j) \/ StageFails(j) \/ Record(j) \/ Enable(j)
  PROVE  Whole'
<1>1. UNCHANGED diskVars
  BY DEF RecordMissing, StageFails, Record, Enable
<1>2. \A k \in Jobs : HasFiles(job[k])'
  <2>1. CASE JobAt(j, "enable")
    BY <1>1, <2>1 DEF JobAt, diskVars, TypeOK, JobStates, Whole, HasFiles
  <2> QED BY <1>1, <2>1, EndsHasFiles DEF RecordMissing, StageFails, Record, Enable
<1>3. RowWhole'
  <2>1. CASE RecordMissing(j)
    <3>1. row = job[j].saw
      BY <2>1, Zenon DEF RecordMissing
    <3> QED BY <1>1, <2>1, <3>1 DEF RecordMissing, Whole, RowWhole, OnDisk, diskVars
  <2>2. CASE StageFails(j)
    <3>1. ~row'.pending
      BY <2>2, CurrentOK DEF StageFails, FailedRow, NoRow, RowOK, Rows
    <3> QED BY <3>1 DEF RowWhole
  <2>3. CASE Record(j)
    <3>1. row'.staged = job[j].build
      BY <2>3, CurrentOK DEF Record, StagedRow, RowOK, Rows
    <3>2. OnDisk(job[j].build)
      BY <2>3 DEF Record, Whole, HasFiles, OnDisk
    <3> QED BY <1>1, <3>1, <3>2 DEF RowWhole, OnDisk, diskVars
  <2>4. CASE Enable(j)
    BY <1>1, <2>4 DEF Enable, Whole, RowWhole, OnDisk, diskVars
  <2> QED BY <2>1, <2>2, <2>3, <2>4
<1> QED BY <1>2, <1>3 DEF Whole

LEMMA UninstallKeepsWhole ==
  ASSUME TypeOK, Whole, NEW j \in Jobs, Disable(j) \/ Remove(j) \/ RemoveFails(j)
  PROVE  Whole'
<1>1. UNCHANGED diskVars
  BY DEF Disable, Remove, RemoveFails
<1>2. \A k \in Jobs : HasFiles(job[k])'
  <2>1. CASE job' = [job EXCEPT ![j].at = "remove", ![j].was = enabled]
    BY <1>1, <2>1 DEF diskVars, TypeOK, JobStates, Whole, HasFiles
  <2> QED BY <1>1, <2>1, EndsHasFiles DEF Disable, Remove, RemoveFails
<1>3. row' = row \/ row'.state # "staged"
  <2>1. RemovedRow.state # "staged"
    BY DEF RemovedRow, NoRow, TypeOK, RowOK, Rows
  <2> QED BY <2>1 DEF Disable, Remove, RemoveFails
<1> QED BY <1>1, <1>2, <1>3 DEF Whole, RowWhole, OnDisk, diskVars

LEMMA UserKeepsWhole ==
  ASSUME TypeOK, Whole, UserStep \/ \E s \in Sources : Refresh(s)
  PROVE  Whole'
<1>1. UNCHANGED <<diskVars, job>>
  BY DEF UserStep, EditConfig, RemoveSource, AddSource, SetEnabled, Refresh
<1>2. row'.state = row.state /\ row'.pending = row.pending /\ row'.staged = row.staged
  BY DEF UserStep, EditConfig, RemoveSource, AddSource, SetEnabled, Refresh, Unbound, hubVars,
     TypeOK, RowOK, Rows
<1> QED BY <1>1, <1>2 DEF Whole, RowWhole, HasFiles, OnDisk, diskVars

LEMMA StartupKeepsWhole ==
  ASSUME TypeOK, Whole, Restart \/ Reconcile \/ Activate
  PROVE  Whole'
<1>1. CASE Restart
  <2>1. \A k \in Jobs : job'[k] \in {job[k], EndedJob}
    BY <1>1 DEF Restart
  <2>2. EndedJob.at = "done"
    BY DEF EndedJob, NoJob
  <2> QED BY <1>1, <2>1, <2>2 DEF Restart, Whole, RowWhole, HasFiles, OnDisk, hubVars, diskVars
<1>2. CASE Reconcile
  <2>1. job' = job /\ bundles \subseteq bundles' /\ envs \subseteq envs'
    BY <1>2 DEF Reconcile, diskVars
  <2>2. RowWhole'
    <3>1. CASE UNCHANGED hubVars
      BY <2>1, <3>1 DEF hubVars, Whole, RowWhole, OnDisk
    <3>2. ASSUME NEW b \in Newest(listed[Official]), row' = StagedRow(row, b, Official),
                 bundles' = bundles \cup {b}, envs' = envs \cup {b}
          PROVE  RowWhole'
      BY <3>2 DEF StagedRow, RowWhole, OnDisk, TypeOK, RowOK, Rows
    <3>3. CASE row' = FailedRow(row, Official)
      BY <3>3, <2>1 DEF FailedRow, NoRow, RowWhole, OnDisk, Whole, TypeOK, RowOK, Rows
    <3> QED BY <1>2, <3>1, <3>2, <3>3 DEF Reconcile
  <2> QED BY <2>1, <2>2 DEF Whole, HasFiles
<1>3. CASE Activate
  <2>1. ~row'.pending
    <3>1. NoRow.pending = FALSE
      BY DEF NoRow
    <3>2. Promoted(row).pending = FALSE /\ NotPromoted(row).pending = FALSE
      BY DEF Promoted, NotPromoted, TypeOK, RowOK, Rows
    <3>3. row' \in {NoRow, Promoted(row), NotPromoted(row)} \/ (~row.pending /\ row' = row)
      BY <1>3 DEF Activate
    <3> QED BY <3>1, <3>2, <3>3, Zenon
  <2> QED BY <1>3, <2>1 DEF Activate, Whole, RowWhole, HasFiles, diskVars
<1> QED BY <1>1, <1>2, <1>3

LEMMA StepKeepsWhole == TypeOK /\ WholeKept /\ [Next]_vars => WholeKept'
<1> SUFFICES ASSUME TypeOK, WholeKept, [Next]_vars, ~overtaken' PROVE Whole'
  BY Zenon DEF WholeKept
<1>1. Whole
  BY StepNotOvertaken, Zenon DEF WholeKept
<1>2. ASSUME NEW j \in Jobs, JobStep(j) PROVE Whole'
  BY <1>1, <1>2, BeginsKeepWhole, StagingKeepsWhole, StopKeepsWhole, RecordsKeepWhole,
     UninstallKeepsWhole DEF JobStep, InstallStep
<1>3. CASE UNCHANGED vars
  BY <1>1, <1>3 DEF Whole, RowWhole, HasFiles, OnDisk, vars, hubVars, diskVars
<1> QED BY <1>1, <1>2, <1>3, UserKeepsWhole, StartupKeepsWhole DEF Next

(* A build that waits for the restart is whole on disk, unless a job that staged *)
(* the same build beside another was stopped.                                  *)
THEOREM StagedStaysWhole == Spec => []StagedWhole
<1>1. Init => WholeKept
  BY DEF Init, WholeKept, Whole, RowWhole, HasFiles, NoRow, NoJob
<1>2. WholeKept => StagedWhole
  BY Zenon DEF WholeKept, Whole, RowWhole, StagedWhole
<1> QED BY <1>1, <1>2, InitTyped, StepTyped, StepKeepsWhole, PTL DEF Spec
=============================================================================
