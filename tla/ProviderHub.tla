------------------------------ MODULE ProviderHub ------------------------------
(***************************************************************************)
(* The installation of one Provider Hub provider (provider_hub/service.py): *)
(* jobs that install, update and uninstall it, the requests that edit it,   *)
(* the catalogs it comes from, and what a restart makes of it.              *)
(*                                                                         *)
(* The row of a provider is read and written under the lock of the state    *)
(* file, but a job that stages a build takes long between what it reads and *)
(* what it writes: it downloads the bundle, builds its environment and      *)
(* starts it once.  Jobs run beside each other and may be stopped between   *)
(* their steps; a restart ends them all, and only a restart changes what    *)
(* runs.                                                                    *)
(***************************************************************************)
EXTENDS Naturals, FiniteSets

CONSTANTS
  Jobs,         \* jobs of the queue, each used once
  Builds,       \* the versions of the provider, in their order
  Official,     \* the official catalog source, which cannot be removed
  Community,    \* a source the user added
  Local,        \* an uploaded package, of no source
  None,         \* no source
  BuiltIn,      \* whether Bazarr ships a provider of this id, which a plugin takes over
  MaxEdits,     \* bound on edits of the configuration
  MaxRefreshes, \* bound on refreshes that change what a catalog lists
  MaxRestarts,  \* bound on restarts
  MaxFaults     \* bound on downloads, builds, checks and writes that fail

Sources == {Official, Community}

ASSUME HubAssumption ==
  /\ Builds \subseteq Nat \ {0} /\ IsFiniteSet(Builds)
  /\ Official # Community /\ Local \notin Sources /\ None \notin Sources /\ Local # None
  /\ BuiltIn \in BOOLEAN
  /\ MaxEdits \in Nat /\ MaxRefreshes \in Nat /\ MaxRestarts \in Nat /\ MaxFaults \in Nat

VARIABLES
  row,       \* installations[provider_id]
  enabled,   \* whether settings.general.enabled_providers names it
  bundles,   \* the builds whose bundle is on disk
  envs,      \* the builds whose environment is
  listed,    \* listed[s]: the builds source s lists, in the last refresh
  edition,   \* the catalog of the community source: the first, 0 for none, or another
  job,       \* job[j]: what a job is and what it read
  phase,     \* "down", "reconciled" once startup staged what is missing, or "up"
  loaded,    \* the build whose class this process registered, or 0
  bounds,    \* what the bounds count
  \* The rest is history, which no action reads.
  origin,    \* the edition the row's code came from, or 0
  overtaken, \* a job acted on what it had read, and that was no longer so, or a source
             \* replaced one of its name
  gone       \* how far an uninstall came that nothing overlapped, and nobody undid

hubVars == <<row, enabled, origin>>
diskVars == <<bundles, envs>>
catalogVars == <<listed, edition>>
processVars == <<phase, loaded>>
vars == <<hubVars, diskVars, catalogVars, job, processVars, bounds, overtaken, gone>>

Rows == [state : {"none", "staged", "active", "removed", "failed"}, active : Builds \cup {0},
         staged : Builds \cup {0}, pending : BOOLEAN, source : Sources \cup {Local, None},
         config : Nat]
NoRow == [state |-> "none", active |-> 0, staged |-> 0, pending |-> FALSE, source |-> None,
          config |-> 0]
Installed(r) == r.state # "none"
RowOK(r) ==
  /\ r \in Rows
  /\ r.pending => r.state = "removed" \/ (r.state = "staged" /\ r.staged # 0)
  /\ IF r.active = 0 THEN r.state \notin {"active", "removed"} ELSE r.state \notin {"none", "failed"}

JobStates == [kind : {"install", "update", "uninstall"},
              at : {"idle", "resolved", "download", "build", "check", "record", "enable",
                    "missing", "disable", "remove", "done"},
              build : Builds \cup {0}, source : Sources \cup {Local, None}, edition : Nat,
              saw : Rows, was : BOOLEAN]
Staging == {"resolved", "download", "build", "check", "record"}
JobOK(x) == RowOK(x.saw) /\ (x.at \in Staging => x.build # 0)
NoJob == [kind |-> "install", at |-> "idle", build |-> 0, source |-> None, edition |-> 0,
          saw |-> NoRow, was |-> FALSE]
EndedJob == [NoJob EXCEPT !.at = "done"]
Running == {j \in Jobs : job[j].at \notin {"idle", "done"}}

TypeOK ==
  /\ RowOK(row) /\ enabled \in BOOLEAN /\ origin \in Nat
  /\ bundles \subseteq Builds /\ envs \subseteq Builds
  /\ listed \in [Sources -> SUBSET Builds] /\ edition \in 0..2
  /\ job \in [Jobs -> JobStates] /\ \A j \in Jobs : JobOK(job[j])
  /\ phase \in {"down", "reconciled", "up"} /\ loaded \in Builds \cup {0}
  /\ bounds \in [edits : Nat, refreshes : Nat, restarts : Nat, faults : Nat]
  /\ overtaken \in BOOLEAN /\ gone \in {"no", "disabled", "yes"}

Init ==
  /\ row = NoRow /\ enabled = FALSE /\ origin = 0
  /\ bundles = {} /\ envs = {}
  /\ listed = [s \in Sources |-> {}] /\ edition = 1
  /\ job = [j \in Jobs |-> NoJob]
  /\ phase = "up" /\ loaded = 0
  /\ bounds = [edits |-> 0, refreshes |-> 0, restarts |-> 0, faults |-> 0]
  /\ overtaken = FALSE /\ gone = "no"

Count(what, most) == bounds[what] < most /\ bounds' = [bounds EXCEPT ![what] = @ + 1]
Fault == Count("faults", MaxFaults)
JobAt(j, where) == job' = [job EXCEPT ![j].at = where]
Ends(j) == job' = [job EXCEPT ![j] = EndedJob]

-----------------------------------------------------------------------------
(* Catalogs.                                                                  *)

Newest(builds) == {b \in builds : \A c \in builds : c <= b}
Present(s) == s = Official \/ edition # 0
EditionOf(s) == IF s = Community THEN edition ELSE 0

(* refresh_catalog: one write of the state, whatever it fetched.             *)
Refresh(s) ==
  /\ phase = "up" \/ s = Official
  /\ Present(s) /\ Count("refreshes", MaxRefreshes)
  /\ \E builds \in SUBSET Builds : listed' = [listed EXCEPT ![s] = builds]
  /\ UNCHANGED <<hubVars, diskVars, edition, job, processVars, overtaken, gone>>

(* Mutant: the installs of a removed source keep its name.                   *)
KeepsName(r) == r
Unbound(r) == IF r.source = Community THEN [r EXCEPT !.source = None] ELSE r

(* remove_catalog_source: its entries go and its installs stay, bound to none. *)
RemoveSource ==
  /\ phase = "up" /\ edition = 1
  /\ edition' = 0 /\ listed' = [listed EXCEPT ![Community] = {}]
  /\ row' = Unbound(row)
  /\ UNCHANGED <<enabled, origin, diskVars, job, processVars, bounds, overtaken, gone>>

(* add_catalog_source, under the name of a source that was removed, or that it *)
(* replaces: the entries and the installs of that one stay.                   *)
AddSource ==
  /\ phase = "up" /\ edition # 2
  /\ edition' = 2 /\ overtaken' = (overtaken \/ edition = 1)
  /\ UNCHANGED <<hubVars, diskVars, listed, job, processVars, bounds, gone>>

(* Only the official source installs and updates what it publishes, and what  *)
(* was built in.                                                              *)
Refused(s) == s # Official /\ (BuiltIn \/ listed[Official] # {})
(* _catalog_binding: the source still holds the entry, or the install is      *)
(* bound to none.                                                            *)
Binding(s, b) == IF Present(s) /\ b \in listed[s] THEN s ELSE None

-----------------------------------------------------------------------------
(* Jobs.                                                                      *)

(* The queue follows a job that is the same instead of adding another.       *)
Same(old, new) ==
  /\ old.kind = new.kind
  /\ new.kind = "install" => old.build = new.build /\ old.source \in {new.source, None}
Begin(j, new) ==
  /\ phase = "up" /\ job[j].at = "idle"
  /\ new.source # Local => ~\E k \in Running : Same(job[k], new)
  /\ job' = [job EXCEPT ![j] = new]
  /\ gone' = IF new.kind = "uninstall" THEN gone ELSE "no"
  /\ UNCHANGED <<hubVars, diskVars, catalogVars, processVars, bounds, overtaken>>

(* install_catalog_entry finds the entry; a local package is read at once.    *)
InstallBegins(j) ==
  \/ \E s \in Sources : \E b \in listed[s] :
       /\ ~Refused(s)
       /\ Begin(j, [NoJob EXCEPT !.at = "resolved", !.build = b, !.source = s, !.edition = EditionOf(s)])
  \/ \E b \in Builds : ~BuiltIn /\
       Begin(j, [NoJob EXCEPT !.at = "download", !.build = b, !.source = Local, !.saw = row])

(* _latest_catalog_manifest looks in the source of the row only.              *)
Newer ==
  IF row.source \notin Sources \/ Refused(row.source) THEN {}
  ELSE {b \in listed[row.source] : b > (IF row.active # 0 THEN row.active ELSE row.staged)}

(* apply_update: a local package is left alone; with nothing newer the row it  *)
(* read is written back with the error.                                      *)
UpdateBegins(j) ==
  /\ Installed(row) /\ row.source # Local
  /\ IF Newer = {}
     THEN Begin(j, [NoJob EXCEPT !.kind = "update", !.at = "missing", !.saw = row])
     ELSE \E b \in Newest(Newer) :
            Begin(j, [NoJob EXCEPT !.kind = "update", !.at = "resolved", !.build = b,
                                   !.source = row.source, !.edition = EditionOf(row.source)])

RecordMissing(j) ==
  /\ job[j].at = "missing"
  /\ row' = job[j].saw /\ overtaken' = (overtaken \/ row # job[j].saw)
  /\ Ends(j)
  /\ UNCHANGED <<enabled, origin, diskVars, catalogVars, processVars, bounds, gone>>

(* stage_install binds the entry, may refuse it, and reads the row.           *)
Bind(j) ==
  LET s == Binding(job[j].source, job[j].build)
  IN /\ job[j].at = "resolved"
     /\ IF Refused(s) THEN Ends(j)
        ELSE job' = [job EXCEPT ![j].at = "download", ![j].source = s, ![j].saw = row,
                                ![j].edition = EditionOf(s)]
     /\ UNCHANGED <<hubVars, diskVars, catalogVars, processVars, bounds, overtaken, gone>>

(* A bundle or environment that is there is verified and used again.          *)
Download(j) ==
  /\ job[j].at = "download"
  /\ bundles' = bundles \cup {job[j].build} /\ JobAt(j, "build")
  /\ UNCHANGED <<hubVars, envs, catalogVars, processVars, bounds, overtaken, gone>>

(* An interrupted build leaves part of an environment, which envs does not    *)
(* hold: the next one runs pip over it, and then pip check.                   *)
Build(j) ==
  /\ job[j].at = "build"
  /\ envs' = envs \cup {job[j].build} /\ JobAt(j, "check")
  /\ UNCHANGED <<hubVars, bundles, catalogVars, processVars, bounds, overtaken, gone>>

OnDisk(b) == b \in bundles \cap envs
(* _smoke_validate_worker starts the build.                                   *)
Check(j) ==
  /\ job[j].at = "check" /\ OnDisk(job[j].build)
  /\ JobAt(j, "record")
  /\ UNCHANGED <<hubVars, diskVars, catalogVars, processVars, bounds, overtaken, gone>>

(* Mutant: the row is written from what the job read when it began.           *)
AsRead(j) == job[j].saw
(* The row at the moment it is written, or what was read if it is gone.       *)
Current(j) == IF Installed(row) THEN row ELSE job[j].saw

StagedRow(old, b, s) ==
  [old EXCEPT !.state = "staged", !.staged = b, !.pending = TRUE, !.source = s]
(* _failed_installation: an active build stays, whatever was staged goes.      *)
FailedRow(old, s) ==
  IF old.active # 0 THEN [old EXCEPT !.staged = 0, !.pending = FALSE]
                    ELSE [NoRow EXCEPT !.state = "failed", !.source = s, !.config = old.config]

(* The source went while the job was under way.                               *)
SourceLost(j) == job[j].source = Community /\ edition # job[j].edition

StageFails(j) ==
  /\ job[j].at \in {"download", "build", "check"}
  /\ \/ Fault
     \/ job[j].at = "check" /\ ~OnDisk(job[j].build) /\ UNCHANGED bounds
  /\ row' = FailedRow(Current(j), job[j].source)
  /\ origin' = IF row'.state = "failed" THEN job[j].edition ELSE origin
  /\ overtaken' = (overtaken \/ (row'.state = "failed" /\ SourceLost(j)))
  /\ Ends(j)
  /\ UNCHANGED <<enabled, diskVars, catalogVars, processVars, gone>>

(* Mutant: what runs is not taken for in use.                                 *)
InUseIfStaged(j) == {job[j].saw.staged}
(* Mutant: what is staged is not taken for in use.                            *)
InUseIfActive(j) == {job[j].saw.active}
(* The builds of the row the job read at its start.                           *)
InUse(j) == {job[j].saw.active, job[j].saw.staged}
Discarded(j, done) == IF job[j].at \in done THEN {job[j].build} \ InUse(j) ELSE {}

(* Another job stages the build, or did so since this one read the row.       *)
Shared(j) ==
  \/ \E k \in Running \ {j} : job[k].build = job[j].build
  \/ row.staged = job[j].build /\ job[j].saw.staged # job[j].build

(* Stop is honoured before a step; what the job staged is removed, unless it   *)
(* is in use, and nothing is recorded.                                        *)
Stop(j) ==
  /\ job[j].at \in {"download", "build", "check", "record"}
  /\ bundles' = bundles \ Discarded(j, {"build", "check", "record"})
  /\ envs' = envs \ Discarded(j, {"check", "record"})
  /\ overtaken' = (overtaken \/ Shared(j))
  /\ Ends(j)
  /\ UNCHANGED <<hubVars, catalogVars, processVars, bounds, gone>>

(* A first install is then added to the providers that are searched.          *)
Record(j) ==
  /\ job[j].at = "record"
  /\ row' = StagedRow(Current(j), job[j].build, job[j].source) /\ origin' = job[j].edition
  /\ overtaken' = (overtaken \/ SourceLost(j))
  /\ IF job[j].saw.active = 0 THEN JobAt(j, "enable") ELSE Ends(j)
  /\ UNCHANGED <<enabled, diskVars, catalogVars, processVars, bounds, gone>>

(* The configuration file may refuse the change, and then the job fails.      *)
Enable(j) ==
  /\ job[j].at = "enable"
  /\ \/ enabled' = TRUE /\ UNCHANGED bounds
     \/ enabled' = enabled /\ Fault
  /\ Ends(j)
  /\ UNCHANGED <<row, origin, diskVars, catalogVars, processVars, overtaken, gone>>

UninstallBegins(j) ==
  /\ Installed(row)
  /\ Begin(j, [NoJob EXCEPT !.kind = "uninstall", !.at = "disable"])

(* Mutant: the list of providers is left alone.                               *)
LeftEnabled == enabled
Disabled == FALSE

(* The provider is disabled first, then the removal is staged.                *)
Disable(j) ==
  /\ job[j].at = "disable"
  /\ \/ /\ enabled' = Disabled /\ job' = [job EXCEPT ![j].at = "remove", ![j].was = enabled]
        /\ gone' = IF Running = {j} THEN "disabled" ELSE "no"
        /\ UNCHANGED bounds
     \/ enabled' = enabled /\ Ends(j) /\ Fault /\ UNCHANGED gone
  /\ UNCHANGED <<row, origin, diskVars, catalogVars, processVars, overtaken>>

(* An install that never ran is removed at once.                              *)
RemovedRow ==
  IF row.active = 0 THEN NoRow
  ELSE [row EXCEPT !.state = "removed", !.pending = TRUE, !.staged = 0]

Remove(j) ==
  /\ job[j].at = "remove"
  /\ row' = IF Installed(row) THEN RemovedRow ELSE row
  /\ origin' = IF row.active = 0 /\ Installed(row) THEN 0 ELSE origin
  /\ gone' = IF gone = "disabled" THEN "yes" ELSE "no"
  /\ Ends(j)
  /\ UNCHANGED <<enabled, diskVars, catalogVars, processVars, bounds, overtaken>>

(* The state could not be saved: a provider that was enabled is so again.     *)
RemoveFails(j) ==
  /\ job[j].at = "remove" /\ Fault
  /\ enabled' = (enabled \/ job[j].was)
  /\ Ends(j) /\ gone' = "no"
  /\ UNCHANGED <<row, origin, diskVars, catalogVars, processVars, overtaken>>

-----------------------------------------------------------------------------
(* Requests that edit the row: update_provider.  A built-in provider is        *)
(* enabled and disabled with no row, too.                                     *)

EditConfig ==
  /\ phase = "up" /\ Installed(row) /\ Count("edits", MaxEdits)
  /\ row' = [row EXCEPT !.config = bounds.edits + 1]
  /\ UNCHANGED <<enabled, origin, diskVars, catalogVars, job, processVars, overtaken, gone>>

SetEnabled(to) ==
  /\ phase = "up" /\ (Installed(row) \/ BuiltIn) /\ enabled # to /\ enabled' = to
  /\ gone' = IF to THEN "no" ELSE gone
  /\ UNCHANGED <<row, origin, diskVars, catalogVars, job, processVars, bounds, overtaken>>

-----------------------------------------------------------------------------
(* A restart, or a crash: jobs do not survive it, files and settings do.      *)

Restart ==
  /\ Count("restarts", MaxRestarts)
  /\ phase' = "down" /\ loaded' = 0
  /\ job' = [j \in Jobs |-> IF j \in Running THEN EndedJob ELSE job[j]]
  /\ gone' = IF gone = "disabled" THEN "no" ELSE gone
  /\ UNCHANGED <<hubVars, diskVars, catalogVars, overtaken>>

(* autoinstall_enabled_builtins, which is opt-in: an enabled provider that is  *)
(* not installed is staged from the official catalog, or fails to be.         *)
MissingAtStart == enabled /\ row.state \in {"none", "failed"} /\ listed[Official] # {}
Reconcile ==
  /\ phase = "down" /\ phase' = "reconciled"
  /\ \/ UNCHANGED <<hubVars, diskVars, bounds>>
     \/ /\ MissingAtStart
        /\ \E b \in Newest(listed[Official]) :
             /\ row' = StagedRow(row, b, Official)
             /\ bundles' = bundles \cup {b} /\ envs' = envs \cup {b}
        /\ origin' = 0 /\ UNCHANGED <<enabled, bounds>>
     \/ /\ MissingAtStart /\ Fault
        /\ row' = FailedRow(row, Official) /\ origin' = 0
        /\ UNCHANGED <<enabled, diskVars>>
  /\ UNCHANGED <<loaded, catalogVars, job, overtaken, gone>>

Promoted(r) == [r EXCEPT !.state = "active", !.active = r.staged, !.staged = 0, !.pending = FALSE]
NotPromoted(r) ==
  [r EXCEPT !.state = IF r.active # 0 THEN "active" ELSE "failed", !.staged = 0, !.pending = FALSE]

(* activate_staged_installations, and register_active_provider_classes; then  *)
(* a provider that has no class is taken off the list of the enabled ones.     *)
Activate ==
  /\ phase = "reconciled" /\ phase' = "up"
  /\ \/ row.pending /\ row.state = "removed" /\ row' = NoRow /\ origin' = 0 /\ UNCHANGED bounds
     \/ /\ row.pending /\ row.state = "staged" /\ OnDisk(row.staged)
        /\ row' = Promoted(row) /\ UNCHANGED <<origin, bounds>>
     \/ /\ row.pending /\ row.state = "staged" /\ row' = NotPromoted(row) /\ UNCHANGED origin
        /\ IF OnDisk(row.staged) THEN Fault ELSE UNCHANGED bounds
     \/ ~row.pending /\ UNCHANGED <<row, origin, bounds>>
  /\ loaded' = IF row'.state = "active" /\ ~row'.pending THEN row'.active ELSE 0
  /\ enabled' = (enabled /\ (BuiltIn \/ loaded' # 0))
  /\ UNCHANGED <<diskVars, catalogVars, job, overtaken, gone>>

-----------------------------------------------------------------------------
InstallStep(j) ==
  \/ RecordMissing(j) \/ Bind(j) \/ Download(j) \/ Build(j) \/ Check(j)
  \/ StageFails(j) \/ Stop(j) \/ Record(j) \/ Enable(j)
JobStep(j) ==
  \/ InstallBegins(j) \/ UpdateBegins(j) \/ UninstallBegins(j)
  \/ InstallStep(j)
  \/ Disable(j) \/ Remove(j) \/ RemoveFails(j)
UserStep ==
  \/ EditConfig \/ RemoveSource \/ AddSource
  \/ \E to \in BOOLEAN : SetEnabled(to)

Next ==
  \/ \E j \in Jobs : JobStep(j)
  \/ \E s \in Sources : Refresh(s)
  \/ UserStep
  \/ Restart \/ Reconcile \/ Activate

Spec == Init /\ [][Next]_vars

-----------------------------------------------------------------------------
(* Properties.                                                                *)

(* "Bazarr+ keeps the current active provider running until restart"           *)
(* (release notes v2.3.0): whatever installs, updates, removals and stops go    *)
(* on, and whatever they read before, the build that runs stays the active     *)
(* one of its row, with its files.                                            *)
LoadedKept == loaded # 0 => row.active = loaded /\ OnDisk(loaded)

(* A build that waits for the restart is whole on disk, though jobs were     *)
(* stopped, failed or undid it meanwhile; unless one that staged the same build *)
(* at the same time was stopped, and took its files for its own.               *)
StagedWhole ==
  row.state = "staged" /\ row.pending /\ ~overtaken => OnDisk(row.staged)

(* An uninstall that no other job overlapped stays done, across restarts and    *)
(* startup's reconciliation of enabled providers, until the user undoes it.    *)
UninstallSticks ==
  gone = "yes" => ~Installed(row) \/ (row.state = "removed" /\ row.pending)

(* A source added under the name of a removed one "is a different catalog and  *)
(* must not inherit" its installs (service.py:588): the source of a row is the  *)
(* catalog its code came from, unless that went while a job was under way, or   *)
(* was replaced without being removed.                                        *)
SourceIsOrigin ==
  row.source = Community /\ ~overtaken => edition # 0 /\ origin = edition
(* The same without the exception, which the code does not keep.               *)
SourceNotInherited == row.source = Community => origin = edition

(* An edit of the configuration is not lost to a job that read the row before  *)
(* it; only an update that finds nothing writes the row back as it was read.   *)
EditsKept ==
  [][Installed(row) /\ Installed(row') /\ row'.config < row.config =>
       \E j \in Jobs : job[j].at = "missing" /\ job'[j].at = "done"]_vars

(* "Bazarr+ keeps the current active provider running until restart, then       *)
(* promotes or removes the staged plugin" (release notes v2.3.0): after the     *)
(* restart too, a provider with an active build that was not removed is loaded. *)
(* Of a failed stage, "test_stage_install_failure_preserves_active_install"     *)
(* (test_provider_hub.py) says that it leaves the active install active.        *)
ActiveIsLoaded == phase = "up" /\ row.active # 0 /\ row.state # "removed" => loaded = row.active
=============================================================================
