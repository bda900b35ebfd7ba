------------------------- MODULE SubtitlePublication -------------------------
(***************************************************************************)
(* Who may replace a subtitle file (subtitles/tools/subsync_engines.py):   *)
(* one subtitle beside its video and the outputs that the sync engines     *)
(* keep beside it.  Long work (a translation, a post-processing command, a *)
(* sync engine) runs outside the coordinator, the reentrant lock of        *)
(* subtitle_write_lock, and publishes under it, only while the revision    *)
(* and the stat of the files it started from are the ones it saw.          *)
(* Everybody outside Bazarr writes the same files without the coordinator. *)
(***************************************************************************)
EXTENDS Naturals, FiniteSets

CONSTANTS
  Source,    \* the path of the subtitle
  Engines,   \* SYNC_ENGINES, each naming the path of its output
  Writers,   \* calls of staged_subtitle_write with the subtitle as destination
  Syncs,     \* sync jobs of the subtitle
  NoEngine, Free,
  MaxWrites, \* bound on the contents written: a content is its number
  MaxOutside \* bound on the changes made outside and the deletions that find no file

ASSUME PublicationAssumption ==
  /\ Source \notin Engines /\ NoEngine \notin Engines
  /\ Writers \cap Syncs = {} /\ Free \notin Writers \cup Syncs
  /\ MaxWrites \in Nat /\ MaxOutside \in Nat

Paths == {Source} \cup Engines
Actors == Writers \cup Syncs
Contents == 0..MaxWrites  \* 0: there is no such file
Modes == {"overwrite", "keep_all"}

VARIABLES
  file,      \* file[p]: the content at p, and so what subtitle_source_version says
  written,   \* the contents written so far
  outside,   \* the changes made outside, and the deletions that found no file, so far
  revision,  \* _SubtitleWriteState.revisions
  lock,      \* who is between the checks of a publication and its end
  stage,     \* stage[a]: where the work of a is
  seen,      \* seen[a][p]: the revision and the version a recorded of p
  sync,      \* sync[y]: a job's mode, whether its snapshot was made by an upload,
             \* the engines it is through with, the one at work and what that one read
  derived,   \* history: derived[e], the subtitle the output e was computed from; 0: not computed
  excused,   \* history: the outputs that are known to be left behind
  touched,   \* history: touched[a], the paths changed under the coordinator since a's record
  slipped    \* history: somebody outside changed a file inside the present publication

coordinatorVars == <<file, written, revision, outside>>
historyVars == <<derived, excused, touched, slipped>>
vars == <<coordinatorVars, lock, stage, seen, sync, historyVars>>

Present == {e \in Engines : file[e] # 0}
NoRecord == [p \in Paths |-> [revision |-> 0, version |-> 0]]
Record(revisions, files, mode) ==
  [p \in Paths |-> IF p = Source \/ mode = "keep_all"
                   THEN [revision |-> revisions[p], version |-> files[p]]
                   ELSE NoRecord[p]]
NoSync == [mode |-> "overwrite", queued |-> FALSE, tried |-> {}, engine |-> NoEngine, read |-> 0]

Stages == {"idle", "next", "working", "finished", "publishing"}
RecordType == [revision : Nat, version : Contents]
SyncType == [mode : Modes, queued : BOOLEAN, tried : SUBSET Engines,
             engine : Engines \cup {NoEngine}, read : Contents]

(* Contents are numbered as they are written, and a content is at one path.     *)
FilesOK(files, last) ==
  /\ files \in [Paths -> Contents] /\ last \in Contents
  /\ \A p \in Paths : files[p] <= last
  /\ \A p, q \in Paths : p # q /\ files[p] # 0 => files[p] # files[q]

(* The type invariant; only the holder of the lock is between the checks and the *)
(* end of a publication.                                                        *)
TypeOK ==
  /\ FilesOK(file, written)
  /\ revision \in [Paths -> Nat] /\ outside \in 0..MaxOutside
  /\ lock \in Actors \cup {Free}
  /\ stage \in [Actors -> Stages]
  /\ \A a \in Actors : stage[a] = "publishing" <=> lock = a
  /\ seen \in [Actors -> [Paths -> RecordType]]
  /\ sync \in [Syncs -> SyncType]
  /\ \A y \in Syncs : stage[y] \in {"working", "finished", "publishing"} => sync[y].engine \in Engines
  /\ derived \in [Engines -> Contents] /\ excused \subseteq Engines
  /\ touched \in [Actors -> SUBSET Paths] /\ slipped \in BOOLEAN

Init ==
  /\ file = [p \in Paths |-> 0] /\ written = 0
  /\ revision = [p \in Paths |-> 0] /\ outside = 0
  /\ lock = Free
  /\ stage = [a \in Actors |-> "idle"]
  /\ seen = [a \in Actors |-> NoRecord]
  /\ sync = [y \in Syncs |-> NoSync]
  /\ derived = [e \in Engines |-> 0] /\ excused = {}
  /\ touched = [a \in Actors |-> {}] /\ slipped = FALSE

-----------------------------------------------------------------------------
(* Changes of the files under the coordinator.                               *)

Fresh == written + 1
CanWrite == written < MaxWrites

(* _SubtitleWriteState.changed of every path in changed.                      *)
Settle(changed) ==
  /\ revision' = [p \in Paths |-> IF p \in changed THEN revision[p] + 1 ELSE revision[p]]
  /\ touched' = [a \in Actors |-> IF stage[a] = "idle" THEN {} ELSE touched[a] \cup changed]

(* The subtitle gets a content, and quarantine_sync_outputs moves its outputs *)
(* away; it stops at the first that cannot be moved, which is only logged.    *)
ChangeSource(content) ==
  \E gone \in SUBSET Present :
    /\ file' = [p \in Paths |-> IF p = Source THEN content
                                ELSE IF p \in gone THEN 0 ELSE file[p]]
    /\ Settle({Source} \cup gone)
    /\ excused' = Present \ gone
    /\ derived' = [e \in Engines |-> IF e \in gone THEN 0 ELSE derived[e]]

(* A sync job passed its snapshot: an upload's job replaces the subtitle      *)
(* without moving the outputs away.                                           *)
ReplaceSourceOnly(content) ==
  /\ file' = [file EXCEPT ![Source] = content]
  /\ Settle({Source})
  /\ excused' = Present /\ UNCHANGED derived

ChangeOutput(e, content, from) ==
  /\ file' = [file EXCEPT ![e] = content]
  /\ Settle({e})
  /\ excused' = IF lock # Free /\ slipped THEN excused \cup {e} ELSE excused \ {e}
  /\ derived' = [derived EXCEPT ![e] = from]

(* The editor, a modification, a download or an upgrade: subtitle_mutation.   *)
Edit(p) ==
  /\ lock = Free /\ CanWrite
  /\ written' = Fresh
  /\ IF p = Source THEN ChangeSource(Fresh) ELSE ChangeOutput(p, Fresh, 0)
  /\ UNCHANGED <<outside, lock, stage, seen, sync, slipped>>

(* Mutant: the outputs of a deleted subtitle stay.                            *)
DeleteOnly(p) ==
  /\ lock = Free /\ file[p] # 0
  /\ file' = [file EXCEPT ![p] = 0] /\ Settle({p})
  /\ UNCHANGED <<written, outside, lock, stage, seen, sync, derived, excused, slipped>>

(* _delete_subtitle_file                                                      *)
Delete(p) ==
  /\ lock = Free /\ file[p] # 0
  /\ IF p = Source THEN ChangeSource(0) ELSE ChangeOutput(p, 0, 0)
  /\ UNCHANGED <<written, outside, lock, stage, seen, sync, slipped>>

(* Its file is gone already: the revision changes, the outputs stay.          *)
DeleteMissing(p) ==
  /\ lock = Free /\ file[p] = 0
  /\ outside < MaxOutside /\ outside' = outside + 1
  /\ Settle({p})
  /\ UNCHANGED <<file, written, lock, stage, seen, sync, derived, excused, slipped>>

(* Somebody outside changes or deletes a file; the revision does not tell.    *)
Outside(p) ==
  /\ outside < MaxOutside /\ outside' = outside + 1
  /\ \/ CanWrite /\ written' = Fresh /\ file' = [file EXCEPT ![p] = Fresh]
     \/ file[p] # 0 /\ file' = [file EXCEPT ![p] = 0] /\ UNCHANGED written
  /\ IF p = Source
     THEN excused' = Present /\ UNCHANGED derived
     ELSE excused' = excused \ {p} /\ derived' = [derived EXCEPT ![p] = 0]
  /\ slipped' = (lock # Free)
  /\ UNCHANGED <<revision, lock, stage, seen, sync, touched>>

-----------------------------------------------------------------------------
(* A publication holds the lock from its checks to its end.                   *)

Open(a) ==
  /\ lock' = a /\ stage' = [stage EXCEPT ![a] = "publishing"]
  /\ UNCHANGED <<coordinatorVars, seen, sync, historyVars>>

(* Mutant: the stat alone.                                                    *)
SameStat(a, p) == seen[a][p].version = file[p]

(* What a recorded of p is what p is: the revision and the stat.              *)
Same(a, p) == seen[a][p] = [revision |-> revision[p], version |-> file[p]]

Release(a) ==
  IF lock = a THEN lock' = Free /\ slipped' = FALSE ELSE UNCHANGED <<lock, slipped>>
Done(a) == stage' = [stage EXCEPT ![a] = "idle"] /\ seen' = [seen EXCEPT ![a] = NoRecord]

(* staged_subtitle_write records its destination ...                          *)
StagedBegins(w) ==
  /\ stage[w] = "idle" /\ lock = Free
  /\ seen' = [seen EXCEPT ![w] = Record(revision, file, "overwrite")] /\ touched' = [touched EXCEPT ![w] = {}]
  /\ stage' = [stage EXCEPT ![w] = "finished"]
  /\ UNCHANGED <<coordinatorVars, lock, sync, derived, excused, slipped>>


(* ... and publishes over what it recorded, once the body has written the     *)
(* staging file ...                                                           *)
StagedChecks(w) ==
  /\ w \in Writers /\ stage[w] = "finished" /\ lock = Free
  /\ Same(w, Source)
  /\ Open(w)

(* ... or gives up: SubtitleDestinationChanged, a body or a replace that      *)
(* failed.                                                                     *)
StagedGivesUp(w) ==
  /\ w \in Writers /\ stage[w] \in {"finished", "publishing"}
  /\ Done(w) /\ Release(w)
  /\ UNCHANGED <<coordinatorVars, sync, derived, excused, touched>>

StagedReplaces(w) ==
  /\ w \in Writers /\ stage[w] = "publishing" /\ CanWrite
  /\ written' = Fresh /\ ChangeSource(Fresh)
  /\ Release(w) /\ Done(w)
  /\ UNCHANGED <<outside, sync>>

-----------------------------------------------------------------------------
(* A sync job: SubtitlePublication and SubsyncEngineRunner.run.               *)

(* An upload writes the subtitle and queues a job with a snapshot of it, all  *)
(* in one hold of the coordinator.  The snapshot is made after the write.     *)
Upload(y, mode) ==
  /\ stage[y] = "idle" /\ lock = Free /\ CanWrite
  /\ written' = Fresh
  /\ \E gone \in SUBSET Present :
       /\ file' = [p \in Paths |-> IF p = Source THEN Fresh
                                   ELSE IF p \in gone THEN 0 ELSE file[p]]
       /\ revision' = [p \in Paths |-> IF p \in {Source} \cup gone THEN revision[p] + 1
                                       ELSE revision[p]]
       /\ touched' = [a \in Actors |-> IF stage[a] = "idle" THEN {}
                                         ELSE touched[a] \cup {Source} \cup gone]
       /\ excused' = Present \ gone
       /\ derived' = [e \in Engines |-> IF e \in gone THEN 0 ELSE derived[e]]
  /\ seen' = [seen EXCEPT ![y] = Record(revision', file', mode)]
  /\ sync' = [sync EXCEPT ![y] = [NoSync EXCEPT !.mode = mode, !.queued = TRUE]]
  /\ stage' = [stage EXCEPT ![y] = "next"]
  /\ UNCHANGED <<outside, lock, slipped>>

(* A job without one makes its own when it runs.                              *)
SyncBegins(y, mode) ==
  /\ stage[y] = "idle" /\ lock = Free
  /\ seen' = [seen EXCEPT ![y] = Record(revision, file, mode)] /\ touched' = [touched EXCEPT ![y] = {}]
  /\ sync' = [sync EXCEPT ![y] = [NoSync EXCEPT !.mode = mode]]
  /\ stage' = [stage EXCEPT ![y] = "next"]
  /\ UNCHANGED <<coordinatorVars, lock, derived, excused, slipped>>

(* Mutant: the subtitle is looked at before the engine runs, and not again.   *)
SourceUnchangedThen(y) ==
  stage[y] = "next" => seen[y][Source].version # 0 /\ Same(y, Source)

SourceUnchanged(y) == seen[y][Source].version # 0 /\ Same(y, Source)
DestinationUnchanged(y, e) == sync[y].mode = "keep_all" => Same(y, e)

(* The next engine starts, when the subtitle and its output are as recorded.  *)
EngineStarts(y) ==
  /\ stage[y] = "next" /\ SourceUnchanged(y)
  /\ \E e \in Engines \ sync[y].tried :
       /\ DestinationUnchanged(y, e)
       /\ sync' = [sync EXCEPT ![y].engine = e]
  /\ stage' = [stage EXCEPT ![y] = "working"]
  /\ UNCHANGED <<coordinatorVars, lock, seen, historyVars>>

(* An engine that is switched off, failed too often, has a current output, or *)
(* whose output changed, is passed over.                                      *)
EngineSkipped(y) ==
  /\ stage[y] = "next" /\ SourceUnchanged(y)
  /\ \E e \in Engines \ sync[y].tried : sync' = [sync EXCEPT ![y].tried = @ \cup {e}]
  /\ UNCHANGED <<coordinatorVars, lock, stage, seen, historyVars>>

(* The engine reads the subtitle whenever it comes to it.                     *)
EngineReads(y) ==
  /\ y \in Syncs /\ stage[y] = "working"
  /\ sync' = [sync EXCEPT ![y].read = file[Source]]
  /\ stage' = [stage EXCEPT ![y] = "finished"]
  /\ UNCHANGED <<coordinatorVars, lock, seen, historyVars>>

NextEngine(y) == [sync EXCEPT ![y].tried = @ \cup {sync[y].engine}, ![y].engine = NoEngine, ![y].read = 0]

(* The engine or the replace failed, or SubtitleDestinationChanged.           *)
EngineFails(y) ==
  /\ y \in Syncs /\ stage[y] \in {"finished", "publishing"}
  /\ sync' = NextEngine(y) /\ stage' = [stage EXCEPT ![y] = "next"]
  /\ Release(y)
  /\ UNCHANGED <<coordinatorVars, seen, derived, excused, touched>>

(* The checks of the publication.                                             *)
SyncChecks(y) ==
  /\ y \in Syncs /\ stage[y] = "finished" /\ sync[y].read # 0 /\ lock = Free
  /\ SourceUnchanged(y) /\ DestinationUnchanged(y, sync[y].engine)
  /\ Open(y)

(* Overwriting, the job ends with its first result.                           *)
SyncOverwrites(y) ==
  /\ y \in Syncs /\ stage[y] = "publishing" /\ sync[y].mode = "overwrite" /\ CanWrite
  /\ written' = Fresh
  /\ IF sync[y].queued THEN ReplaceSourceOnly(Fresh) ELSE ChangeSource(Fresh)
  /\ Release(y) /\ Done(y)
  /\ sync' = [sync EXCEPT ![y] = NoSync]
  /\ UNCHANGED outside

(* Keeping all, it goes on with the next engine.                              *)
SyncKeeps(y) ==
  /\ y \in Syncs /\ stage[y] = "publishing" /\ sync[y].mode = "keep_all" /\ CanWrite
  /\ written' = Fresh /\ ChangeOutput(sync[y].engine, Fresh, sync[y].read)
  /\ Release(y) /\ stage' = [stage EXCEPT ![y] = "next"]
  /\ sync' = NextEngine(y)
  /\ UNCHANGED <<outside, seen>>

(* The engines are through, the subtitle changed, or the job was cancelled.   *)
SyncEnds(y) ==
  /\ y \in Syncs /\ stage[y] \in {"next", "finished"}
  /\ sync' = [sync EXCEPT ![y] = NoSync] /\ Done(y)
  /\ UNCHANGED <<coordinatorVars, lock, historyVars>>

-----------------------------------------------------------------------------
StagedStep(w) == StagedBegins(w) \/ StagedChecks(w) \/ StagedGivesUp(w) \/ StagedReplaces(w)
SyncStep(y) ==
  \/ \E mode \in Modes : Upload(y, mode) \/ SyncBegins(y, mode)
  \/ EngineStarts(y) \/ EngineSkipped(y) \/ EngineReads(y) \/ EngineFails(y)
  \/ SyncChecks(y) \/ SyncOverwrites(y) \/ SyncKeeps(y) \/ SyncEnds(y)

Next ==
  \/ \E p \in Paths : Edit(p) \/ Delete(p) \/ DeleteMissing(p) \/ Outside(p)
  \/ \E w \in Writers : StagedStep(w)
  \/ \E y \in Syncs : SyncStep(y)

Spec == Init /\ [][Next]_vars

-----------------------------------------------------------------------------
(* Properties.                                                                *)

(* The paths a publication stands on: the one it replaces, and its source.    *)
StandsOn(a) ==
  {Source} \cup IF a \in Syncs /\ sync[a].mode = "keep_all" THEN {sync[a].engine} ELSE {}

(* No write and no deletion is undone: what a publication replaces, or was    *)
(* computed from, was not changed under the coordinator since it was recorded *)
(* (staged_subtitle_write, SubsyncEngineRunner.run).                          *)
NoWriteUndone ==
  \A a \in Actors : stage[a] = "publishing" => touched[a] \cap StandsOn(a) = {}

(* Nor is a change from outside, unless it slips in between the checks of a   *)
(* publication and its replace, where nothing can see it.                     *)
NoOutsideChangeUndone ==
  \A a \in Actors : stage[a] = "publishing" /\ ~slipped =>
    \A p \in StandsOn(a) : file[p] = seen[a][p].version

(* A generated output beside the subtitle was computed from the subtitle that *)
(* is there now, or somebody outside changed that, or its removal failed, or an*)
(* upload's own sync overwrote the subtitle (quarantine_sync_outputs).        *)
OutputsFollowSource ==
  \A e \in Present \ excused : derived[e] \in {0, file[Source]}
=============================================================================
