-------------------------- MODULE ScheduledBackup ---------------------------
(***************************************************************************)
(* The scheduled backup service over a local repository.                   *)
(*                                                                         *)
(* A round of the service reads schedule.json, scans the source, decides   *)
(* whether anything changed since the baseline snapshot, writes a snapshot *)
(* (a full container, or what the incremental engine makes), then saves    *)
(* the source manifest, runs the retention and saves schedule.json: three  *)
(* kinds of files that no step writes together.  The process may die after *)
(* any of them, any save may fail, and the same repository also holds the  *)
(* backups the user makes and deletes with the catalogue.                  *)
(***************************************************************************)
EXTENDS SnapshotRepository

CONSTANTS RetainCount,  \* config.retain_count
          MaxManaged,   \* kMaxRetainCount, the bound of the file format
          Strategies    \* the strategies the schedule is configured with

ASSUME ScheduleAssumption ==
  /\ RetainCount \in Nat \ {0}
  /\ MaxManaged \in Nat /\ RetainCount <= MaxManaged
  /\ Strategies \subseteq {"full", "incremental"} /\ Strategies # {}

VARIABLES config,         \* the strategy and the filter of the schedule
          document,       \* the state part of schedule.json on disk
          memory,         \* the document the running round works on
          sourceManifest  \* schedule-manifest.dat: a content and its owner

vars == <<repoVars, config, document, memory, sourceManifest>>
ownVars == <<config, document, memory, sourceManifest>>

EmptyDocument == [managed |-> {}, baseline |-> NoName]

ScheduleTypeOK ==
  /\ source \in Versions
  /\ \A n \in Names :
       /\ Exists(n) =>
            /\ archive[n].kind \in {"full", "delta"}
            /\ archive[n].content \in Contents
            /\ archive[n].kind = "delta" => archive[n].parentId \in Ids
       /\ manifest[n] \in Contents \cup {NoFile}
       /\ identity[n] # NoFile => identity[n].id \in Ids
  /\ lastName \in Names \cup {NoName} /\ damaged \subseteq Names
  /\ job.name \in Names \cup {NoName} /\ job.doomed \subseteq Names
  /\ {document.baseline, memory.baseline} \subseteq Names \cup {NoName}
  /\ document.managed \cup memory.managed \subseteq Names
  /\ manual \in 0 .. MaxManual

(***************************************************************************)
(* A round.                                                                *)
(***************************************************************************)
\* Load the document, drop the records whose archive is gone, scan the source.
StartRound ==
  /\ Idle
  /\ memory' = [document EXCEPT !.managed = {n \in @ : Exists(n)}]
  /\ job' = [NoJob EXCEPT !.who = "schedule", !.step = "compare",
                          !.filter = config.filter,
                          !.scanned = Scan(config.filter)]
  /\ UNCHANGED <<world, files, config, document,
                 sourceManifest>>

\* Mutated: any source manifest counts.
BaselineWithoutOwner ==
  /\ memory.baseline \in memory.managed
  /\ Exists(memory.baseline)
  /\ sourceManifest # NoFile

\* The baseline counts when the snapshot is managed, is in the repository, and
\* the source manifest says it belongs to that very snapshot.
BaselineUsable ==
  /\ memory.baseline \in memory.managed
  /\ Exists(memory.baseline)
  /\ sourceManifest # NoFile
  /\ sourceManifest.owner = memory.baseline

\* Full strategy: unchanged is skipped; anything else makes a full snapshot.
\* Incremental strategy: the engine decides, from a scan of its own.
Compare ==
  /\ At("compare")
  /\ Goto(CASE config.strategy = "incremental" -> "scan"
            [] config.strategy = "full" ->
                 IF BaselineUsable /\ sourceManifest.content = job.scanned
                 THEN "unchanged" ELSE "plain")
  /\ UNCHANGED <<world, files, ownVars>>

\* finish_failed: the round ends; what it learnt of the records is saved, if
\* the save succeeds.
RoundFails ==
  /\ job.who = "schedule" /\ job.step \in {"compare", "failed"}
  /\ document' \in {document, memory}
  /\ job' = NoJob /\ memory' = EmptyDocument
  /\ UNCHANGED <<world, files, config, sourceManifest>>

\* kSkippedNoChanges.
Skip ==
  /\ job.who = "schedule" /\ At("unchanged")
  /\ document' \in {document, memory}
  /\ job' = NoJob /\ memory' = EmptyDocument
  /\ UNCHANGED <<world, files, config, sourceManifest>>

\* The new snapshot is recorded in memory and becomes the baseline.
Record ==
  /\ job.who = "schedule" /\ At("done")
  /\ memory' = [managed |-> memory.managed \cup {job.name}, baseline |-> job.name]
  /\ Goto("saveManifest")
  /\ UNCHANGED <<world, files, config, document,
                 sourceManifest>>

\* ScheduleStore::SaveManifest, with its owner; a failure is only reported.
SaveManifest ==
  /\ At("saveManifest")
  /\ sourceManifest' \in {sourceManifest,
                          [content |-> job.scanned, owner |-> memory.baseline]}
  /\ job' = [NoJob EXCEPT !.who = job.who, !.step = "retain"]
  /\ UNCHANGED <<world, files, config, document, memory>>

\* RunRetention: what the plan gives up is deleted as one set, if the catalogue
\* accepts it.  An uncertain plan and a refused set end the retention.
Retain ==
  /\ At("retain")
  /\ LET managed == memory.managed
         doomed  == Removable(managed, RetainCount)
     IN  job' = [job EXCEPT
           !.doomed = IF DeletionAccepted(doomed) THEN doomed ELSE {},
           !.step = IF Uncertain(managed, RetainCount) \/ ~DeletionAccepted(doomed)
                    THEN "save"
                    ELSE IF doomed = {} THEN "tidy" ELSE "unlink"]
  /\ UNCHANGED <<world, files, ownVars>>

\* A step of DeleteSnapshots inside the retention ...
UnlinkManaged(n) ==
  /\ job.who = "schedule"
  /\ Unlink(n)
  /\ memory' = [memory EXCEPT !.managed = @ \ {n}]
  /\ UNCHANGED <<config, document, sourceManifest>>

\* ... or inside a deletion of the user's.
UnlinkOwn(n) ==
  /\ job.who = "user"
  /\ Unlink(n)
  /\ UNCHANGED ownVars

\* The end of DeleteSnapshots inside the retention.
EndRetention ==
  /\ job.who = "schedule" /\ job.step \in {"deleted", "notDeleted"}
  /\ Goto(IF At("deleted") THEN "tidy" ELSE "save")
  /\ UNCHANGED <<world, files, ownVars>>

\* CleanOrphanSidecars, and a baseline that is no longer managed is forgotten.
Tidy ==
  /\ At("tidy")
  /\ manifest' = WithoutOrphans(manifest)
  /\ identity' = WithoutOrphans(identity)
  /\ marker' = WithoutOrphans(marker)
  /\ memory' = IF memory.baseline \in memory.managed THEN memory
               ELSE [memory EXCEPT !.baseline = NoName]
  /\ Goto("save")
  /\ UNCHANGED <<world, archive, config, document, sourceManifest>>

\* ScheduleStore::Save refuses more records than the format holds.
Save ==
  /\ At("save")
  /\ document' \in {document} \cup
       (IF Cardinality(memory.managed) <= MaxManaged THEN {memory} ELSE {})
  /\ job' = NoJob /\ memory' = EmptyDocument
  /\ UNCHANGED <<world, files, config, sourceManifest>>

\* The schedule is edited between two rounds.
Reconfigure ==
  /\ Idle
  /\ \E s \in Strategies, f \in Filters : config' = [strategy |-> s, filter |-> f]
  /\ UNCHANGED <<repoVars, document, memory, sourceManifest>>

\* The process dies and is started again: what it had in memory is gone.
Crash ==
  /\ ~Idle
  /\ job' = NoJob /\ memory' = EmptyDocument
  /\ UNCHANGED <<world, files, config, document,
                 sourceManifest>>

Init ==
  /\ RepositoryInit
  /\ config \in [strategy : Strategies, filter : Filters]
  /\ document = EmptyDocument /\ memory = EmptyDocument
  /\ sourceManifest = NoFile

RoundStep ==
  \/ Compare \/ Skip \/ Record \/ SaveManifest \/ Retain \/ EndRetention
  \/ Tidy \/ Save
  \/ job.who = "schedule" /\ At("failed") /\ RoundFails
  \/ (EngineStep \/ Sweep \/ EndManual) /\ UNCHANGED ownVars
  \/ \E n \in Names : UnlinkManaged(n) \/ UnlinkOwn(n)

Fault == \/ Crash
         \/ job.step = "compare" /\ RoundFails
         \/ (EngineFault \/ UnlinkFails) /\ UNCHANGED ownVars

Next ==
  \/ StartRound \/ RoundStep \/ Fault
  \/ Reconfigure
  \/ UserStep /\ UNCHANGED ownVars

Spec == Init /\ [][Next]_vars

(***************************************************************************)
(* Properties of the service.                                              *)
(***************************************************************************)
\* A round that is skipped leaves nothing unsaved: the snapshot it relies on
\* restores what the round has scanned, unless the user damaged its chain
\* ("build one snapshot too many, never skip wrongly", EvaluateInternal).  A
\* crash between the archive, the source manifest and the document must not
\* make a later round skip.
Kept(n, c) == Holds(n, c) \/ Chain(n) \cap damaged # {}
SkipMeansSaved ==
  job.who = "schedule" /\ At("unchanged") =>
    IF job.content = NoFile
    THEN Kept(memory.baseline, job.scanned)
    ELSE Kept(job.parent, job.content)

\* The retention gives up no snapshot the user expects to keep: an archive it
\* unlinks is one the schedule recorded, and neither one of the newest
\* RetainCount records nor an ancestor of one.
RetentionSparesTheNewest ==
  [][ \A n \in Names :
        job.who = "schedule" /\ At("unlink") /\ Exists(n) /\ archive'[n] = NoFile
          /\ manual' = manual
          => /\ n \in memory.managed
             /\ \A m \in NewestOf(memory.managed, RetainCount) : n \notin Chain(m)
    ]_vars
=============================================================================
