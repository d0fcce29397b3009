--------------------------- MODULE RealtimeBackup ---------------------------
(***************************************************************************)
(* The realtime backup service over a local repository: what one trigger   *)
(* of the realtime controller runs (RunRealtimeBackupOnce).                *)
(*                                                                         *)
(* A snapshot is a realtime one because of its marker, a sidecar written   *)
(* after the archive that names the archive's identity and the job that    *)
(* made it.  The retention of the service works on the markers alone: it   *)
(* keeps a list nowhere else, so every crash and every archive the user    *)
(* removes shows in what the markers say.                                  *)
(***************************************************************************)
EXTENDS SnapshotRepository

CONSTANTS RetainCount,  \* config.retain_count
          Strategies    \* the strategies the job is configured with

ASSUME RealtimeAssumption ==
  /\ RetainCount \in Nat \ {0}
  /\ Strategies \subseteq {"full", "incremental"} /\ Strategies # {}

VARIABLE config   \* the strategy and the filter: the identity of the job

vars == <<repoVars, config>>

Jobs == [strategy : Strategies, filter : Filters]

\* Mutated: the marker of a delta names its parent.
MarkerOfParent(n) ==
  [id |-> IF IsDelta(n) THEN archive[n].parentId ELSE IdOf(archive[n]), job |-> config]

Marker(n) == [id |-> IdOf(archive[n]), job |-> config]

RealtimeTypeOK ==
  /\ config \in Jobs
  /\ job.who \in {"nobody", "user", "realtime"}
  /\ job.doomed \subseteq Names /\ job.parent \in Names \cup {NoName}
  /\ \A n \in Names : marker[n] # NoFile => /\ marker[n].id \in Ids
                                            /\ marker[n].job \in Jobs
  /\ \A n \in Names : identity[n] # NoFile => identity[n].content \in Contents
  /\ lastName \in Names \cup {NoName}

\* A trigger of the controller.
StartRun ==
  /\ Idle
  /\ job' = [NoJob EXCEPT !.who = "realtime", !.filter = config.filter,
               !.step = IF config.strategy = "full" THEN "plain" ELSE "scan"]
  /\ UNCHANGED <<world, files, config>>

\* Nothing changed, or the snapshot could not be made: no marker, no retention.
EndRun ==
  /\ job.who = "realtime"
  /\ job.step \in {"unchanged", "failed", "deleted", "notDeleted"}
  /\ job' = NoJob
  /\ UNCHANGED <<world, files, config>>

\* WriteRealtimeMarker, from the identity of the bytes just written.
WriteMarker ==
  /\ job.who = "realtime" /\ At("done")
  /\ Exists(job.name)
  /\ marker' = [marker EXCEPT ![job.name] = Marker(job.name)]
  /\ Goto("retain")
  /\ UNCHANGED <<world, archive, manifest, identity, config>>

\* Without its marker the snapshot stays an ordinary one, and nothing is deleted.
MarkerFails ==
  /\ job.who = "realtime" /\ At("done")
  /\ job' = NoJob
  /\ UNCHANGED <<world, files, config>>

\* ListRealtimeSnapshots: a marker counts when it names the bytes beside it.
MarkerVerified(n) == Exists(n) /\ marker[n].id = IdOf(archive[n])
Marked == {n \in Names : marker[n] # NoFile}
\* Mutated: the snapshots of every job.
OwnOfAnyJob == Marked

Own == {n \in Marked : marker[n].job = config}

\* RunRealtimeRetention: one marker that cannot be verified stops it.
Retain ==
  /\ job.who = "realtime" /\ At("retain")
  /\ LET doomed == Removable(Own, RetainCount)
         stops  == \/ \E n \in Marked : ~MarkerVerified(n)
                   \/ Cardinality(Own) <= RetainCount
                   \/ doomed = {} \/ ~DeletionAccepted(doomed)
     IN  job' = IF stops THEN NoJob
                ELSE [job EXCEPT !.doomed = doomed, !.step = "unlink"]
  /\ UNCHANGED <<world, files, config>>

Delete(n) == Unlink(n) /\ UNCHANGED config

\* The retention of the scheduled service cleans the orphans of the repository.
OrphansAreCleaned ==
  /\ Idle
  /\ manifest' = WithoutOrphans(manifest)
  /\ identity' = WithoutOrphans(identity)
  /\ marker' = WithoutOrphans(marker)
  /\ UNCHANGED <<world, archive, config, job>>

Reconfigure ==
  /\ Idle
  /\ config' \in Jobs
  /\ UNCHANGED repoVars

Crash ==
  /\ ~Idle
  /\ job' = NoJob
  /\ UNCHANGED <<world, files, config>>

Init == RepositoryInit /\ config \in Jobs

RunStep ==
  \/ EndRun \/ WriteMarker \/ Retain
  \/ (EngineStep \/ Sweep \/ EndManual) /\ UNCHANGED config
  \/ \E n \in Names : Delete(n)

Fault == \/ Crash \/ MarkerFails
         \/ (EngineFault \/ UnlinkFails) /\ UNCHANGED config

Next ==
  \/ StartRun \/ RunStep \/ Fault \/ Reconfigure \/ OrphansAreCleaned
  \/ UserStep /\ UNCHANGED config

Spec == Init /\ [][Next]_vars

(***************************************************************************)
(* Properties.                                                             *)
(***************************************************************************)
\* A marker beside an archive tells what that archive is: what the service
\* counts as its own snapshot holds the bytes it wrote, unless the user has
\* replaced them (WriteRealtimeMarker after LoadVerifiedSnapshotIdentity).
MarkersNameTheirArchive ==
  \A n \in Marked \ damaged : Exists(n) => MarkerVerified(n)

\* The service deletes only snapshots of the job it is configured for, verified
\* by their markers, and none that one of the newest RetainCount of them is
\* built on; a snapshot without a marker (the user's, or one whose marker was
\* lost in a crash) is never deleted by it (RunRealtimeRetention).
RetentionTakesOnlyItsOwn ==
  [][ \A n \in Names :
        job.who = "realtime" /\ At("unlink") /\ Exists(n) /\ archive'[n] = NoFile
          /\ manual' = manual
          => /\ marker[n] # NoFile /\ marker[n].job = config
             /\ \A m \in NewestOf(Own, RetainCount) :
                  n \notin Chain(m)
    ]_vars
=============================================================================
