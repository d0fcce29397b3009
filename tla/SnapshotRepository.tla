------------------------- MODULE SnapshotRepository -------------------------
(***************************************************************************)
(* A local backup repository: a directory of snapshots and their sidecar   *)
(* files, and the incremental engine that writes them.                     *)
(*                                                                         *)
(* A snapshot is an archive file (a full container or a delta on a parent) *)
(* with up to three sidecars: the manifest of the source it holds, the     *)
(* identity record that binds manifest and archive, and the marker of a    *)
(* realtime backup.  They are published, and deleted, one file after the   *)
(* other, by a process that may die between any two of them.  One process  *)
(* writes at a time (the application lock); the user works on the source   *)
(* at any moment, and may remove or replace an archive by hand.            *)
(*                                                                         *)
(* A name stands for a time stamp: names are ordered as the archives were  *)
(* dated.  What a source tree contains is a version number; a scan under a *)
(* filter sees a content, and a digest is the content itself.  The modules *)
(* ScheduledBackup and RealtimeBackup add the services that run the engine.*)
(***************************************************************************)
EXTENDS Integers, FiniteSets

CONSTANTS MaxName,       \* the number of names a run can give out
          MaxVersion,    \* the number of states the source goes through
          MaxDepth,      \* kMaxDeltaChainDepth
          MaxManual,     \* how many times the user works on the repository
          Stubborn,      \* the kinds of sidecar whose removal may fail
          Filters,       \* the sets of filter rules in use
          ClockGoesBack, \* whether a later archive may get an earlier name
          Reverts        \* whether the source may return to an earlier state

ASSUME RepositoryAssumption ==
  /\ MaxName \in Nat \ {0} /\ MaxVersion \in Nat \ {0}
  /\ MaxDepth \in Nat \ {0} /\ MaxManual \in Nat
  /\ Stubborn \subseteq {"manifest", "identity", "marker"}
  /\ Filters # {}
  /\ ClockGoesBack \in BOOLEAN /\ Reverts \in BOOLEAN

VARIABLES source,    \* the version of the source tree
          archive,   \* name -> the .bak file, or NoFile
          manifest,  \* name -> the content its .manifest lists, or NoFile
          identity,  \* name -> its .identity record, or NoFile
          marker,    \* name -> the job its .realtime marker names, or NoFile
          lastName,  \* the latest name given out
          damaged,   \* the names whose archive the user removed or replaced
          manual,    \* how many times the user has worked on the repository
          job        \* the operation the one writing process is in

repoVars == <<source, archive, manifest, identity, marker, lastName, damaged,
              manual, job>>
files == <<archive, manifest, identity, marker>>
world == <<source, lastName, damaged, manual>>

Names == 1 .. MaxName
NoName == 0
Versions == 1 .. MaxVersion
Contents == [version : Versions, filter : Filters]
NoFile == [none |-> TRUE]

(***************************************************************************)
(* Archives.  The identity of an archive is a digest of its bytes: a full  *)
(* container is determined by its content, a delta also by the moment it   *)
(* was made (its serial number here).                                      *)
(***************************************************************************)
Serials == 0 .. 3 * MaxName
Ids == [content : Contents, serial : Serials]
NoId == [none |-> TRUE]

Full(c) == [kind |-> "full", content |-> c, serial |-> 0, parent |-> NoName,
            parentId |-> NoId, base |-> NoId]
Delta(c, serial, parent, parentId, base) ==
  [kind |-> "delta", content |-> c, serial |-> serial, parent |-> parent,
   parentId |-> parentId, base |-> base]

IdOf(a) == [content |-> a.content, serial |-> a.serial]

Exists(n) == archive[n] # NoFile
IsDelta(n) == Exists(n) /\ archive[n].kind = "delta"

\* Mutated: the archive itself is not compared with the record.
SidecarsAgree(n) ==
  /\ Exists(n)
  /\ manifest[n] # NoFile /\ identity[n] # NoFile
  /\ identity[n].content = manifest[n]

(***************************************************************************)
(* What can be said of a snapshot: LoadVerifiedSnapshotIdentity trusts the *)
(* two sidecars only when they agree with the archive and with each other. *)
(***************************************************************************)
Verified(n) ==
  /\ Exists(n)
  /\ manifest[n] # NoFile /\ identity[n] # NoFile
  /\ identity[n].id = IdOf(archive[n])
  /\ identity[n].content = manifest[n]
  /\ archive[n].kind = "delta" => archive[n].content = manifest[n]

\* The names a snapshot is built on, itself included.
Chain(n) ==
  LET up[k \in 0 .. MaxDepth + 1] ==
        IF k = 0 THEN {n}
        ELSE LET below == up[k - 1]
             IN  below \cup {archive[m].parent : m \in {x \in below : IsDelta(x)}}
  IN  up[MaxDepth + 1]

\* SnapshotDeltaDepth answers only when every envelope of the chain is there.
Complete(chain) == \A m \in chain : Exists(m)
Deltas(chain) == {m \in chain : IsDelta(m)}
DepthKnown(n) == Complete(Chain(n))
DeltaDepth(n) == Cardinality(Deltas(Chain(n)))

\* ResolveSnapshotChain: the restore accepts the chain of a snapshot.
RestorableAlong(n, chain) ==
  /\ Complete(chain)
  /\ Cardinality(Deltas(chain)) <= MaxDepth
  /\ \A m \in Deltas(chain) :
       LET p == archive[m].parent
       IN  /\ Verified(p)
           /\ IdOf(archive[p]) = archive[m].parentId
           /\ manifest[p] = archive[m].parentId.content
           /\ archive[m].base = archive[n].base
  /\ IsDelta(n) => \A m \in chain \ Deltas(chain) :
                      archive[n].base = IdOf(archive[m])
Restorable(n) == Exists(n) /\ \E chain \in {Chain(n)} : RestorableAlong(n, chain)

Holds(n, c) == Restorable(n) /\ archive[n].content = c

\* FindReachableDescendants follows the envelopes that can be read.
Descendants(n) == {m \in Names \ {n} : Exists(m) /\ n \in Chain(m)}

\* FindIncrementalBaseline: the newest snapshot with trusted sidecars that was
\* made under the same rules.
Candidates(f) == {n \in Names : Verified(n) /\ identity[n].filter = f}
Newest(S) == CHOOSE n \in S : \A m \in S : m <= n
Baseline(f) ==
  IF Candidates(f) = {} THEN NoName
  ELSE LET n == Newest(Candidates(f))
       IN  IF DepthKnown(n) /\ DeltaDepth(n) < MaxDepth THEN n ELSE NoName

(***************************************************************************)
(* Retention and deletion.                                                 *)
(***************************************************************************)
\* The newest k names of S.
NewestOf(S, k) == {n \in S : Cardinality({m \in S : m > n}) < k}

\* PlanDependencyAwareRetention: everything a visible snapshot is built on is
\* kept; a chain that cannot be followed to its end keeps everything.
Uncertain(S, k) == \E n \in NewestOf(S, k) : ~DepthKnown(n) \/ DeltaDepth(n) > MaxDepth
\* Mutated: off by one.
KeepOneLess(S, k) == UNION {Chain(n) : n \in NewestOf(S, k - 1)}

Keep(S, k) == UNION {Chain(n) : n \in NewestOf(S, k)}
Removable(S, k) == IF Uncertain(S, k) THEN {} ELSE S \ Keep(S, k)

\* DeleteSnapshots refuses a set that would leave a descendant behind.
DeletionAccepted(S) == \A n \in S : Exists(n) /\ Descendants(n) \subseteq S
\* Mutated: in any order.
AnyToDelete(S) == S

\* ... and deletes descendants first.
NextToDelete(S) ==
  {n \in S : Exists(n) => \A m \in S \ {n} : IsDelta(m) => archive[m].parent # n}

(***************************************************************************)
(* The operation in progress.                                              *)
(***************************************************************************)
NoJob == [who |-> "nobody", step |-> "idle", filter |-> CHOOSE f \in Filters : TRUE,
          scanned |-> NoFile, content |-> NoFile, name |-> NoName,
          parent |-> NoName, doomed |-> {}]
Idle == job.step = "idle"
At(step) == job.step = step
Goto(step) == job' = [job EXCEPT !.step = step]

Scan(f) == [version |-> source, filter |-> f]

\* BuildArchivePath: a free name made of the current time.
FreeNames ==
  {n \in Names : ~Exists(n) /\ (ClockGoesBack \/ n = lastName + 1)}
FreshSerial ==
  CHOOSE s \in Serials \ {0} :
    /\ \A n \in Names : IsDelta(n) => archive[n].serial # s
                                      /\ archive[n].parentId.serial # s
    /\ \A n \in Names : identity[n] # NoFile => identity[n].id.serial # s

\* RunIncrementalBackup, first part: a strong manifest of the source.
EngineScan ==
  /\ At("scan")
  /\ job' = [job EXCEPT !.content = Scan(job.filter), !.step = "decide"]
  /\ UNCHANGED <<world, files>>

\* ... second part: find the baseline and compare.
EngineDecide ==
  /\ At("decide")
  /\ LET b == Baseline(job.filter)
         unchanged == b # NoName /\ manifest[b] = job.content
     IN  job' = [job EXCEPT !.parent = b,
                            !.step = IF unchanged THEN "unchanged" ELSE "archive"]
  /\ UNCHANGED <<world, files>>

\* ... third part: write the archive.  What it reads from the source must be
\* what the manifest lists, or nothing is written (EngineFails).
EngineArchive ==
  /\ At("archive")
  /\ \E n \in FreeNames :
       /\ IF job.parent = NoName
          THEN archive' = [archive EXCEPT ![n] = Full(job.content)]
          ELSE /\ Exists(job.parent)
               /\ LET p == archive[job.parent]
                      base == IF p.kind = "delta" THEN p.base ELSE IdOf(p)
                  IN  archive' = [archive EXCEPT ![n] =
                        Delta(job.content, FreshSerial, job.parent, IdOf(p), base)]
       /\ lastName' = IF n > lastName THEN n ELSE lastName
       /\ job' = [job EXCEPT !.name = n, !.step = "manifest"]
  /\ UNCHANGED <<source, damaged, manual, manifest, identity, marker>>

\* PublishSnapshotSidecars: the manifest first, then the identity.
EngineManifest ==
  /\ At("manifest")
  /\ manifest' = [manifest EXCEPT ![job.name] = job.content]
  /\ Goto("identity")
  /\ UNCHANGED <<world, archive, identity, marker>>

EngineIdentity ==
  /\ At("identity")
  /\ Exists(job.name)
  /\ identity' = [identity EXCEPT ![job.name] =
                    [id |-> IdOf(archive[job.name]), content |-> job.content,
                     filter |-> job.filter]]
  /\ Goto("done")
  /\ UNCHANGED <<world, archive, manifest, marker>>

\* A part that fails takes back the files of this run.
EngineFails ==
  /\ job.step \in {"scan", "decide", "archive", "manifest", "identity"}
  /\ Goto("failed")
  /\ archive' = IF At("manifest") \/ At("identity")
                THEN [archive EXCEPT ![job.name] = NoFile] ELSE archive
  /\ manifest' = IF At("identity")
                 THEN [manifest EXCEPT ![job.name] = NoFile] ELSE manifest
  /\ UNCHANGED <<world, identity, marker>>

\* BackupEngine::Backup: a full container of what it finds in its own scan of
\* the source, without sidecars.
PlainArchive ==
  /\ At("plain")
  /\ \E n \in FreeNames :
       /\ archive' = [archive EXCEPT ![n] = Full(Scan(job.filter))]
       /\ lastName' = IF n > lastName THEN n ELSE lastName
       /\ job' = [job EXCEPT !.name = n, !.step = "done"]
  /\ UNCHANGED <<source, damaged, manual, manifest, identity, marker>>

PlainFails ==
  /\ At("plain")
  /\ Goto("failed")
  /\ UNCHANGED <<world, files>>

EngineStep == \/ EngineScan \/ EngineDecide \/ EngineArchive \/ EngineManifest
              \/ EngineIdentity \/ PlainArchive
EngineFault == EngineFails \/ PlainFails

\* DeleteSnapshots, one file after the other: the archive ...
Unlink(n) ==
  /\ At("unlink")
  /\ n \in NextToDelete(job.doomed)
  /\ Exists(n)
  /\ archive' = [archive EXCEPT ![n] = NoFile]
  /\ job' = [job EXCEPT !.doomed = @ \ {n}, !.name = n, !.step = "sweep"]
  /\ UNCHANGED <<world, manifest, identity, marker>>

\* ... then its sidecars, any of which may be left.
Sweep ==
  /\ At("sweep")
  /\ \E left \in SUBSET Stubborn :
       /\ manifest' = IF "manifest" \in left THEN manifest
                      ELSE [manifest EXCEPT ![job.name] = NoFile]
       /\ identity' = IF "identity" \in left THEN identity
                      ELSE [identity EXCEPT ![job.name] = NoFile]
       /\ marker' = IF "marker" \in left THEN marker
                    ELSE [marker EXCEPT ![job.name] = NoFile]
  /\ Goto(IF job.doomed = {} THEN "deleted" ELSE "unlink")
  /\ UNCHANGED <<world, archive>>

\* The first archive that cannot be unlinked ends the deletion.
UnlinkFails ==
  /\ At("unlink")
  /\ Goto("notDeleted")
  /\ UNCHANGED <<world, files>>

\* CleanOrphanSidecars: sidecars whose archive is gone.
WithoutOrphans(f) == [n \in Names |-> IF Exists(n) THEN f[n] ELSE NoFile]

(***************************************************************************)
(* The user and the machine.                                               *)
(***************************************************************************)
\* The source is looked at in four steps; a change that falls into a later one
\* is the same as a change right after the operation.
SourceChanges ==
  /\ job.step \in {"idle", "compare", "scan", "decide", "archive", "plain"}
  /\ \E v \in Versions \ {source} : /\ Reverts \/ v = source + 1
                                    /\ source' = v
  /\ UNCHANGED <<files, lastName, damaged, manual, job>>

HandRemoves(n) ==
  /\ Exists(n) /\ manual < MaxManual
  /\ archive' = [archive EXCEPT ![n] = NoFile]
  /\ damaged' = damaged \cup {n} /\ manual' = manual + 1
  /\ UNCHANGED <<source, lastName, manifest, identity, marker, job>>

\* Another full backup is copied over the archive; the sidecars stay.  (Not over
\* the file a running backup is publishing at that very moment.)
HandReplaces(n) ==
  /\ Exists(n) /\ n # job.name /\ manual < MaxManual
  /\ \E c \in Contents : /\ c # archive[n].content
                         /\ archive' = [archive EXCEPT ![n] = Full(c)]
  /\ damaged' = damaged \cup {n} /\ manual' = manual + 1
  /\ UNCHANGED <<source, lastName, manifest, identity, marker, job>>

\* The user's own backups and deletions go through the same engine and
\* catalogue, while no other operation runs.
StartManualBackup ==
  /\ Idle /\ manual < MaxManual
  /\ \E step \in {"plain", "scan"}, f \in Filters :
       job' = [NoJob EXCEPT !.who = "user", !.step = step, !.filter = f]
  /\ manual' = manual + 1
  /\ UNCHANGED <<source, lastName, damaged, files>>

StartManualDelete ==
  /\ Idle /\ manual < MaxManual
  /\ \E S \in SUBSET {n \in Names : Exists(n)} \ {{}} :
       /\ DeletionAccepted(S)
       /\ job' = [NoJob EXCEPT !.who = "user", !.step = "unlink", !.doomed = S]
  /\ manual' = manual + 1
  /\ UNCHANGED <<source, lastName, damaged, files>>

EndManual ==
  /\ job.who = "user"
  /\ job.step \in {"done", "unchanged", "failed", "deleted", "notDeleted"}
  /\ job' = NoJob
  /\ UNCHANGED <<world, files>>

UserStep ==
  \/ SourceChanges \/ StartManualBackup \/ StartManualDelete
  \/ \E n \in Names : HandRemoves(n) \/ HandReplaces(n)

RepositoryInit ==
  /\ source = 1
  /\ archive = [n \in Names |-> NoFile]
  /\ manifest = [n \in Names |-> NoFile]
  /\ identity = [n \in Names |-> NoFile]
  /\ marker = [n \in Names |-> NoFile]
  /\ lastName = NoName
  /\ damaged = {} /\ manual = 0
  /\ job = NoJob

(***************************************************************************)
(* Properties of the repository.                                           *)
(***************************************************************************)
\* Every snapshot in the directory can be restored, whatever was written,
\* deleted or cut short by a crash, unless the user removed or replaced an
\* archive of its chain: no operation of the program breaks a chain, and no
\* chain grows deeper than the restore accepts (RunIncrementalBackup,
\* PlanDependencyAwareRetention, DeleteSnapshots against ResolveSnapshotChain).
ChainsStayRestorable ==
  \A n \in Names :
    Exists(n) /\ Chain(n) \cap damaged = {} => Restorable(n)

\* Sidecars that pass verification describe the archive beside them, also
\* after another archive was copied over it and after any crash between the
\* publication of archive, manifest and identity: a baseline is never
\* compared through the manifest of another state.
VerifiedManifestsTellTheTruth ==
  \A n \in Names : Verified(n) => manifest[n] = archive[n].content

\* The repository implements the abstract set of snapshots: what restores is
\* published by one step and withdrawn by one step, and no other step of an
\* operation, a rollback, a crash or a clean-up changes what any name restores.
Abstract == INSTANCE SnapshotSet
              WITH Name <- Names, Content <- Contents, Nothing <- NoFile,
                   held <- [n \in Names |-> IF Restorable(n)
                                            THEN archive[n].content ELSE NoFile],
                   touched <- manual
SnapshotsAreAtomic == Abstract!SetSpec
=============================================================================
