---------------------------- MODULE ChainRestore ----------------------------
(***************************************************************************)
(* Restoring an incremental chain into a destination directory.            *)
(*                                                                         *)
(* A restore works in three temporary entries beside the destination,      *)
(* named after its process id: the staging tree, the overlay a delta is    *)
(* unpacked into and the container the delta carried.  It claims each name *)
(* by an exclusive creation, leaves a marker that proves where the entries *)
(* come from, publishes the staging tree by one rename and reclaims what   *)
(* it created.  It may die between any two steps; a later restore, with    *)
(* another process id, reclaims what a dead one left, if the marker is     *)
(* there.  The user shares the directory: they may create an entry that    *)
(* happens to have one of those names, or fill the destination.            *)
(*                                                                         *)
(* A tree is the number of deltas applied to the base; the merge itself is *)
(* the subject of DeltaTree, and which chains resolve of SnapshotRepository.*)
(* The application lock lets one restore run at a time.                    *)
(***************************************************************************)
EXTENDS Integers

CONSTANTS Pids,          \* the process ids a restore may get
          Deltas,        \* how many deltas the chain has
          MaxRuns,       \* how many restores are started
          MaxUser        \* how many times the user works in the directory

ASSUME RestoreAssumption ==
  Pids # {} /\ Deltas \in Nat /\ MaxRuns \in Nat /\ MaxUser \in Nat

VARIABLES destination, \* what is at the path to restore to
          entry,       \* pid -> kind -> what has that temporary name
          marker,      \* pid -> its .owner file: "none", "ours" or "foreign"
          run,         \* the restore in progress
          runs, acts   \* how many restores and user actions there have been

vars == <<destination, entry, marker, run, runs, acts>>

Kinds == {"staging", "overlay", "container"}
Partial == -1             \* a temporary entry that holds no whole tree
Trees == Partial .. Deltas

Absent == [by |-> "nobody", tree |-> Partial, proved |-> FALSE]
Users  == [by |-> "user", tree |-> Partial, proved |-> FALSE]
Empty  == [by |-> "empty", tree |-> Partial, proved |-> FALSE]
Ours(tree) == [by |-> "restore", tree |-> tree, proved |-> run.markerOwned]
Objects == [by : {"nobody", "user", "empty", "restore"}, tree : Trees,
            proved : BOOLEAN]

Free(p, k) == entry[p][k] = Absent
Put(k, object) == entry' = [entry EXCEPT ![run.pid][k] = object]

(***************************************************************************)
(* One restore.  A claim is what TempClaim records: nothing, a directory   *)
(* this run created and identified, or one it created and could not        *)
(* identify.                                                               *)
(***************************************************************************)
NoRun == [pid |-> "nobody", busy |-> {}, step |-> "none",
          index |-> 0, todo |-> {}, proofs |-> {}, markerOwned |-> FALSE,
          markerCreated |-> FALSE, staging |-> "none", overlay |-> "none",
          container |-> FALSE, residue |-> FALSE]
Running == run.step # "none"
At(step) == run.step = step
Goto(step) == run' = [run EXCEPT !.step = step]

\* The lambda refuse: the marker goes if this run created it, and the run ends.
Refuse ==
  /\ marker' = IF run.markerCreated THEN [marker EXCEPT ![run.pid] = "none"]
               ELSE marker
  /\ run' = NoRun

\* The destination must not exist or be an empty directory.  Process ids the
\* system has given to other programs count as alive.
StartRestore(p, busy) ==
  /\ ~Running /\ runs < MaxRuns
  /\ destination \in {Absent, Empty}
  /\ run' = [NoRun EXCEPT !.pid = p, !.busy = busy, !.step = "mark"]
  /\ runs' = runs + 1
  /\ UNCHANGED <<destination, entry, marker, acts>>

\* CreateTempOwnerMarker: an exclusive creation.  A marker of ours that is
\* already there was left by a dead process with this id; one that is not ours
\* ends the run; one that cannot be written does not.
CreateMarker ==
  /\ At("mark")
  /\ \/ /\ marker[run.pid] = "none"
        /\ marker' = [marker EXCEPT ![run.pid] = "ours"]
        /\ run' = [run EXCEPT !.step = "scan", !.markerOwned = TRUE,
                              !.markerCreated = TRUE]
     \/ /\ marker[run.pid] = "none"
        /\ Goto("scan") /\ UNCHANGED marker
     \/ /\ marker[run.pid] = "ours"
        /\ run' = [run EXCEPT !.step = "scan", !.markerOwned = TRUE]
        /\ UNCHANGED marker
     \/ /\ marker[run.pid] = "foreign"
        /\ run' = NoRun /\ UNCHANGED marker
  /\ UNCHANGED <<destination, entry, runs, acts>>

\* ReclaimStaleTempDirs, first part: list what dead processes left and look at
\* every marker before touching anything.
DeadPids == Pids \ (run.busy \cup {run.pid})
\* Mutated: the containers are forgotten.
LeftoverTrees ==
  {pk \in DeadPids \X {"staging", "overlay"} : ~Free(pk[1], pk[2])}

Leftovers == {pk \in DeadPids \X Kinds : ~Free(pk[1], pk[2])}
ScanStale ==
  /\ At("scan")
  /\ LET proofs == {pk[1] : pk \in {x \in Leftovers : marker[x[1]] = "ours"}}
     IN  run' = [run EXCEPT !.step = "reclaim", !.proofs = proofs,
                            !.todo = {pk \in Leftovers : pk[1] \in proofs}]
  /\ UNCHANGED <<destination, entry, marker, runs, acts>>

\* ... second part: remove the entries, one after the other.  The result of a
\* removal is not looked at: what could not be removed is about to lose its
\* proof.
RemoveStale ==
  /\ At("reclaim")
  /\ \E pk \in run.todo :
       /\ \/ entry' = [entry EXCEPT ![pk[1]][pk[2]] = Absent]
          \/ entry' = [entry EXCEPT ![pk[1]][pk[2]].proved = FALSE]
       /\ run' = [run EXCEPT !.todo = @ \ {pk}]
  /\ UNCHANGED <<destination, marker, runs, acts>>

\* ... last part: the markers go when the entries have gone.
RemoveStaleMarkers ==
  /\ At("reclaim") /\ run.todo = {}
  /\ \/ \E p \in run.proofs :
          /\ marker' = [marker EXCEPT ![p] = "none"]
          /\ run' = [run EXCEPT !.proofs = @ \ {p}]
     \/ run.proofs = {} /\ Goto("check") /\ UNCHANGED marker
  /\ UNCHANGED <<destination, entry, runs, acts>>

\* A name of this run that is taken ends it, whoever took it.
CheckNames ==
  /\ At("check")
  /\ IF \A k \in Kinds : Free(run.pid, k) THEN Goto("claimStaging") /\ UNCHANGED marker
     ELSE Refuse
  /\ UNCHANGED <<destination, entry, runs, acts>>

\* ClaimTempDirectoryAt: kNotCreated ends the run, kUnverifiable as well, but
\* leaves the directory and the marker.
ClaimStaging ==
  /\ At("claimStaging")
  /\ \/ /\ Free(run.pid, "staging")
        /\ Put("staging", Ours(Partial))
        /\ run' = [run EXCEPT !.staging = "claimed", !.step = "claimOverlay"]
        /\ UNCHANGED marker
     \/ /\ Free(run.pid, "staging")
        /\ Put("staging", Ours(Partial))
        /\ run' = NoRun /\ UNCHANGED marker
     \/ Refuse /\ UNCHANGED entry
  /\ UNCHANGED <<destination, runs, acts>>

\* Mutated: whatever has the name of the staging directory is removed.
RollBackByName(unverifiable) ==
  /\ entry' = [entry EXCEPT ![run.pid]["staging"] = Absent,
                            ![run.pid]["overlay"] =
                              IF unverifiable THEN Ours(Partial) ELSE @]
  /\ IF unverifiable THEN run' = NoRun /\ UNCHANGED marker ELSE Refuse

\* The overlay could not be claimed: RollbackJustCreatedEntry removes the
\* staging directory if the name still leads to the one this run created.  The
\* marker goes when nothing of this run is left.
RollBack(unverifiable) ==
  LET left == [entry EXCEPT ![run.pid]["overlay"] =
                 IF unverifiable THEN Ours(Partial) ELSE @]
      gone == [left EXCEPT ![run.pid]["staging"] = Absent]
  IN \/ /\ entry[run.pid]["staging"].by \in {"restore", "nobody"}
        /\ entry' = gone
        /\ IF unverifiable THEN run' = NoRun /\ UNCHANGED marker ELSE Refuse
     \/ /\ entry' = left
        /\ run' = NoRun /\ UNCHANGED marker

ClaimOverlay ==
  /\ At("claimOverlay")
  /\ \/ /\ Free(run.pid, "overlay")
        /\ Put("overlay", Ours(Partial))
        /\ run' = [run EXCEPT !.overlay = "claimed", !.step = "base"]
        /\ UNCHANGED marker
     \/ Free(run.pid, "overlay") /\ RollBack(TRUE)
     \/ RollBack(FALSE)
  /\ UNCHANGED <<destination, runs, acts>>

\* Mutated: off by one.
AfterOneLess(applied) == IF applied + 1 < Deltas THEN "extract" ELSE "publish"

\* Where the loop goes after so many deltas.
AfterDelta(applied) == IF applied < Deltas THEN "extract" ELSE "publish"

\* RunRestorePipeline of the base: it verifies the archive, unpacks it beside
\* the staging directory and renames the result over it, if that is empty.
RestoreBase ==
  /\ At("base")
  /\ \/ /\ entry[run.pid]["staging"].by \in {"restore", "nobody"}
        /\ Put("staging", Ours(0))
        /\ run' = [run EXCEPT !.step = AfterDelta(0)]
     \/ Goto("cleanStaging") /\ UNCHANGED entry
  /\ UNCHANGED <<destination, marker, runs, acts>>

\* The envelope is read and the payload extracted to a container this run
\* creates; each failure here, and below, ends in the cleanup.
DeltaFails == Goto("cleanStaging")

Extract ==
  /\ At("extract")
  /\ \/ /\ Free(run.pid, "container")
        /\ Put("container", Ours(Partial))
        /\ run' = [run EXCEPT !.container = TRUE, !.step = "renewOverlay"]
     \/ DeltaFails /\ UNCHANGED entry
  /\ UNCHANGED <<destination, marker, runs, acts>>

\* ReclaimTempEntry removes by name what this run claimed.  The overlay of the
\* previous round is reclaimed so, and the claim forgotten if that worked, at
\* two places of the loop.
ReclaimOverlay(here, next) ==
  /\ At(here)
  /\ \/ /\ run.overlay = "claimed"
        /\ Put("overlay", Absent)
        /\ run' = [run EXCEPT !.overlay = "none", !.step = next]
     \/ run.overlay = "claimed" /\ Goto(next) /\ UNCHANGED entry
     \/ run.overlay = "none" /\ Goto(next) /\ UNCHANGED entry
  /\ UNCHANGED <<destination, marker, runs, acts>>
RenewOverlay == ReclaimOverlay("renewOverlay", "claimDelta")
DropOverlay == ReclaimOverlay("dropOverlay", AfterDelta(run.index))

ClaimDelta ==
  /\ At("claimDelta")
  /\ \/ /\ Free(run.pid, "overlay")
        /\ Put("overlay", Ours(Partial))
        /\ run' = [run EXCEPT !.overlay = "claimed", !.step = "unpack"]
     \/ /\ Free(run.pid, "overlay")
        /\ Put("overlay", Ours(Partial))
        /\ run' = [run EXCEPT !.overlay = "unverifiable", !.residue = TRUE,
                              !.step = "cleanStaging"]
     \/ DeltaFails /\ UNCHANGED entry
  /\ UNCHANGED <<destination, marker, runs, acts>>

\* The payload is restored into the overlay and the container removed, which
\* may fail; then the tombstones and the merge.  A merge that fails half way
\* leaves a staging tree that is no version of the source.
Unpack ==
  /\ At("unpack")
  /\ \/ /\ Put("container", Absent)
        /\ run' = [run EXCEPT !.container = FALSE, !.step = "merge"]
     \/ Goto("merge") /\ UNCHANGED entry
     \/ DeltaFails /\ UNCHANGED entry
  /\ UNCHANGED <<destination, marker, runs, acts>>

Merge ==
  /\ At("merge")
  /\ \/ /\ Put("staging", Ours(run.index + 1))
        /\ run' = [run EXCEPT !.index = @ + 1, !.step = "dropOverlay"]
     \/ Put("staging", Ours(Partial)) /\ DeltaFails
  /\ UNCHANGED <<destination, marker, runs, acts>>

\* An empty destination is removed first, so that publishing is one rename.
ClearDestination ==
  /\ At("publish")
  /\ \/ /\ destination = Empty /\ destination' = Absent /\ Goto("rename")
     \/ destination = Absent /\ Goto("rename") /\ UNCHANGED destination
     \/ destination # Absent /\ Goto("cleanStaging") /\ UNCHANGED destination
  /\ UNCHANGED <<entry, marker, runs, acts>>

\* Mutated: what is at the destination is replaced.
PublishOver ==
  /\ At("rename")
  /\ destination' = [entry[run.pid]["staging"] EXCEPT !.proved = FALSE]
  /\ Put("staging", Absent) /\ Goto("cleanStaging")
  /\ UNCHANGED <<marker, runs, acts>>

\* PublishReplacing: rename(2) of a directory, which succeeds over nothing and
\* over an empty directory.
Publish ==
  /\ At("rename")
  /\ \/ /\ destination \in {Absent, Empty}
        /\ destination' = [entry[run.pid]["staging"] EXCEPT !.proved = FALSE]
        /\ Put("staging", Absent) /\ Goto("cleanStaging")
     \/ Goto("cleanStaging") /\ UNCHANGED <<destination, entry>>
  /\ UNCHANGED <<marker, runs, acts>>

(***************************************************************************)
(* The end, on success and failure alike: reclaim what was claimed, then   *)
(* take the marker away if nothing of this run is left.                    *)
(***************************************************************************)
\* What was claimed is removed by name; that may fail.  What could not be
\* identified stays.
Clean(here, k, claim, next) ==
  /\ At(here)
  /\ \/ claim = "claimed" /\ Put(k, Absent) /\ Goto(next)
     \/ claim = "none" /\ UNCHANGED entry /\ Goto(next)
     \/ /\ claim # "none" /\ UNCHANGED entry
        /\ run' = [run EXCEPT !.residue = TRUE, !.step = next]
  /\ UNCHANGED <<destination, marker, runs, acts>>
CleanStaging == Clean("cleanStaging", "staging", run.staging, "cleanOverlay")
CleanOverlay == Clean("cleanOverlay", "overlay", run.overlay, "cleanContainer")
CleanContainer ==
  Clean("cleanContainer", "container",
        IF run.container THEN "claimed" ELSE "none", "unmark")

\* Mutated: the marker goes whatever is left.
FinishWithoutProof ==
  /\ At("unmark")
  /\ marker' = IF run.markerOwned THEN [marker EXCEPT ![run.pid] = "none"] ELSE marker
  /\ run' = NoRun
  /\ UNCHANGED <<destination, entry, runs, acts>>

Finish ==
  /\ At("unmark")
  /\ marker' = IF run.markerOwned /\ ~run.residue
               THEN [marker EXCEPT ![run.pid] = "none"] ELSE marker
  /\ run' = NoRun
  /\ UNCHANGED <<destination, entry, runs, acts>>

\* The process dies; a marker it was writing is left half written.
Crash ==
  /\ Running
  /\ run' = NoRun
  /\ \/ UNCHANGED marker
     \/ /\ At("mark") /\ marker[run.pid] = "none"
        /\ marker' = [marker EXCEPT ![run.pid] = "foreign"]
  /\ UNCHANGED <<destination, entry, runs, acts>>

(***************************************************************************)
(* The user.  They replace an entry of a running restore only while the    *)
(* code still compares identities: once a name is handed to the archive    *)
(* pipeline, the code takes what has that name for its own.                *)
(***************************************************************************)
UserCreates(p, k) ==
  /\ Free(p, k)
  /\ entry' = [entry EXCEPT ![p][k] = Users]
  /\ UNCHANGED <<destination, marker>>
UserReplaces ==
  /\ At("claimOverlay")
  /\ Put("staging", Users)
  /\ UNCHANGED <<destination, marker>>
UserTakesMarkerName(p) ==
  /\ marker[p] = "none"
  /\ marker' = [marker EXCEPT ![p] = "foreign"]
  /\ UNCHANGED <<destination, entry>>
UserWorksAtDestination ==
  /\ destination' \in {Absent, Empty, Users} \ {destination}
  /\ UNCHANGED <<entry, marker>>

UserStep ==
  /\ acts < MaxUser
  /\ acts' = acts + 1
  /\ \/ \E p \in Pids, k \in Kinds : UserCreates(p, k)
     \/ UserReplaces
     \/ \E p \in Pids : UserTakesMarkerName(p)
     \/ UserWorksAtDestination
  /\ UNCHANGED <<run, runs>>

Init ==
  /\ destination \in {Absent, Empty, Users}
  /\ entry = [p \in Pids |-> [k \in Kinds |-> Absent]]
  /\ marker = [p \in Pids |-> "none"]
  /\ run = NoRun
  /\ runs = 0 /\ acts = 0

RestoreStep ==
  \/ CreateMarker \/ ScanStale \/ RemoveStale \/ RemoveStaleMarkers \/ CheckNames
  \/ ClaimStaging \/ ClaimOverlay \/ RestoreBase
  \/ Extract \/ RenewOverlay \/ ClaimDelta \/ Unpack \/ Merge \/ DropOverlay
  \/ ClearDestination \/ Publish
  \/ CleanStaging \/ CleanOverlay \/ CleanContainer \/ Finish

Next ==
  \/ \E p \in Pids, busy \in SUBSET Pids : p \notin busy /\ StartRestore(p, busy)
  \/ RestoreStep
  \/ UserStep
  \/ Crash

Spec == Init /\ [][Next]_vars

-----------------------------------------------------------------------------
RestoreTypeOK ==
  /\ destination \in Objects
  /\ entry \in [Pids -> [Kinds -> Objects]]
  /\ marker \in [Pids -> {"none", "ours", "foreign"}]
  /\ run.pid \in (Pids \ run.busy) \cup {"nobody"}
  /\ run.index \in 0 .. Deltas
  /\ run.todo \subseteq Pids \X Kinds /\ run.proofs \subseteq Pids
  /\ run.staging \in {"none", "claimed"}
  /\ run.overlay \in {"none", "claimed", "unverifiable"}
  /\ runs \in 0 .. MaxRuns /\ acts \in 0 .. MaxUser

(***************************************************************************)
(* What a restore has put at the destination is the whole chain, whatever  *)
(* failed or died on the way: no delta missing, no half merged tree.       *)
(***************************************************************************)
PublishedIsWhole == destination.by = "restore" => destination.tree = Deltas

(***************************************************************************)
(* A restore never takes away what the user has put at the destination,    *)
(* also when they put it there after the check that found it empty.        *)
(***************************************************************************)
UsersDestinationKept ==
  [][destination = Users /\ destination' # Users => acts' = acts + 1]_vars

(***************************************************************************)
(* Something a restore created under its marker keeps the marker: without  *)
(* it no later restore may reclaim it.  The exception is what a later      *)
(* restore has tried to remove and could not.                              *)
(***************************************************************************)
ResidueKeepsItsProof ==
  \A p \in Pids, k \in Kinds :
    entry[p][k].by = "restore" /\ entry[p][k].proved => marker[p] = "ours"

(***************************************************************************)
(* When a restore has reclaimed, nothing is left that a dead one left with *)
(* a proof, but for the ids the system has given to other programs, and    *)
(* what could not be removed.                                              *)
(***************************************************************************)
LeftoversAreReclaimed ==
  At("check") =>
    \A p \in DeadPids, k \in Kinds : entry[p][k].by = "restore" => ~entry[p][k].proved

(***************************************************************************)
(* Cleaning up after a crash, at the end of a restore and at the beginning *)
(* of the next: proofs last as long as what they are for, and what has one *)
(* goes.                                                                   *)
(***************************************************************************)
ResidueIsReclaimed == ResidueKeepsItsProof /\ LeftoversAreReclaimed

(***************************************************************************)
(* A restore removes an entry it did not create in two cases only: its own *)
(* claimed name, once that was handed to the archive pipeline, and a name  *)
(* of a dead restore whose marker is there.  In particular, a name that    *)
(* was taken when the restore came, or was taken from it while it claimed, *)
(* is left alone.                                                          *)
(***************************************************************************)
StrangersAreLeftAlone ==
  [][\A p \in Pids, k \in Kinds :
       entry[p][k] = Users /\ entry'[p][k] # Users =>
         \/ p = run.pid /\ run.staging = "claimed" /\ ~At("claimOverlay")
         \/ p # run.pid /\ marker[p] = "ours" /\ p \notin run.busy]_vars

(***************************************************************************)
(* A restore takes away nothing that is not a restore's: not what the user *)
(* put at the destination, and not what somebody put at one of its names.  *)
(***************************************************************************)
OthersAreLeftAlone == UsersDestinationKept /\ StrangersAreLeftAlone

=============================================================================
