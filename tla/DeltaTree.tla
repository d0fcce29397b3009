----------------------------- MODULE DeltaTree -----------------------------
(***************************************************************************)
(* What a delta holds, and what restoring it does to a tree.               *)
(*                                                                         *)
(* A manifest lists the source root and the paths below it.  Of the paths  *)
(* that share an inode, the first is the file (the leader), the others are *)
(* hard links to it.  The engine compares the manifest of the baseline     *)
(* with the current one and writes to the delta the paths that             *)
(* changed, and what must go with them; the paths that are gone become     *)
(* tombstones.  The restore has the tree of the baseline in its staging    *)
(* directory: it applies the tombstones, then merges the payload into it,  *)
(* entry by entry, in whatever order readdir lists a directory.            *)
(***************************************************************************)
EXTENDS PathTree

CONSTANTS Stamps,  \* what tells two entries of one kind apart
          MayBe    \* MayBe[p]: the kinds of entry path p may be, besides none

ASSUME DeltaAssumption ==
  /\ Stamps # {}
  /\ MayBe \in [1 .. Last -> SUBSET {"directory", "file", "symlink", "hardlink"}]

(***************************************************************************)
(* Entries.  The stamp of a directory is its mode; of a file, its size,    *)
(* time, content and mode; of a symbolic link, its target and times.  Only *)
(* directories need their modification time apart: it changes by itself    *)
(* when something is created or removed in them.                           *)
(***************************************************************************)
Now == 2
Times == {0, 1, Now}
Nothing == [kind |-> "none", stamp |-> CHOOSE s \in Stamps : TRUE, time |-> 0,
            leader |-> 0]
Directory(s, t) == [Nothing EXCEPT !.kind = "directory", !.stamp = s, !.time = t]
File(s) == [Nothing EXCEPT !.kind = "file", !.stamp = s]
Symlink(s) == [Nothing EXCEPT !.kind = "symlink", !.stamp = s]
HardLink(p) == [Nothing EXCEPT !.kind = "hardlink", !.leader = p]

Present(tree, p) == tree[p].kind # "none"
Links(tree, p) == {q \in Paths : tree[q].kind = "hardlink" /\ tree[q].leader = p}

\* What ScanSourceTree can list.
Entries(time) ==
  {Nothing} \cup {Directory(s, time) : s \in Stamps}
  \cup {File(s) : s \in Stamps} \cup {Symlink(s) : s \in Stamps}
  \cup {HardLink(p) : p \in 1 .. Last}
WellFormed(tree) ==
  /\ \A p \in 1 .. Last : tree[p].kind \in MayBe[p] \cup {"none"}
  /\ \A p \in 1 .. Last : Present(tree, p) => tree[Parent[p]].kind = "directory"
  /\ \A p \in Paths : tree[p].kind = "hardlink" =>
       tree[p].leader < p /\ tree[tree[p].leader].kind = "file"
\* Every directory has another time now, whether something in it changed or not.
Rooted(time) ==
  {[p \in Paths |-> IF p = Root THEN Directory(Nothing.stamp, time) ELSE below[p]] :
     below \in [1 .. Last -> Entries(time)]}
OldManifests == {tree \in Rooted(0) : WellFormed(tree)}
NewManifests == {tree \in Rooted(1) : WellFormed(tree)}

(***************************************************************************)
(* The delta.                                                              *)
(***************************************************************************)
VARIABLES previous, \* the manifest of the baseline
          current,  \* the manifest of the source
          staging,  \* the tree being restored; files carry their inode
          doomed,   \* the tombstones still to apply
          todo,     \* the payload entries still to merge
          opened,   \* the directories whose merge is under way
          inodes    \* leader of a link group -> where it was merged, or 0

deltaVars == <<previous, current, staging, doomed, todo, opened, inodes>>

\* DiffManifests.  Hard links are compared by what they point to, directories
\* not by their time, and a leader also by the number of its links.
Modified(p) ==
  LET old == previous[p]
      new == current[p]
  IN  \/ old.kind # new.kind
      \/ new.kind \in {"file", "symlink"} /\ old.stamp # new.stamp
      \/ new.kind = "hardlink" /\ old.leader # new.leader
MetadataChanged(p) ==
  LET old == previous[p]
      new == current[p]
  IN  /\ new.kind # "hardlink"
      /\ \/ old.stamp # new.stamp
         \/ Cardinality(Links(previous, p)) # Cardinality(Links(current, p))
Changed == {p \in Paths : Modified(p) \/ MetadataChanged(p)}

\* Mutated: a hard link goes alone.
GroupOfOne(tree, p) == {p}

\* HardlinkGroupOf and ExpandHardlinkGroups: a group goes as a whole.
Group(tree, p) ==
  LET leader == IF tree[p].kind = "hardlink" THEN tree[p].leader ELSE p
  IN  {leader} \cup Links(tree, leader)
Expanded ==
  Changed \cup UNION {Group(current, p) : p \in {q \in Changed : Present(current, q)}}

\* BuildChangedEntries: with their ancestors, and the root in any case.
Wanted == {Root} \cup Expanded \cup UNION {Ancestors[p] : p \in Expanded}
Payload == {p \in Wanted : Present(current, p)}
Tombstones == {p \in Paths : Present(previous, p) /\ ~Present(current, p)}

(***************************************************************************)
(* The restore.                                                            *)
(***************************************************************************)
\* The tree on disk: each file has an inode of its own or shares one.
OnDisk(tree) ==
  [p \in Paths |->
     CASE tree[p].kind = "hardlink" ->
            [tree[tree[p].leader] EXCEPT !.leader = tree[p].leader]
       [] tree[p].kind = "file" -> [tree[p] EXCEPT !.leader = p]
       [] OTHER -> tree[p]]

\* What the scanner would list of it.
Listed(tree) ==
  [p \in Paths |->
     IF tree[p].kind # "file" THEN tree[p]
     ELSE LET same == {q \in Paths : tree[q].kind = "file"
                                     /\ tree[q].leader = tree[p].leader}
              first == CHOOSE q \in same : \A r \in same : q <= r
          IN  IF p = first THEN File(tree[p].stamp) ELSE HardLink(first)]

\* Creating or removing something changes the time of its directory.
Touched(tree, p) == [tree EXCEPT ![Parent[p]].time = Now]
RemoveTree(tree, p) ==
  Touched([q \in Paths |-> IF q = p \/ q \in Below(p) THEN Nothing ELSE tree[q]], p)
EnsureRemoved(p) == IF Present(staging, p) THEN RemoveTree(staging, p) ELSE staging
\* A new inode is not one of those the base was restored with.
NewInode(p) == Last + 1 + p

ApplyTombstone(p) ==
  /\ p \in doomed /\ Below(p) \cap doomed = {}
  /\ staging' = IF Present(staging, p) THEN RemoveTree(staging, p) ELSE staging
  /\ doomed' = doomed \ {p}
  /\ UNCHANGED <<previous, current, todo, opened, inodes>>

\* MergeTree goes depth first, so the open directories are the ones above.
Mergeable(p) ==
  /\ doomed = {} /\ p \in todo
  /\ opened = {Parent[p]} \cup Ancestors[Parent[p]]

MergeDirectory(p) ==
  /\ Mergeable(p) /\ current[p].kind = "directory"
  /\ staging' =
       IF staging[p].kind = "directory" THEN staging
       ELSE Touched([EnsureRemoved(p) EXCEPT
                       ![p] = Directory(Nothing.stamp, Now)], p)
  /\ todo' = todo \ {p}
  /\ opened' = opened \cup {p}
  /\ UNCHANGED <<previous, current, doomed, inodes>>

\* The metadata of a directory come last, when everything in it is merged.
LeaveDirectory(p) ==
  /\ doomed = {}
  /\ p \in opened /\ opened = {p} \cup Ancestors[p]
  /\ \A q \in todo : Parent[q] # p
  /\ staging' = [staging EXCEPT ![p] = current[p]]
  /\ opened' = opened \ {p}
  /\ UNCHANGED <<previous, current, doomed, todo, inodes>>

\* MergeNode of a file: the first of a group is copied to a new inode, the
\* others are linked to it.
MergeFile(p) ==
  /\ Mergeable(p) /\ current[p].kind \in {"file", "hardlink"}
  /\ LET leader == IF current[p].kind = "file" THEN p ELSE current[p].leader
         linked == inodes[leader] # 0
         node == IF linked THEN staging[inodes[leader]]
                 ELSE [File(current[leader].stamp) EXCEPT !.leader = NewInode(p)]
     IN  /\ staging' = Touched([EnsureRemoved(p) EXCEPT ![p] = node], p)
         /\ inodes' = IF linked THEN inodes ELSE [inodes EXCEPT ![leader] = p]
  /\ todo' = todo \ {p}
  /\ UNCHANGED <<previous, current, doomed, opened>>

MergeSymlink(p) ==
  /\ Mergeable(p) /\ current[p].kind = "symlink"
  /\ staging' = Touched([EnsureRemoved(p) EXCEPT ![p] = current[p]], p)
  /\ todo' = todo \ {p}
  /\ UNCHANGED <<previous, current, doomed, opened, inodes>>

\* Nothing changed, nothing is written and nothing has to be restored.
DeltaInit ==
  /\ previous \in OldManifests
  /\ current \in NewManifests
  /\ staging = OnDisk(previous)
  /\ doomed = Tombstones
  /\ todo = IF Changed = {} THEN {} ELSE Payload \ {Root}
  /\ opened = IF Changed = {} THEN {} ELSE {Root}
  /\ inodes = [p \in Paths |-> 0]

DeltaNext ==
  \E p \in Paths :
    \/ ApplyTombstone(p)
    \/ MergeDirectory(p) \/ LeaveDirectory(p)
    \/ MergeFile(p) \/ MergeSymlink(p)

DeltaSpec == DeltaInit /\ [][DeltaNext]_deltaVars

Restored == doomed = {} /\ todo = {} /\ opened = {}

-----------------------------------------------------------------------------
DeltaTypeOK ==
  /\ previous \in [Paths -> Entries(0)] /\ current \in [Paths -> Entries(1)]
  /\ \A p \in Paths : staging[p].kind \in {"none", "directory", "file", "symlink"}
                      /\ staging[p].time \in Times
  /\ doomed \subseteq Paths /\ todo \subseteq Paths /\ opened \subseteq Paths
  /\ inodes \in [Paths -> Paths]

(***************************************************************************)
(* The tree restored from the baseline and the delta is the source: the    *)
(* same paths, of the same kinds, with the same contents and metadata, and *)
(* exactly the same paths share an inode.  A directory has the time it has *)
(* in the source, although the restore itself created and removed entries  *)
(* in it; the exception is one in and under which nothing changed, which   *)
(* keeps the time it had in the baseline.                                  *)
(***************************************************************************)
Timeless(tree) ==
  [p \in Paths |-> IF tree[p].kind = "directory" THEN [tree[p] EXCEPT !.time = 0]
                   ELSE tree[p]]
TimesAreRestored ==
  \A p \in Paths :
    current[p].kind = "directory" =>
      \/ staging[p].time = current[p].time
      \/ /\ Changed \cap ({p} \cup Below(p)) = {}
         /\ staging[p].time = previous[p].time
RestoredTreeIsTheSource ==
  Restored => Timeless(Listed(staging)) = Timeless(current) /\ TimesAreRestored
=============================================================================
