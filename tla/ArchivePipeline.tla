-------------------------- MODULE ArchivePipeline --------------------------
(***************************************************************************)
(* One archive, from the source directory to a restored one.  The source   *)
(* is walked and listed, hashed when the archive is a snapshot of a chain, *)
(* and packed file by file while the user goes on working in it; the       *)
(* archive is published, may be damaged, and is restored by a process that *)
(* may fail or die at any step.                                            *)
(***************************************************************************)
EXTENDS PackedStream

CONSTANTS Sources,    \* source trees: path -> what the user has there
          Exclusions, \* sets of paths the filter of the backup excludes
          Streams,    \* streams other writers of the formats have made
          Edits       \* how often the user changes the source

\* A tree says of each path what is there: a file with data or without, or
\* another name of its first file ("same").
ASSUME ArchiveAssumption ==
  /\ Edits \in Nat
  /\ \A tree \in Sources :
       /\ tree \in [1 .. Last -> {"none", "directory", "file", "empty", "same",
                                 "symlink", "fifo", "socket"}]
       /\ \A p \in 1 .. Last : tree[p] = "same" => \E q \in 1 .. Last : tree[q] = "file"
  /\ Exclusions \subseteq SUBSET (1 .. Last)  \* never the source root itself
  /\ Streams \subseteq Seq(StreamMembers) \ {<<>>}

Methods == {"v01", "mypack", "ustar", "snapshot"}
Format(m) == IF m = "snapshot" THEN "mypack" ELSE m
Nodes == 1 .. Last + 1 + Edits  \* inodes; 0 is none

VARIABLES
  names,    \* path -> its inode
  nodes,    \* inode -> kind, time, data, and every data it ever had
  edits,    \* the changes so far; each leaves its number as time and data
  method,   \* how the archive is made
  excluded, \* the paths the filter excludes
  phase,
  unread,   \* the directory listed last, its names not yet read
  toVisit,  \* paths whose names were read, not yet visited
  entries,  \* the entries listed
  hashed,   \* how many of them are done with in the phase at hand
  reader,   \* the open source file and what was read of it
  archive,  \* the archive file
  damaged,  \* what happened to it since
  disk,     \* the tree the restore is writing
  at,       \* members of the stream restored
  links,    \* hard links not made yet
  directories, \* members whose directory has no metadata yet
  target  \* "untouched", "partial" or "complete"

sourceVars == <<names, nodes, edits>>
walkVars == <<method, excluded, unread, toVisit>>
backupVars == <<phase, entries, hashed, reader>>
restoreVars == <<disk, at, links, directories, target>>
archiveVars == <<sourceVars, walkVars, backupVars, archive, damaged, restoreVars>>

Nobody == -1
Closed == [node |-> 0, got |-> <<>>]
NoFile == [format |-> "none", count |-> 0, size |-> 0, sum |-> <<>>,
           stream |-> <<>>, tag |-> <<>>]
EmptyDisk == [p \in Paths |-> NoNode]

(***************************************************************************)
(* The source and its user.                                                *)
(***************************************************************************)
NewNode(k, t, d) == [kind |-> k, time |-> t, data |-> d, was |-> {d}]
Gone == NewNode("none", 0, <<>>)
FirstFile(tree) == CHOOSE p \in 1 .. Last :
  tree[p] = "file" /\ \A q \in 1 .. p - 1 : tree[q] # "file"
\* No block of a file is in another, so that a mixture of two is noticed.
NodeFor(p, what) ==
  CASE what = "file" -> NewNode("file", 0, <<-(2 * p), -(2 * p) - 1>>)
    [] what = "empty" -> NewNode("file", 0, <<>>)
    [] what \in {"none", "same"} -> Gone
    [] OTHER -> NewNode(what, 0, <<>>)

KindOf(p) == IF names[p] = 0 THEN "none" ELSE nodes[names[p]].kind
ShareCount(i) == Cardinality({p \in Paths : names[p] = i})
Edit == edits + 1
FreshNode == Last + 1 + Edit

UserMayEdit == phase \in {"walk", "hash", "recheck", "pack"} /\ edits < Edits
Edited(newNames, newNodes) ==
  /\ names' = newNames /\ nodes' = newNodes /\ edits' = Edit
  /\ UNCHANGED <<walkVars, backupVars, archive, damaged, restoreVars>>
Rewritten(i, d, t) == [nodes EXCEPT ![i].data = d, ![i].time = t, ![i].was = @ \cup {d}]
LinkedFiles == {i \in Nodes : nodes[i].kind = "file" /\ ShareCount(i) > 0}

WriteInPlace ==
  /\ UserMayEdit
  /\ \E i \in LinkedFiles :
       \E d \in {[nodes[i].data EXCEPT ![b] = Edit] : b \in DOMAIN nodes[i].data}
                \cup {SubSeq(nodes[i].data, 1, n) : n \in 0 .. Len(nodes[i].data) - 1}
                \cup {Append(nodes[i].data, Edit)} :
         /\ Len(d) <= 2
         \* utimensat can put the old time back; then only the digests help.
         /\ \E t \in {Edit} \cup (IF method = "snapshot" THEN {nodes[i].time} ELSE {}) :
              Edited(names, Rewritten(i, d, t))
RemovePath ==
  /\ UserMayEdit
  /\ \E p \in 1 .. Last :
       /\ names[p] # 0 /\ \A q \in Children(p) : names[q] = 0
       /\ Edited([names EXCEPT ![p] = 0], nodes)
PutNewEntry ==
  /\ UserMayEdit
  /\ \E p \in 1 .. Last, k \in {"file", "symlink"} :
       /\ KindOf(Parent[p]) = "directory" /\ KindOf(p) # "directory"
       /\ Edited([names EXCEPT ![p] = FreshNode],
                 [nodes EXCEPT ![FreshNode] = NewNode(k, Edit, <<Edit, Edit>>)])
\* Another file of the size and time that were listed, in the place of the listed
\* one, is beyond what v0.1 and MyPack without digests look at.
SameAsListed(e, i) == Len(nodes[i].data) = e.size /\ nodes[i].time = e.time
MoveOver ==
  /\ UserMayEdit
  /\ \E p, q \in 1 .. Last :
       /\ KindOf(p) = "file" /\ KindOf(q) = "file" /\ names[p] # names[q]
       /\ method \in {"v01", "mypack"} =>
            \A k \in DOMAIN entries : LET e == entries[k] IN
              e.path = p /\ e.node # names[q] => ~SameAsListed(e, names[q])
       /\ Edited([names EXCEPT ![p] = names[q], ![q] = 0], nodes)

(***************************************************************************)
(* Listing the source: WalkDirectory and ArchiveEntryBuilder.              *)
(***************************************************************************)
Fail ==
  /\ phase' = "failed"
  /\ reader' = Closed
  /\ archive' = NoFile  \* the file is unlinked, or never had its name
  /\ UNCHANGED <<sourceVars, walkVars, entries, hashed, damaged, restoreVars>>

\* Mutated: a hard link names the path listed last.
LatestNameOf(i) == LET same == {j \in DOMAIN entries :
                                  entries[j].kind \in {"file", "hardlink"}
                                  /\ entries[j].node = i /\ entries[j].shared}
                   IN  IF same = {} \/ method = "v01" THEN 0
                       ELSE CHOOSE j \in same : \A k \in same : k <= j

\* seen_inodes_: the entry of the file of which inode i is another name, or 0.
FirstNameOf(i) == LET same == {j \in DOMAIN entries : entries[j].kind = "file"
                                 /\ entries[j].node = i /\ entries[j].shared}
                  IN  IF same = {} \/ method = "v01" THEN 0
                      ELSE CHOOSE j \in same : \A k \in same : j <= k

EntryOf(p) ==
  LET i == names[p]
      shared == nodes[i].kind = "file" /\ ShareCount(i) > 1
      first == IF shared THEN FirstNameOf(i) ELSE 0
  IN  [path |-> p,
       size |-> Len(nodes[i].data),
       kind |-> IF first # 0 THEN "hardlink" ELSE nodes[i].kind,
       time |-> nodes[i].time, data |-> nodes[i].data, node |-> i,
       shared |-> shared, link |-> IF first # 0 THEN entries[first].path ELSE Root]

Done(i) == Len(archive.stream) = i
NothingHalfPacked == method = "v01" => Done(Len(entries))
Supported(k) == k \in {"directory", "file"} \/ (method # "v01" /\ k # "socket")

Visit ==
  /\ phase = "walk" /\ unread = Nobody /\ toVisit # {} /\ NothingHalfPacked
  /\ LET p == CHOOSE q \in toVisit : \A r \in toVisit : q <= r
     IN  IF p \in excluded /\ names[p] # 0
         THEN /\ toVisit' = toVisit \ {p}
              /\ UNCHANGED <<sourceVars, backupVars, method, excluded, unread, archive,
                             damaged, restoreVars>>
         ELSE IF names[p] = 0 \/ ~Supported(KindOf(p)) THEN Fail
         ELSE /\ entries' = Append(entries, EntryOf(p))
              /\ toVisit' = toVisit \ {p}
              /\ unread' = IF KindOf(p) = "directory" THEN p ELSE Nobody
              /\ UNCHANGED <<sourceVars, phase, hashed, reader, method, excluded, archive,
                             damaged, restoreVars>>

ReadNames ==
  /\ phase = "walk" /\ unread # Nobody /\ NothingHalfPacked
  /\ IF KindOf(unread) # "directory" THEN Fail
     ELSE /\ toVisit' = toVisit \cup {q \in Children(unread) : names[q] # 0}
          /\ unread' = Nobody
          /\ UNCHANGED <<sourceVars, backupVars, method, excluded, archive, damaged,
                         restoreVars>>

AllListed == phase = "walk" /\ unread = Nobody /\ toVisit = {} /\ NothingHalfPacked
EndWalk ==
  /\ AllListed /\ method # "v01"
  /\ phase' = IF method = "snapshot" THEN "hash" ELSE "pack"
  /\ UNCHANGED <<sourceVars, walkVars, entries, hashed, reader, archive, damaged,
                 restoreVars>>

(***************************************************************************)
(* Reading source files, to hash them and to pack them.                    *)
(***************************************************************************)
FilesToHash == {i \in DOMAIN entries : i > hashed /\ entries[i].kind = "file"}
NextToHash == CHOOSE i \in FilesToHash : \A j \in FilesToHash : i <= j
Packing == phase = "pack" \/ (phase = "walk" /\ method = "v01")
NextToPack == Len(archive.stream) + 1
OpenNode == nodes[reader.node]

\* O_NOFOLLOW; v0.1 follows a link, but then reads a file that has another time.
OpenSource(i) ==
  IF KindOf(entries[i].path) # "file" THEN Fail
  ELSE /\ reader' = [node |-> names[entries[i].path], got |-> <<>>]
       /\ UNCHANGED <<sourceVars, walkVars, phase, entries, hashed, archive, damaged,
                      restoreVars>>
ReadBlock ==
  /\ reader' = [reader EXCEPT !.got = Append(@, OpenNode.data[Len(@) + 1])]
  /\ UNCHANGED <<sourceVars, walkVars, phase, entries, hashed, archive, damaged,
                 restoreVars>>

HashFile ==
  /\ phase = "hash" /\ FilesToHash # {}
  /\ \/ reader = Closed /\ OpenSource(NextToHash)
     \/ reader # Closed /\ Len(reader.got) < Len(OpenNode.data) /\ ReadBlock
     \/ /\ reader # Closed /\ Len(reader.got) >= Len(OpenNode.data)
        /\ entries' = [entries EXCEPT ![NextToHash].data = reader.got]
        /\ hashed' = NextToHash
        /\ reader' = Closed
        /\ UNCHANGED <<sourceVars, walkVars, phase, archive, damaged, restoreVars>>

\* The size and the time of every file are those listed, after all were hashed.
Recheck ==
  /\ (phase = "hash" /\ FilesToHash = {}) \/ phase = "recheck"
  /\ LET at0 == IF phase = "hash" THEN 0 ELSE hashed
         left == {i \in DOMAIN entries : i > at0 /\ entries[i].kind = "file"}
         e == entries[CHOOSE i \in left : \A j \in left : i <= j]
     IN  IF left = {}
         THEN /\ phase' = "pack" /\ hashed' = 0
              /\ UNCHANGED <<sourceVars, walkVars, entries, reader, archive, damaged,
                             restoreVars>>
         ELSE IF KindOf(e.path) # "file" \/ ~SameAsListed(e, names[e.path]) THEN Fail
         ELSE /\ phase' = "recheck"
              /\ hashed' = CHOOSE i \in left : \A j \in left : i <= j
              /\ UNCHANGED <<sourceVars, walkVars, entries, reader, archive, damaged,
                             restoreVars>>

(***************************************************************************)
(* Packing.                                                                *)
(***************************************************************************)
Pack(m) ==
  /\ archive' = [archive EXCEPT !.stream = Append(@, m)]
  /\ reader' = Closed
  /\ UNCHANGED <<sourceVars, walkVars, phase, entries, hashed, damaged, restoreVars>>

\* MyPack does not open a file that was listed as empty, nor compare its digest.
ListedData(e) == IF e.kind = "file" /\ e.size = 0 THEN <<>> ELSE e.data
WithoutPayload(e) ==
  e.kind # "file" \/ (Format(method) = "mypack" /\ e.size = 0)
PackHeader ==
  /\ Packing /\ NextToPack <= Len(entries) /\ reader = Closed
  /\ LET e == entries[NextToPack]
     IN  /\ WithoutPayload(e)
         /\ IF /\ method = "snapshot" /\ e.kind \in {"symlink", "fifo"}
               /\ \/ KindOf(e.path) # e.kind
                  \/ e.kind = "symlink" /\ nodes[names[e.path]].data # e.data
            THEN Fail
            ELSE Pack(IF e.kind = "hardlink" THEN LinkMember(e.path, e.link)
                      ELSE Member(e.path, e.kind, e.time, ListedData(e)))

\* Mutated: neither another inode nor another content is noticed.
SizeAndTimeOnly(e) == SameAsListed(e, reader.node)

\* What the file is after it was read: WriteFilePayload, CopyVerifiedPayload,
\* WriteRegularPayload.
PayloadIsListed(e) ==
  /\ SameAsListed(e, reader.node)
  /\ method = "ustar" => reader.node = e.node
  /\ method = "snapshot" => reader.got = e.data
PackFile ==
  /\ Packing /\ NextToPack <= Len(entries)
  /\ LET e == entries[NextToPack]
     IN  /\ ~WithoutPayload(e)
         /\ \/ reader = Closed /\ OpenSource(NextToPack)
            \/ /\ reader # Closed /\ Len(reader.got) < e.size
               /\ IF Len(reader.got) >= Len(OpenNode.data) THEN Fail ELSE ReadBlock
            \/ /\ reader # Closed /\ Len(reader.got) = e.size
               /\ IF PayloadIsListed(e) THEN Pack(Member(e.path, "file", e.time, reader.got))
                  ELSE Fail

\* RunBackupPipelineFromEntries: the header, the checksum and, with a password,
\* the tag; the file gets its name when it is complete.  v0.1 writes the number
\* of entries into its header.
Seal(a) == <<a.count, a.size, a.stream>>
Sealed(a, count, withPassword) ==
  LET b == [a EXCEPT !.count = count, !.size = Len(a.stream), !.sum = a.stream]
  IN  [b EXCEPT !.tag = IF withPassword THEN Seal(b) ELSE <<>>]
PublishArchive ==
  /\ \/ AllListed /\ method = "v01"
     \/ phase = "pack" /\ NextToPack > Len(entries)
  /\ phase' = "published"
  /\ \E withPassword \in IF method = "v01" THEN {FALSE} ELSE BOOLEAN :
       archive' = Sealed(archive, Len(entries), withPassword)
  /\ names' = [p \in Paths |-> 0] /\ nodes' = [i \in Nodes |-> Gone] /\ edits' = 0
  /\ UNCHANGED <<walkVars, entries, hashed, reader, damaged, restoreVars>>

\* What a process that dies leaves of v0.1 has no number of entries yet; of the
\* others, a working directory without an archive.
BackupDies ==
  /\ phase \in {"walk", "hash", "recheck", "pack"}
  /\ reader' = Closed
  /\ IF method = "v01" THEN phase' = "published" /\ damaged' = "unfinished"
                            /\ archive' = [archive EXCEPT !.size = Len(archive.stream)]
     ELSE phase' = "failed" /\ damaged' = damaged /\ archive' = NoFile
  /\ names' = [p \in Paths |-> 0] /\ nodes' = [i \in Nodes |-> Gone] /\ edits' = 0
  /\ UNCHANGED <<walkVars, entries, hashed, restoreVars>>

(***************************************************************************)
(* Restoring.                                                              *)
(***************************************************************************)
Altered(s) == [s EXCEPT ![Len(s)].time = @ + 1]
Damage ==
  /\ phase = "published" /\ damaged = "no"
  /\ LET s == archive.stream
     IN  \/ damaged' = "altered" /\ archive' = [archive EXCEPT !.stream = Altered(s)]
         \/ damaged' = "cut" /\ archive' = [archive EXCEPT !.stream = SubSeq(s, 1, Len(s) - 1)]
         \/ damaged' = "longer" /\ archive' = [archive EXCEPT !.stream = Append(s, s[1])]
         \/ damaged' = "header" /\ archive' = [archive EXCEPT !.count = @ + 1]
         \/ damaged' = "sum" /\ archive' = [archive EXCEPT !.sum = <<>>]
  /\ UNCHANGED <<sourceVars, walkVars, backupVars, restoreVars>>

\* Mutated: the checksum is compared after the tree was restored.
ReadableUnsummed(a, rightPassword) == Accepts(a.format, a.stream) /\ a.count = Len(a.stream)

\* RunRestorePipeline up to the first file it creates: the size, the checksum and
\* the tag before anything is decoded, then the whole stream before anything of
\* it is restored.
Readable(a, rightPassword) ==
  /\ a.format # "v01" =>
       /\ a.size = Len(a.stream) /\ a.sum = a.stream
       /\ a.tag # <<>> => rightPassword /\ a.tag = Seal(a)
  /\ Accepts(a.format, a.stream)
  /\ a.count = Len(a.stream)

Skeleton(s) ==
  [p \in Paths |->
     IF p \in Implied(s) \/ KindAt(s, p) = "directory" THEN ImpliedDirectory ELSE NoNode]
Open ==
  /\ phase = "published"
  /\ \E rightPassword \in BOOLEAN :
       IF Readable(archive, rightPassword)
       THEN /\ phase' = "restore"
            /\ disk' = IF archive.format = "v01"
                       THEN [EmptyDisk EXCEPT ![Root] = ImpliedDirectory]
                       ELSE Skeleton(archive.stream)
            /\ target' = IF archive.format = "v01" THEN "partial" ELSE target
       ELSE phase' = "refused" /\ UNCHANGED <<disk, target>>
  /\ at' = 0 /\ links' = {}
  /\ directories' = {i \in DOMAIN archive.stream : archive.stream[i].kind = "directory"}
  /\ UNCHANGED <<sourceVars, walkVars, entries, hashed, reader, archive, damaged>>

RestoreFails(why) ==
  /\ phase' = why
  /\ UNCHANGED <<sourceVars, walkVars, entries, hashed, reader, archive, damaged,
                 restoreVars>>
Reachable(d, p) == \A q \in Ancestors[p] :
  d[q].kind = "directory" /\ d[q].data # Shut
Created(p, node) ==
  disk' = [disk EXCEPT ![p] = node,
                       ![IF p = Root THEN Root ELSE Parent[p]].time = Untold]

\* CreateLeafEntry, or the loop of ArchiveReader::Extract.
RestoreMember ==
  /\ phase = "restore" /\ at < Len(archive.stream)
  /\ LET m == archive.stream[at + 1]
         made == m.kind # "directory" \/ (archive.format = "v01" /\ m.path # Root)
     IN  IF m.kind = "hardlink" \/ ~made
         THEN /\ links' = IF m.kind = "hardlink" THEN links \cup {at + 1} ELSE links
              /\ at' = at + 1
              /\ UNCHANGED <<sourceVars, walkVars, backupVars, archive, damaged, disk,
                             directories, target>>
         ELSE IF disk[m.path].kind # "none" \/ ~Reachable(disk, m.path)
         THEN RestoreFails("stuck")
         ELSE /\ Created(m.path, IF m.kind = "directory" THEN ImpliedDirectory ELSE NodeOf(m))
              /\ at' = at + 1
              /\ UNCHANGED <<sourceVars, walkVars, backupVars, archive, damaged, links,
                             directories, target>>

\* Rounds over the hard links whose target is there by now.
MakeLink ==
  /\ phase = "restore" /\ at = Len(archive.stream) /\ links # {}
  /\ LET s == archive.stream
         ready == {i \in links : disk[s[i].link].kind # "none"}
         i == CHOOSE j \in ready : \A k \in ready : j <= k
     IN  IF ready = {} \/ disk[s[i].path].kind # "none" \/ disk[s[i].link].kind = "directory"
         THEN RestoreFails("stuck")
         ELSE /\ Created(s[i].path, disk[s[i].link])
              /\ links' = links \ {i}
              /\ UNCHANGED <<sourceVars, walkVars, backupVars, archive, damaged, at,
                             directories, target>>

\* Mutated: directories get their metadata in the order of the stream.
FirstListed(s, left) == CHOOSE i \in left : \A j \in left : i <= j

\* SortDirectoriesDeepestFirst.
NextDirectory(s, left) ==
  CHOOSE i \in left : \A j \in left :
    \/ Depth(s[i].path) > Depth(s[j].path)
    \/ Depth(s[i].path) = Depth(s[j].path) /\ s[i].path >= s[j].path
SetMetadata ==
  /\ phase = "restore" /\ at = Len(archive.stream) /\ links = {} /\ directories # {}
  /\ LET i == NextDirectory(archive.stream, directories)
         m == archive.stream[i]
     IN  IF ~Reachable(disk, m.path) THEN RestoreFails("stuck")
         ELSE /\ disk' = [disk EXCEPT ![m.path] = NodeOf(m)]
              /\ directories' = directories \ {i}
              /\ UNCHANGED <<sourceVars, walkVars, backupVars, archive, damaged, at, links,
                             target>>
EndRestore ==
  /\ phase = "restore" /\ at = Len(archive.stream) /\ links = {} /\ directories = {}
  /\ phase' = "restored" /\ target' = "complete"
  /\ UNCHANGED <<sourceVars, walkVars, entries, hashed, reader, archive, damaged, disk, at,
                 links, directories>>

\* A full disk, or the end of the process: a staging directory is removed, or
\* left beside the destination.
RestoreDies == phase = "restore" /\ RestoreFails("died")

(***************************************************************************)
(* The specification.                                                      *)
(***************************************************************************)
AtRest ==
  /\ unread = Nobody /\ entries = <<>> /\ hashed = 0 /\ reader = Closed
  /\ damaged = "no" /\ disk = EmptyDisk /\ at = 0 /\ links = {} /\ directories = {}
  /\ target = "untouched" /\ edits = 0
BackupInit ==
  /\ AtRest
  /\ phase = "walk" /\ toVisit = {Root}
  /\ method \in Methods /\ excluded \in Exclusions
  /\ archive = [NoFile EXCEPT !.format = Format(method)]
  /\ \E tree \in Sources :
       /\ names = [p \in Paths |-> CASE p = Root -> 1
                                     [] p # Root /\ tree[p] = "none" -> 0
                                     [] p # Root /\ tree[p] = "same" -> FirstFile(tree) + 1
                                     [] OTHER -> p + 1]
       /\ nodes = [i \in Nodes |-> CASE i = 1 -> NewNode("directory", 0, <<>>)
                                     [] i \in 2 .. Last + 1 -> NodeFor(i - 1, tree[i - 1])
                                     [] OTHER -> Gone]
\* An archive another writer of a format has made, with the header it should have.
StreamInit ==
  /\ AtRest
  /\ phase = "published" /\ toVisit = {}
  /\ method = "none" /\ excluded = {}
  /\ names = [p \in Paths |-> 0] /\ nodes = [i \in Nodes |-> Gone]
  /\ \E s \in Streams, format \in {"v01", "mypack", "ustar"} :
       archive = Sealed([NoFile EXCEPT !.format = format, !.stream = s], Len(s), FALSE)
ArchiveInit == BackupInit \/ StreamInit

EditStep == WriteInPlace \/ RemovePath \/ PutNewEntry \/ MoveOver
BackupStep ==
  \/ Visit \/ ReadNames \/ EndWalk \/ HashFile \/ Recheck
  \/ PackHeader \/ PackFile \/ PublishArchive \/ BackupDies
ReadBackStep ==
  \/ Damage \/ Open \/ RestoreMember \/ MakeLink \/ SetMetadata \/ EndRestore \/ RestoreDies
ArchiveNext == EditStep \/ BackupStep \/ ReadBackStep
ArchiveSpec == ArchiveInit /\ [][ArchiveNext]_archiveVars

-----------------------------------------------------------------------------
(***************************************************************************)
(* The payload of a file in an archive is what was listed of it, or what   *)
(* was hashed of it if it was not listed as empty, and is the whole        *)
(* content a file had at one moment, never a mixture of two.               *)
(***************************************************************************)
ArchivesHoldWhatWasListed ==
  Packing => \A k \in DOMAIN archive.stream :
    archive.stream[k].kind = "file" =>
      /\ archive.stream[k].data = ListedData(entries[k])
      /\ \E i \in Nodes : archive.stream[k].data \in nodes[i].was

(***************************************************************************)
(* An archive that was published and not damaged is accepted, whatever the *)
(* user did while it was made, and means the tree that was listed: the     *)
(* same paths, and the paths of one file still of one file.                *)
(***************************************************************************)
ListedTree ==
  [p \in Paths |->
     IF \E k \in DOMAIN entries : entries[k].path = p
     THEN LET e == entries[CHOOSE k \in DOMAIN entries : entries[k].path = p]
              same == {k \in DOMAIN entries :
                         /\ method # "v01" /\ e.shared /\ entries[k].shared
                         /\ entries[k].node = e.node}
              first == IF same = {} THEN e
                       ELSE entries[CHOOSE k \in same : \A j \in same : k <= j]
          IN  [kind |-> IF e.kind = "hardlink" THEN "file" ELSE e.kind,
               time |-> first.time, data |-> ListedData(first),
               ino |-> IF first.kind = "file" THEN first.path ELSE Root]
     ELSE NoNode]
Written == method # "none" /\ damaged = "no"
WhatIsWrittenIsAccepted ==
  Written /\ phase = "published" =>
    Readable(archive, TRUE) /\ Meaning(archive.stream) = ListedTree

(***************************************************************************)
(* An archive that is accepted can be restored: the tree on the disk is    *)
(* what the stream means, whatever order its members are in.  ustar lets   *)
(* "." be anything; if it is no directory, the restore fails.              *)
(***************************************************************************)
AcceptedMeansRestored ==
  /\ phase = "stuck" => /\ archive.format = "ustar"
                        /\ KindAt(archive.stream, Root) \notin {"none", "directory"}
  /\ phase = "restored" => disk = Meaning(archive.stream)

(***************************************************************************)
(* A backup reads back: what is written is what was listed, is accepted as *)
(* the tree that was listed, and what is accepted, of whatever writer, is  *)
(* restored.                                                               *)
(***************************************************************************)
BackupsReadBack ==
  ArchivesHoldWhatWasListed /\ WhatIsWrittenIsAccepted /\ AcceptedMeansRestored

(***************************************************************************)
(* A container is restored as a whole or the destination stays as it was,  *)
(* and a damaged one is not restored at all.  v0.1 writes into the         *)
(* target and knows no checksum: only a cut, lengthened or unfinished      *)
(* archive is refused.                                                     *)
(***************************************************************************)
DestinationIsAllOrNothing ==
  /\ archive.format # "v01" =>
       target = (IF phase = "restored" THEN "complete" ELSE "untouched")
  /\ phase \in {"restore", "restored"} /\ damaged # "no" =>
       archive.format = "v01" /\ damaged \in {"altered", "sum"}
=============================================================================
