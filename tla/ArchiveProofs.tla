---------------------------- MODULE ArchiveProofs ----------------------------
(***************************************************************************)
(* Proofs about an archive: how it is made of a source that a user goes on *)
(* changing, what is published, and what is restored from it.              *)
(*                                                                         *)
(* ArchiveInv, which is inductive, has four parts.  The source: an edit    *)
(* writes what was nowhere before, later than all that was there, so a     *)
(* content and a time say together whether a file is still what was listed *)
(* (SourceInv).  What has been listed and read of it (ListingInv,          *)
(* VisitInv, EntriesInv, ReaderInv, PackInv).  What a published archive is *)
(* and what damage does to it (PublishedInv).  What the destination holds, *)
(* path by path, while a stream is restored into it (TargetInv,            *)
(* ReadingInv).                                                            *)
(***************************************************************************)
EXTENDS ArchivePipeline, SequenceTheorems, FiniteSetTheorems,
        WellFoundedInduction, TLAPS

USE TreeAssumption

-----------------------------------------------------------------------------
(***************************************************************************)
(* The invariant.                                                          *)
(***************************************************************************)
Backing == phase \in {"walk", "hash", "recheck", "pack"}
NodeRecords ==
  [kind : {"none", "file", "directory", "symlink", "fifo", "socket"},
   time : Nat, data : Seq(Int), was : SUBSET Seq(Int)]
EntryRecords ==
  [path : Paths, size : Nat,
   kind : {"directory", "file", "symlink", "fifo", "hardlink"},
   time : Nat, data : Seq(Int), node : Nodes, shared : BOOLEAN, link : Paths]

ArchiveTypes ==
  /\ names \in [Paths -> {0} \cup Nodes] /\ nodes \in [Nodes -> NodeRecords]
  /\ edits \in 0 .. Edits
  /\ method \in Methods \cup {"none"} /\ (Backing => method \in Methods)
  /\ phase \in {"walk", "hash", "recheck", "pack", "failed", "published", "refused",
                "restore", "restored", "stuck", "died"}
  /\ excluded \subseteq 1 .. Last
  /\ toVisit \subseteq Paths /\ unread \in {Nobody} \cup Paths
  /\ entries \in Seq(EntryRecords) /\ hashed \in Nat
  /\ reader \in [node : {0} \cup Nodes, got : Seq(Int)]
  /\ archive.stream \in Seq(StreamMembers)
  /\ phase # "failed" => archive.format \in {"v01", "mypack", "ustar"}

(***************************************************************************)
(* The source.  Every edit writes what was nowhere before, and is later    *)
(* than all that was there.                                                *)
(***************************************************************************)
SourceInv ==
  /\ names[Root] = 1 /\ nodes[1].kind = "directory"
  /\ \A p \in Paths : names[p] # 0 => nodes[names[p]].kind # "none"
  /\ \A p \in Paths : names[p] <= Last + 1 + edits
  /\ \A i \in Nodes : i > Last + 1 + edits => nodes[i].data = <<>>
  /\ \A i \in Nodes :
       /\ nodes[i].data \in nodes[i].was /\ nodes[i].time <= edits
       /\ \A b \in DOMAIN nodes[i].data : nodes[i].data[b] <= edits
  /\ \A i, j \in Nodes : \A b \in DOMAIN nodes[i].data \cap DOMAIN nodes[j].data :
       nodes[i].data[b] = nodes[j].data[b] => i = j

\* A content some file had; a block that no file has any more.
Whole(d) == \E i \in Nodes : i <= Last + 1 + edits /\ d \in nodes[i].was
Lost(v, b) ==
  /\ v <= edits
  /\ \A i \in Nodes : b \in DOMAIN nodes[i].data => nodes[i].data[b] # v
Settled(d) == Whole(d) \/ \E b \in DOMAIN d : Lost(d[b], b)

(***************************************************************************)
(* What was listed.                                                        *)
(***************************************************************************)
IsListing(s) ==
  /\ s # <<>> => s[1].path = Root /\ s[1].kind = "directory"
  /\ \A j, k \in DOMAIN s : j < k => s[j].path < s[k].path
  /\ \A k \in DOMAIN s : k # 1 =>
       \E j \in 1 .. k - 1 : s[j].path = Parent[s[k].path] /\ s[j].kind = "directory"
SharedFile(e, i) == e.kind = "file" /\ e.node = i /\ e.shared
ListingInv ==
  /\ IsListing(entries)
  /\ \A k \in DOMAIN entries : LET e == entries[k] IN
       /\ e.kind = "hardlink" =>
            /\ method # "v01" /\ e.shared
            /\ \E j \in 1 .. k - 1 : SharedFile(entries[j], e.node) /\ e.link = entries[j].path
       /\ method = "v01" => e.kind \in {"directory", "file"}
       /\ e.shared => e.kind \in {"file", "hardlink"}
  /\ method # "v01" =>
       \A j, k \in DOMAIN entries :
         SharedFile(entries[j], entries[k].node) /\ SharedFile(entries[k], entries[k].node)
         => j = k
VisitInv ==
  /\ phase # "walk" => entries # <<>>
  /\ phase = "walk" =>
     /\ entries = <<>> => toVisit = {Root} /\ unread = Nobody
     /\ entries # <<>> => \A q \in toVisit :
          /\ \A k \in DOMAIN entries : entries[k].path < q
          /\ \E k \in DOMAIN entries :
               entries[k].path = Parent[q] /\ entries[k].kind = "directory"
     /\ unread # Nobody =>
          /\ \A k \in DOMAIN entries : entries[k].path <= unread
          /\ \E k \in DOMAIN entries :
               entries[k].path = unread /\ entries[k].kind = "directory"

\* What the entries say of the files they were made of.

EntriesInv ==
  \A k \in DOMAIN entries : LET e == entries[k] IN
    /\ e.time <= edits
    /\ e.kind = "file" /\ e.size = 0 => Whole(<<>>)
    /\ method # "snapshot" /\ SameAsListed(e, e.node) => nodes[e.node].data = e.data
    /\ method \in {"v01", "mypack"} /\ names[e.path] # 0 /\ SameAsListed(e, names[e.path]) =>
         nodes[names[e.path]].data = e.data
    /\ /\ phase \in {"recheck", "pack"} \/ (phase = "hash" /\ k <= hashed)
       /\ method = "snapshot" /\ e.kind = "file"
       => Settled(e.data)

(***************************************************************************)
(* The open file.                                                          *)
(***************************************************************************)
Begins(d, whole) == Len(d) <= Len(whole) /\ \A b \in DOMAIN d : d[b] = whole[b]
ReaderInv ==
  /\ reader = Closed \/ reader.node \in 1..Last + 1 + edits
  /\ reader # Closed =>
       \/ phase = "hash" /\ FilesToHash # {}
       \/ Packing /\ NextToPack <= Len(entries) /\ ~WithoutPayload(entries[NextToPack])
  /\ reader # Closed /\ method # "snapshot" =>
       LET e == entries[NextToPack] IN
       /\ Begins(reader.got, OpenNode.data) \/ OpenNode.time > e.time
       /\ method \in {"v01", "mypack"} /\ SameAsListed(e, reader.node) => OpenNode.data = e.data
  /\ reader # Closed /\ phase = "hash" =>
       \A b \in DOMAIN reader.got :
         \/ b \in DOMAIN OpenNode.data /\ OpenNode.data[b] = reader.got[b]
         \/ Lost(reader.got[b], b)
  /\ method = "snapshot" /\ phase = "pack" =>
       \A k \in DOMAIN entries : LET e == entries[k] IN e.kind = "file" =>
         \/ Whole(e.data)
         \/ \E b \in DOMAIN e.data :
              /\ Lost(e.data[b], b)
              /\ b \in DOMAIN reader.got => reader.got[b] # e.data[b]

(***************************************************************************)
(* What was packed.                                                        *)
(***************************************************************************)
MemberOf(e) == IF e.kind = "hardlink" THEN LinkMember(e.path, e.link)
               ELSE Member(e.path, e.kind, e.time, ListedData(e))
PackedSoFar ==
  /\ Len(archive.stream) <= Len(entries)
  /\ \A k \in DOMAIN archive.stream : archive.stream[k] = MemberOf(entries[k])
PackInv ==
  /\ archive = [NoFile EXCEPT !.format = Format(method), !.stream = archive.stream]
  /\ damaged = "no"
  /\ PackedSoFar
  /\ ~Packing => archive.stream = <<>>
  /\ method = "v01" => phase = "walk"
  /\ phase = "walk" => hashed = 0
  /\ phase \in {"hash", "recheck"} => method = "snapshot"
  /\ \A k \in DOMAIN archive.stream :
       archive.stream[k].kind = "file" => Whole(archive.stream[k].data)

BackingInv ==
  Backing => SourceInv /\ VisitInv /\ EntriesInv /\ ReaderInv /\ PackInv

(***************************************************************************)
(* The file that was published, and what may have happened to it.          *)
(***************************************************************************)
IsArchiveFile(a) ==
  a = [format |-> a.format, count |-> a.count, size |-> a.size, sum |-> a.sum,
       stream |-> a.stream, tag |-> a.tag]
IsSealed(a) ==
  /\ a.count = Len(a.stream) /\ a.size = Len(a.stream) /\ a.sum = a.stream
  /\ a.tag = <<>> \/ a.tag = Seal(a)
Hurt(a) ==
  CASE damaged = "no" -> IsSealed(a)
    [] damaged = "altered" -> a.sum # a.stream
    [] damaged \in {"cut", "longer", "header"} -> a.count # Len(a.stream)
    [] damaged = "sum" -> a.sum = <<>>
    [] damaged = "unfinished" -> a.count = 0
    [] OTHER -> FALSE
PublishedInv ==
  phase = "published" =>
    /\ IsArchiveFile(archive) /\ Hurt(archive) /\ (damaged = "no" => archive.stream # <<>>)
    /\ method = "none" \/ archive.format = Format(method)
    /\ Written => PackedSoFar /\ Len(archive.stream) = Len(entries) /\ entries # <<>>

(***************************************************************************)
(* The destination.                                                        *)
(***************************************************************************)
TargetInv ==
  /\ phase \notin {"restore", "restored", "stuck", "died"} => target = "untouched"
  /\ DestinationIsAllOrNothing

(***************************************************************************)
(* The tree on the disk while a stream is restored.                        *)
(***************************************************************************)
DirectoriesOf(s) == {i \in DOMAIN s : s[i].kind = "directory"}
LinkedTo(s, p) == NodeOf(MemberAt(s, EndOfChain(s, p)))
DiskOf(s, i) ==
  LET p == s[i].path
      made == p # Root /\ i <= at /\ i \notin links IN
  CASE s[i].kind = "directory" /\ i \notin directories -> NodeOf(s[i])
    [] s[i].kind = "directory" /\ i \in directories ->
         IF archive.format = "v01" /\ p # Root /\ i > at THEN NoNode ELSE ImpliedDirectory
    [] s[i].kind # "directory" /\ p = Root -> ImpliedDirectory
    [] s[i].kind # "directory" /\ p # Root ->
         IF ~made THEN NoNode
         ELSE IF s[i].kind = "hardlink" THEN LinkedTo(s, p) ELSE NodeOf(s[i])
DiskInv(s) ==
  /\ disk = [p \in Paths |-> disk[p]]
  /\ \A p \in Paths \ PathsOf(s) :
       disk[p] = IF p \in Implied(s) THEN ImpliedDirectory ELSE NoNode
  /\ \A i \in DOMAIN s : disk[s[i].path] = DiskOf(s, i)
ProgressInv(s) ==
  /\ at \in 0 .. Len(s) /\ directories \subseteq DirectoriesOf(s)
  /\ links \subseteq LinksOf(s) /\ \A i \in links : i <= at
  /\ at < Len(s) => links = {i \in LinksOf(s) : i <= at}
  /\ at < Len(s) \/ links # {} => directories = DirectoriesOf(s)
  /\ \A i \in directories, j \in DirectoriesOf(s) :
       s[j].path \in Ancestors[s[i].path] => j \in directories
  /\ \A r \in DOMAIN s : s[r].path = Root /\ s[r].kind # "directory" => r > at \/ r \in links
ReadingInv ==
  phase = "restore" =>
    /\ Accepts(archive.format, archive.stream)
    /\ DiskInv(archive.stream) /\ ProgressInv(archive.stream)

ArchiveInv ==
  /\ ArchiveTypes /\ ListingInv /\ BackingInv /\ PublishedInv /\ TargetInv
  /\ ReadingInv /\ AcceptedMeansRestored

USE TreeAssumption

-----------------------------------------------------------------------------
(***************************************************************************)
(* Paths and their ancestors, as in RestoreProofs.                         *)
(***************************************************************************)

LEMMA LeastNumber ==
    ASSUME NEW T \in SUBSET Nat, T # {}
    PROVE  \E x \in T : \A y \in T : x <= y
  <1>1. PICK x \in T : \A y \in T : ~(<<y, x>> \in OpToRel(<, Nat))
    BY NatLessThanWellFounded, WFMin
  <1>r. PICK R : R = {ss \in Nat \X Nat : ss[1] < ss[2]}
    OBVIOUS
  <1>2. R = OpToRel(<, Nat)
    BY <1>r DEF OpToRel
  <1>3. \A y \in T : ~(<<y, x>> \in R)
    BY <1>1, <1>2
  <1>4. \A y \in T : ~(y < x)
    BY <1>3, <1>r
  <1> QED
    BY <1>4

LEMMA NatInduct ==
    ASSUME NEW S, 0 \in S, \A k \in Nat : k \in S => k + 1 \in S
    PROVE  Nat \subseteq S
  <1> SUFFICES ASSUME Nat \ S # {} PROVE FALSE
    OBVIOUS
  <1>1. PICK x \in Nat \ S : \A y \in Nat \ S : x <= y
    <2>1. Nat \ S \in SUBSET Nat
      OBVIOUS
    <2> QED
      BY <2>1, LeastNumber
  <1>2. x # 0 /\ x - 1 \in Nat
    BY <1>1
  <1>3. x - 1 \in S
    BY <1>1, <1>2
  <1> QED
    BY <1>1, <1>2, <1>3


AncestorsTo(f, k) == f = [p \in 0..k |-> IF p = Root THEN {} ELSE {Parent[p]} \cup f[Parent[p]]]

LEMMA AncestorsExist ==
    ASSUME NEW n \in Nat, n <= Last
    PROVE  \E f : AncestorsTo(f, n)
  <1>s. PICK S : S = {k \in Nat : k <= Last => \E f : AncestorsTo(f, k)}
    OBVIOUS
  <1>1. 0 \in S
    <2>1. AncestorsTo([p \in 0..0 |-> {}], 0)
      BY DEF AncestorsTo, Root
    <2>. QED
      BY <1>s, <2>1
  <1>2. ASSUME NEW k \in Nat, k \in S PROVE k + 1 \in S
    <2>. SUFFICES ASSUME k + 1 <= Last PROVE \E f : AncestorsTo(f, k + 1)
      BY <1>s
    <2>f. PICK f : AncestorsTo(f, k)
      BY <1>s, <1>2
    <2>1. \A p \in 0..k : f[p] = IF p = Root THEN {} ELSE {Parent[p]} \cup f[Parent[p]]
      BY <2>f DEF AncestorsTo
    <2>2. \A p \in 1..k + 1 : Parent[p] \in 0..k
      BY DEF Paths
    <2>g. PICK g : g = [p \in 0..k + 1 |->
                          IF p <= k THEN f[p] ELSE {Parent[p]} \cup f[Parent[p]]]
      OBVIOUS
    <2>3. \A p \in 0..k : g[p] = f[p]
      BY <2>g
    <2>h. PICK h : h = [p \in 0..k + 1 |-> IF p = Root THEN {} ELSE {Parent[p]} \cup g[Parent[p]]]
      OBVIOUS
    <2>4. ASSUME NEW p \in 0..k + 1 PROVE g[p] = h[p]
      <3>1. CASE p = Root
        <4>1. p \in 0..k /\ h[p] = {}
          BY <2>h, <3>1 DEF Root
        <4>2. f[p] = {}
          BY <2>1, <3>1, <4>1
        <4>. QED
          BY <2>3, <4>1, <4>2
      <3>2. CASE p # Root
        <4>1. p \in 1..k + 1 /\ Parent[p] \in 0..k
          BY <2>2, <3>2 DEF Root
        <4>2. h[p] = {Parent[p]} \cup f[Parent[p]]
          BY <2>h, <2>3, <3>2, <4>1
        <4>3. CASE p <= k
          <5>1. p \in 0..k
            BY <4>1, <4>3
          <5>2. f[p] = {Parent[p]} \cup f[Parent[p]]
            BY <2>1, <3>2, <5>1
          <5>. QED
            BY <2>3, <4>2, <5>1, <5>2
        <4>4. CASE ~(p <= k)
          <5>1. g[p] = {Parent[p]} \cup f[Parent[p]]
            BY <2>g, <4>1, <4>4
          <5>. QED
            BY <4>2, <5>1
        <4>. QED
          BY <4>3, <4>4
      <3>. QED
        BY <3>1, <3>2
    <2>5. g = h
      BY <2>g, <2>h, <2>4
    <2>6. AncestorsTo(g, k + 1)
      BY <2>5, <2>h DEF AncestorsTo
    <2>. QED
      BY <2>6
  <1>. QED
    BY <1>1, <1>2, <1>s, NatInduct

LEMMA AncestorsUnfold ==
    /\ Ancestors[Root] = {}
    /\ \A p \in 1..Last : Ancestors[p] = {Parent[p]} \cup Ancestors[Parent[p]]
  <1>1. AncestorsTo(CHOOSE f : AncestorsTo(f, Last), Last)
    BY AncestorsExist
  <1>2. Ancestors = CHOOSE f : AncestorsTo(f, Last)
    BY Zenon DEF Ancestors, AncestorsTo, Paths
  <1>3. Ancestors = [p \in 0..Last |-> IF p = Root THEN {} ELSE {Parent[p]} \cup Ancestors[Parent[p]]]
    BY <1>1, <1>2 DEF AncestorsTo
  <1>4. \A p \in 0..Last : Ancestors[p] = IF p = Root THEN {} ELSE {Parent[p]} \cup Ancestors[Parent[p]]
    BY <1>3
  <1>5. Root \in 0..Last /\ \A p \in 1..Last : p \in 0..Last /\ p # Root
    BY DEF Root
  <1>. QED
    BY <1>4, <1>5
\* What holds of the root, and of a path when it holds of its directory.
LEMMA TreeInduct ==
    ASSUME NEW S, Root \in S, \A p \in 1..Last : Parent[p] \in S => p \in S
    PROVE  Paths \subseteq S
  <1>. SUFFICES ASSUME Paths \ S # {} PROVE FALSE
    OBVIOUS
  <1>1. PICK p \in Paths \ S : \A q \in Paths \ S : p <= q
    <2>1. Paths \ S \in SUBSET Nat
      BY DEF Paths
    <2>. QED
      BY <2>1, LeastNumber
  <1>2. p \in 1..Last
    BY <1>1 DEF Root, Paths
  <1>3. Parent[p] \in Paths /\ Parent[p] < p
    BY <1>2
  <1>4. Parent[p] \in S
    BY <1>1, <1>3 DEF Paths
  <1>. QED
    BY <1>1, <1>2, <1>4

LEMMA AncestorsAreBefore ==
    \A p \in Paths : /\ \A q \in Ancestors[p] : q \in Paths /\ q < p
                     /\ p # Root => Root \in Ancestors[p]
  <1> DEFINE Good(p) == /\ \A q \in Ancestors[p] : q \in Paths /\ q < p
                        /\ p # Root => Root \in Ancestors[p]
  <1>s. PICK S : S = {p \in Paths : Good(p)}
    OBVIOUS
  <1>1. Root \in S
    BY <1>s, AncestorsUnfold DEF Root, Paths
  <1>2. ASSUME NEW p \in 1..Last, Parent[p] \in S PROVE p \in S
    <2>1. Ancestors[p] = {Parent[p]} \cup Ancestors[Parent[p]]
      BY AncestorsUnfold
    <2>2. Parent[p] \in Paths /\ Parent[p] < p /\ p \in Paths
      BY DEF Paths
    <2>3. /\ \A q \in Ancestors[Parent[p]] : q \in Paths /\ q < Parent[p]
          /\ Parent[p] # Root => Root \in Ancestors[Parent[p]]
      <3>1. PICK a : a = Parent[p]
        OBVIOUS
      <3>2. a \in S
        BY <1>2, <3>1
      <3>3. Good(a)
        <4> HIDE DEF Good
        <4>. QED
          BY <1>s, <3>2
      <3>. QED
        BY <3>1, <3>3
    <2>4. ASSUME NEW q \in Ancestors[p] PROVE q \in Paths /\ q < p
      <3>1. CASE q = Parent[p]
        BY <2>2, <3>1
      <3>2. CASE q \in Ancestors[Parent[p]]
        BY <2>2, <2>3, <3>2 DEF Paths
      <3>. QED
        BY <2>1, <2>4, <3>1, <3>2
    <2>5. Root \in Ancestors[p]
      BY <2>1, <2>3
    <2>. QED
      BY <1>s, <2>2, <2>4, <2>5
  <1>3. Paths \subseteq S
    BY <1>1, <1>2, TreeInduct
  <1>4. \A p \in Paths : Good(p)
    <2> HIDE DEF Good
    <2>. QED
      BY <1>3, <1>s
  <1>. QED
    BY <1>4

LEMMA AncestorsAreTransitive ==
    \A p \in Paths : \A q \in Ancestors[p] : Ancestors[q] \subseteq Ancestors[p]
  <1>s. PICK S : S = {p \in Paths : \A q \in Ancestors[p] : Ancestors[q] \subseteq Ancestors[p]}
    OBVIOUS
  <1>1. Root \in S
    BY <1>s, AncestorsUnfold DEF Root, Paths
  <1>2. ASSUME NEW p \in 1..Last, Parent[p] \in S PROVE p \in S
    <2>1. Ancestors[p] = {Parent[p]} \cup Ancestors[Parent[p]] /\ p \in Paths
      BY AncestorsUnfold DEF Paths
    <2>. QED
      BY <1>s, <1>2, <2>1
  <1>3. Paths \subseteq S
    BY <1>1, <1>2, TreeInduct
  <1>. QED
    BY <1>3, <1>s

-----------------------------------------------------------------------------
(* Streams *)

Apart(s) == \A i, j \in DOMAIN s : s[i].path = s[j].path => i = j

\* As many paths as members means a path of its own for each.
LEMMA UniqueMeansApart ==
    ASSUME NEW s \in Seq(StreamMembers)
    PROVE  Unique(s) <=> Apart(s)
  <1>1. PICK f : f = [i \in DOMAIN s |-> s[i].path]
    OBVIOUS
  <1>2. DOMAIN s = 1..Len(s) /\ Len(s) \in Nat
    OBVIOUS
  <1>3. f \in Surjection(DOMAIN s, PathsOf(s))
    BY <1>1, Zenon DEF Surjection, PathsOf
  <1>4. IsFiniteSet(DOMAIN s) /\ Cardinality(DOMAIN s) = Len(s)
    <2>n. PICK n \in Nat : n = Len(s)
      BY <1>2
    <2>1. 1 \in Int /\ n \in Int
      OBVIOUS
    <2>2. IsFiniteSet(1..n) /\ Cardinality(1..n) = IF 1 > n THEN 0 ELSE n - 1 + 1
      BY <2>1, FS_Interval
    <2>3. Cardinality(1..n) = n
      BY <2>2
    <2>. QED
      BY <1>2, <2>n, <2>2, <2>3
  <1>5. Cardinality(PathsOf(s)) = Cardinality(DOMAIN s) <=> f \in Injection(DOMAIN s, PathsOf(s))
    BY <1>3, <1>4, FS_Surjection
  <1>6. f \in Injection(DOMAIN s, PathsOf(s)) <=> Apart(s)
    BY <1>1, <1>3 DEF Injection, IsInjective, Apart, Surjection
  <1>. QED
    BY <1>4, <1>5, <1>6 DEF Unique

LEMMA MembersFound ==
    ASSUME NEW s, Apart(s), NEW i \in DOMAIN s
    PROVE  /\ s[i].path \in PathsOf(s)
           /\ MemberAt(s, s[i].path) = s[i] /\ KindAt(s, s[i].path) = s[i].kind
  <1>1. s[i].path \in PathsOf(s)
    BY DEF PathsOf
  <1>2. (CHOOSE j \in DOMAIN s : s[j].path = s[i].path) = i
    BY DEF Apart
  <1>. QED
    BY <1>1, <1>2 DEF MemberAt, KindAt

LEMMA PathIsOfAMember ==
    ASSUME NEW s, NEW p, KindAt(s, p) # "none"
    PROVE  \E i \in DOMAIN s : s[i].path = p
  BY DEF KindAt, PathsOf

-----------------------------------------------------------------------------
(* Chains of hard links *)

Hop(s, p) == IF KindAt(s, p) = "hardlink" THEN MemberAt(s, p).link ELSE p
HopsAre(f, s, p, N) == f = [n \in 0..N |-> IF n = 0 THEN p ELSE Hop(s, f[n - 1])]
Hops(s, p, N) == CHOOSE f : HopsAre(f, s, p, N)

LEMMA HopsExist == ASSUME NEW s, NEW p, NEW N \in Nat PROVE HopsAre(Hops(s, p, N), s, p, N)
  <1>s. PICK S : S = {k \in Nat : \E f : HopsAre(f, s, p, k)}
    OBVIOUS
  <1>1. 0 \in S
    <2>1. HopsAre([n \in 0..0 |-> p], s, p, 0)
      BY DEF HopsAre
    <2>. QED
      BY <1>s, <2>1
  <1>2. ASSUME NEW k \in Nat, k \in S PROVE k + 1 \in S
    <2>f. PICK f : HopsAre(f, s, p, k)
      BY <1>s, <1>2
    <2>g. PICK g : g = [n \in 0..k + 1 |-> IF n <= k THEN f[n] ELSE Hop(s, f[k])]
      OBVIOUS
    <2>1. \A n \in 0..k : g[n] = f[n]
      BY <2>g
    <2>2. \A n \in 0..k : f[n] = IF n = 0 THEN p ELSE Hop(s, f[n - 1])
      BY <2>f DEF HopsAre
    <2>h. PICK h : h = [n \in 0..k + 1 |-> IF n = 0 THEN p ELSE Hop(s, g[n - 1])]
      OBVIOUS
    <2>3. ASSUME NEW n \in 0..k + 1 PROVE g[n] = h[n]
      <3>h. h[n] = IF n = 0 THEN p ELSE Hop(s, g[n - 1])
        BY <2>h
      <3>1. CASE n = 0
        BY <2>1, <2>2, <3>1, <3>h
      <3>2. CASE n # 0 /\ n <= k
        <4>1. n - 1 \in 0..k /\ n \in 0..k
          BY <3>2
        <4>. QED
          BY <3>2, <3>h, <4>1, <2>1, <2>2
      <3>3. CASE n = k + 1
        <4>1. n - 1 = k /\ k \in 0..k /\ n # 0 /\ ~(n <= k)
          BY <3>3
        <4>2. g[n] = Hop(s, f[k])
          BY <4>1, <2>g
        <4>. QED
          BY <3>h, <4>1, <4>2, <2>1
      <3>. QED
        BY <3>1, <3>2, <3>3
    <2>4. g = h
      BY <2>g, <2>h, <2>3
    <2>5. HopsAre(g, s, p, k + 1)
      BY <2>4, <2>h DEF HopsAre
    <2>. QED
      BY <1>s, <2>5
  <1>3. N \in S
    BY <1>1, <1>2, NatInduct
  <1>. QED
    BY <1>s, <1>3 DEF Hops

LEMMA EndIsTheLastHop ==
    ASSUME NEW s, NEW p
    PROVE  \E f : HopsAre(f, s, p, Last + 1) /\ EndOfChain(s, p) = f[Last + 1]
  <1>1. Last + 1 \in Nat
    OBVIOUS
  <1>2. HopsAre(Hops(s, p, Last + 1), s, p, Last + 1)
    BY <1>1, HopsExist
  <1>3. EndOfChain(s, p) = Hops(s, p, Last + 1)[Last + 1]
    BY Zenon DEF EndOfChain, Hops, HopsAre, Hop
  <1>. QED
    BY <1>2, <1>3

\* Where a chain has ended it stays.
LEMMA EndsStay ==
    ASSUME NEW s, NEW p, NEW f, HopsAre(f, s, p, Last + 1),
           NEW m \in 0..Last + 1, KindAt(s, f[m]) # "hardlink"
    PROVE  \A n \in m..Last + 1 : f[n] = f[m]
  <1>s. PICK S : S = {k \in Nat : m + k <= Last + 1 => f[m + k] = f[m]}
    OBVIOUS
  <1>1. 0 \in S
    BY <1>s
  <1>2. ASSUME NEW k \in Nat, k \in S PROVE k + 1 \in S
    <2>1. SUFFICES ASSUME m + (k + 1) <= Last + 1 PROVE f[m + (k + 1)] = f[m]
      BY <1>s
    <2>2. f[m + k] = f[m]
      BY <1>s, <1>2, <2>1
    <2>3. m + (k + 1) \in 0..Last + 1 /\ m + (k + 1) # 0 /\ m + (k + 1) - 1 = m + k
      BY <2>1
    <2>q. PICK q \in 0..Last + 1 : q = m + (k + 1)
      BY <2>3
    <2>4. f[q] = Hop(s, f[q - 1])
      BY <2>3, <2>q, Zenon DEF HopsAre
    <2>5. f[m + (k + 1)] = Hop(s, f[m + k])
      BY <2>3, <2>4, <2>q
    <2>. QED
      BY <2>2, <2>5 DEF Hop
  <1>3. Nat \subseteq S
    BY <1>1, <1>2, NatInduct
  <1>. QED
    <2>1. SUFFICES ASSUME NEW n \in m..Last + 1 PROVE f[n] = f[m]
      OBVIOUS
    <2>2. n - m \in Nat /\ m + (n - m) = n /\ n <= Last + 1
      OBVIOUS
    <2>3. n - m \in S
      BY <1>3, <2>2
    <2>. QED
      BY <1>s, <2>2, <2>3

LEMMA EndOfNoLink ==
    ASSUME NEW s, NEW p, KindAt(s, p) # "hardlink"
    PROVE  EndOfChain(s, p) = p
  <1>1. PICK f : HopsAre(f, s, p, Last + 1) /\ EndOfChain(s, p) = f[Last + 1]
    BY EndIsTheLastHop
  <1>2. 0 \in 0..Last + 1 /\ f[0] = p
    BY <1>1 DEF HopsAre
  <1>3. f[Last + 1] = f[0]
    <2>1. Last + 1 \in 0..Last + 1
      OBVIOUS
    <2>. QED
      BY <1>1, <1>2, <2>1, EndsStay
  <1>. QED
    BY <1>1, <1>2, <1>3

\* The chain from a link is that from what it names, one hop longer.
LEMMA EndOfLink ==
    ASSUME NEW s, NEW p, KindAt(s, p) = "hardlink", NEW l, l = MemberAt(s, p).link,
           KindAt(s, EndOfChain(s, p)) # "hardlink"
    PROVE  EndOfChain(s, p) = EndOfChain(s, l)
  <1>f. PICK f : HopsAre(f, s, p, Last + 1) /\ EndOfChain(s, p) = f[Last + 1]
    BY EndIsTheLastHop
  <1>g. PICK g : HopsAre(g, s, l, Last + 1) /\ EndOfChain(s, l) = g[Last + 1]
    BY EndIsTheLastHop
  <1>1. /\ \A n \in 0..Last + 1 : f[n] = IF n = 0 THEN p ELSE Hop(s, f[n - 1])
        /\ \A n \in 0..Last + 1 : g[n] = IF n = 0 THEN l ELSE Hop(s, g[n - 1])
    BY <1>f, <1>g DEF HopsAre
  <1>s. PICK S : S = {k \in Nat : k <= Last => f[k + 1] = g[k]}
    OBVIOUS
  <1>2. 0 \in S
    <2>1. 0 \in 0..Last + 1 /\ 1 \in 0..Last + 1 /\ 1 - 1 = 0
      OBVIOUS
    <2>2. f[1] = Hop(s, p) /\ g[0] = l
      BY <1>1, <2>1
    <2>. QED
      BY <1>s, <2>2 DEF Hop
  <1>3. ASSUME NEW k \in Nat, k \in S PROVE k + 1 \in S
    <2>1. SUFFICES ASSUME k + 1 <= Last PROVE f[k + 1 + 1] = g[k + 1]
      BY <1>s
    <2>2. k + 1 + 1 \in 0..Last + 1 /\ k + 1 \in 0..Last + 1
          /\ k + 1 + 1 # 0 /\ k + 1 # 0 /\ k + 1 + 1 - 1 = k + 1 /\ k + 1 - 1 = k
      BY <2>1
    <2>3. f[k + 1 + 1] = Hop(s, f[k + 1]) /\ g[k + 1] = Hop(s, g[k])
      BY <1>1, <2>2
    <2>4. f[k + 1] = g[k]
      BY <1>s, <1>3, <2>1
    <2>. QED
      BY <2>3, <2>4
  <1>4. f[Last + 1] = g[Last]
    <2>1. Last \in S
      BY <1>2, <1>3, NatInduct
    <2>. QED
      BY <1>s, <2>1
  <1>5. g[Last + 1] = Hop(s, g[Last])
    <2>m. PICK m : m = Last + 1
      OBVIOUS
    <2>1. m \in 0..Last + 1 /\ m # 0 /\ m - 1 = Last
      BY <2>m
    <2>2. g[m] = Hop(s, g[m - 1])
      BY <1>1, <2>1
    <2>. QED
      BY <2>1, <2>2, <2>m
  <1>. QED
    BY <1>f, <1>g, <1>4, <1>5 DEF Hop

-----------------------------------------------------------------------------
(* The source tree *)

LEMMA NodesAreNumbers ==
    /\ Edits \in Nat /\ Last \in Nat /\ Nodes = 1..Last + 1 + Edits
    /\ 1 \in Nodes /\ Root \in Paths /\ Paths = 0..Last /\ Root = 0
  BY ArchiveAssumption DEF Nodes, Root, Paths

LEMMA NewNodeIsANode ==
    ASSUME NEW k \in {"none", "file", "directory", "symlink", "fifo", "socket"},
           NEW t \in Nat, NEW d \in Seq(Int)
    PROVE  NewNode(k, t, d) \in NodeRecords
  BY DEF NewNode, NodeRecords

LEMMA FirstFileIsAFile ==
    ASSUME NEW tree \in Sources, NEW p \in 1..Last, tree[p] = "same"
    PROVE  FirstFile(tree) \in 1..Last /\ tree[FirstFile(tree)] = "file"
  <1>s. PICK S : S = {q \in 1..Last : tree[q] = "file"}
    OBVIOUS
  <1>1. S # {} /\ S \in SUBSET Nat
    BY <1>s, ArchiveAssumption
  <1>2. PICK q \in S : \A r \in S : q <= r
    BY <1>1, LeastNumber
  <1>3. q \in 1..Last /\ tree[q] = "file" /\ \A r \in 1..q - 1 : tree[r] # "file"
    BY <1>s, <1>2
  <1>. QED
    BY <1>3 DEF FirstFile

InitialNodes(tree) ==
  [i \in Nodes |-> CASE i = 1 -> NewNode("directory", 0, <<>>)
                     [] i \in 2 .. Last + 1 -> NodeFor(i - 1, tree[i - 1])
                     [] OTHER -> Gone]
LEMMA FirstNodes ==
    ASSUME NEW tree \in Sources, NEW f, f = InitialNodes(tree)
    PROVE  /\ f \in [Nodes -> NodeRecords] /\ f[1].kind = "directory"
           /\ \A p \in 1..Last :
                /\ p + 1 \in Nodes
                /\ tree[p] = "file" => f[p + 1].kind = "file"
                /\ tree[p] \notin {"none", "same"} => f[p + 1].kind # "none"
           /\ \A i \in Nodes : f[i].time = 0 /\ f[i].data \in f[i].was
           /\ \A i \in Nodes :
                \/ f[i].data = <<>>
                \/ i <= Last + 1 /\ f[i].data = <<-(2 * (i - 1)), -(2 * (i - 1)) - 1>>
  <1>n. /\ Edits \in Nat /\ Last \in Nat /\ Nodes = 1..Last + 1 + Edits
        /\ 1 \in Nodes /\ Root \in Paths /\ Paths = 0..Last /\ Root = 0
    BY NodesAreNumbers
  <1>0. <<>> \in Seq(Int) /\ 0 \in Nat
    OBVIOUS
  <1>k. \A p \in 1..Last : tree[p] \in {"none", "directory", "file", "empty", "same",
                                         "symlink", "fifo", "socket"}
    BY ArchiveAssumption
  <1>1. ASSUME NEW i \in Nodes
        PROVE  /\ f[i] \in NodeRecords
               /\ f[i].time = 0 /\ f[i].data \in f[i].was
               /\ \/ f[i].data = <<>>
                  \/ i <= Last + 1 /\ f[i].data = <<-(2 * (i - 1)), -(2 * (i - 1)) - 1>>
    <2>f. f[i] = CASE i = 1 -> NewNode("directory", 0, <<>>)
                     [] i \in 2 .. Last + 1 -> NodeFor(i - 1, tree[i - 1])
                     [] OTHER -> Gone
      BY DEF InitialNodes
    <2>1. CASE i = 1
      <3>1. f[i] = NewNode("directory", 0, <<>>)
        BY <2>f, <2>1
      <3>2. f[i] \in NodeRecords
        BY <1>0, <3>1, NewNodeIsANode
      <3>. QED
        BY <3>1, <3>2 DEF NewNode
    <2>2. CASE i \in 2..Last + 1
      <3>p. PICK p \in 1..Last : p = i - 1
        BY <1>n, <2>2
      <3>1. f[i] = NodeFor(p, tree[p])
        BY <2>f, <2>2, <3>p
      <3>2. CASE tree[p] = "file"
        <4>1. f[i] = NewNode("file", 0, <<-(2 * p), -(2 * p) - 1>>)
          BY <3>1, <3>2 DEF NodeFor
        <4>2. <<-(2 * p), -(2 * p) - 1>> \in Seq(Int)
          OBVIOUS
        <4>3. f[i] \in NodeRecords
          BY <1>0, <4>1, <4>2, NewNodeIsANode
        <4>. QED
          BY <1>n, <3>p, <4>1, <4>3 DEF NewNode
      <3>3. CASE tree[p] # "file"
        <4>1. PICK k \in {"none", "file", "directory", "symlink", "fifo", "socket"} :
                f[i] = NewNode(k, 0, <<>>)
          BY <1>k, <3>1, <3>3 DEF NodeFor, Gone
        <4>2. f[i] \in NodeRecords
          BY <1>0, <4>1, NewNodeIsANode
        <4>. QED
          BY <4>1, <4>2 DEF NewNode
      <3>. QED
        BY <3>2, <3>3
    <2>3. CASE i # 1 /\ i \notin 2..Last + 1
      <3>1. f[i] = NewNode("none", 0, <<>>)
        BY <2>f, <2>3 DEF Gone
      <3>2. f[i] \in NodeRecords
        BY <1>0, <3>1, NewNodeIsANode
      <3>. QED
        BY <3>1, <3>2 DEF NewNode
    <2>. QED
      BY <2>1, <2>2, <2>3
  <1>2. f \in [Nodes -> NodeRecords]
    BY <1>1 DEF InitialNodes
  <1>3. f[1].kind = "directory"
    BY <1>n DEF InitialNodes, NewNode
  <1>4. ASSUME NEW p \in 1..Last
        PROVE  /\ p + 1 \in Nodes
               /\ tree[p] = "file" => f[p + 1].kind = "file"
               /\ tree[p] \notin {"none", "same"} => f[p + 1].kind # "none"
    <2>i. PICK i \in Nodes : i = p + 1
      BY <1>n
    <2>1. i # 1 /\ i \in 2..Last + 1 /\ i - 1 = p
      BY <2>i
    <2>2. f[i] = NodeFor(p, tree[p])
      BY <2>1 DEF InitialNodes
    <2>. QED
      BY <1>k, <2>2, <2>i DEF NodeFor, NewNode
  <1>. QED
    BY <1>1, <1>2, <1>3, <1>4

LEMMA ArchiveInvStart == ArchiveInit => ArchiveInv
  <1>n. /\ Edits \in Nat /\ Last \in Nat /\ Nodes = 1..Last + 1 + Edits
        /\ 1 \in Nodes /\ Root \in Paths /\ Paths = 0..Last /\ Root = 0
    BY NodesAreNumbers
  <1>0. ASSUME AtRest
        PROVE  /\ ListingInv /\ edits \in 0..Edits
               /\ entries = <<>> /\ hashed \in Nat /\ edits = 0
               /\ reader \in [node : {0} \cup Nodes, got : Seq(Int)]
               /\ unread \in {Nobody} \cup Paths
    <2>1. entries = <<>> /\ DOMAIN entries = {}
      BY <1>0 DEF AtRest
    <2>2. ListingInv
      BY <2>1 DEF ListingInv, IsListing
    <2>. QED
      BY <1>0, <1>n, <2>1, <2>2 DEF AtRest, Closed
  <1>1. ASSUME BackupInit PROVE ArchiveInv
    <2>a. AtRest
      BY <1>1 DEF BackupInit
    <2>b. phase = "walk" /\ toVisit = {Root} /\ method \in Methods
          /\ archive = [NoFile EXCEPT !.format = Format(method)]
      BY <1>1 DEF BackupInit
    <2>t. PICK tree \in Sources :
          /\ names = [p \in Paths |-> CASE p = Root -> 1
                                        [] p # Root /\ tree[p] = "none" -> 0
                                        [] p # Root /\ tree[p] = "same" -> FirstFile(tree) + 1
                                        [] OTHER -> p + 1]
          /\ nodes = InitialNodes(tree)
      BY <1>1 DEF BackupInit, InitialNodes
    <2>f. /\ nodes \in [Nodes -> NodeRecords] /\ nodes[1].kind = "directory"
          /\ \A p \in 1..Last :
               /\ p + 1 \in Nodes
               /\ tree[p] = "file" => nodes[p + 1].kind = "file"
               /\ tree[p] \notin {"none", "same"} => nodes[p + 1].kind # "none"
          /\ \A i \in Nodes : nodes[i].time = 0 /\ nodes[i].data \in nodes[i].was
          /\ \A i \in Nodes :
               \/ nodes[i].data = <<>>
               \/ i <= Last + 1 /\ nodes[i].data = <<-(2 * (i - 1)), -(2 * (i - 1)) - 1>>
      BY <2>t, FirstNodes
    <2>e. archive.stream = <<>> /\ archive.format = Format(method)
      BY <2>b DEF NoFile
    <2>p. ASSUME NEW p \in Paths
          PROVE  /\ names[p] \in {0} \cup Nodes /\ names[p] <= Last + 1
                 /\ names[p] # 0 => nodes[names[p]].kind # "none"
      <3>1. CASE p = Root
        BY <1>n, <2>t, <2>f, <3>1
      <3>2. CASE p # Root /\ tree[p] = "none"
        BY <1>n, <2>t, <3>2
      <3>3. CASE p # Root /\ tree[p] = "same"
        <4>1. p \in 1..Last
          BY <1>n, <3>3
        <4>q. PICK q \in 1..Last : q = FirstFile(tree) /\ tree[q] = "file"
          BY <3>3, <4>1, FirstFileIsAFile
        <4>2. names[p] = q + 1
          BY <2>t, <3>3, <4>q
        <4>. QED
          BY <1>n, <2>f, <4>2, <4>q
      <3>4. CASE p # Root /\ tree[p] \notin {"none", "same"}
        <4>1. p \in 1..Last
          BY <1>n, <3>4
        <4>2. names[p] = p + 1
          BY <2>t, <3>4
        <4>. QED
          BY <1>n, <2>f, <3>4, <4>1, <4>2
      <3>. QED
        BY <3>1, <3>2, <3>3, <3>4
    <2>1. ArchiveTypes
      <3>1. names \in [Paths -> {0} \cup Nodes]
        BY <2>p, <2>t
      <3>2. excluded \subseteq 1..Last
        BY <1>1, ArchiveAssumption DEF BackupInit
      <3>3. archive.stream \in Seq(StreamMembers) /\ archive.format \in {"v01", "mypack", "ustar"}
        <4>1. archive.stream \in Seq(StreamMembers)
          BY <2>e
        <4>2. Format(method) \in {"v01", "mypack", "ustar"}
          BY <2>b DEF Format, Methods
        <4>. QED
          BY <2>e, <4>1, <4>2
      <3>4. entries \in Seq(EntryRecords)
        BY <1>0, <2>a
      <3>. QED
        BY <1>0, <1>n, <2>a, <2>b, <2>f, <3>1, <3>2, <3>3, <3>4 DEF ArchiveTypes
    <2>2. SourceInv
      <3>1. names[Root] = 1 /\ nodes[1].kind = "directory"
        BY <1>n, <2>t, <2>f
      <3>2. ASSUME NEW i \in Nodes, NEW b \in DOMAIN nodes[i].data
            PROVE  /\ i <= Last + 1 /\ b \in {1, 2}
                   /\ nodes[i].data[b] = IF b = 1 THEN -(2 * (i - 1)) ELSE -(2 * (i - 1)) - 1
        <4>1. i <= Last + 1 /\ nodes[i].data = <<-(2 * (i - 1)), -(2 * (i - 1)) - 1>>
          BY <2>f, <3>2
        <4>. QED
          BY <3>2, <4>1
      <3>3. \A i \in Nodes : nodes[i].data \in Seq(Int)
        BY <2>f DEF NodeRecords
      <3>4. ASSUME NEW i \in Nodes, i > Last + 1 PROVE nodes[i].data = <<>>
        BY <1>n, <2>f, <3>4
      <3>5. ASSUME NEW i \in Nodes, NEW b \in DOMAIN nodes[i].data
            PROVE  nodes[i].data[b] <= 0
        <4>1. i \in Nat /\ i >= 1
          BY <1>n
        <4>. QED
          BY <4>1, <3>2
      <3>6. ASSUME NEW i \in Nodes, NEW j \in Nodes,
                   NEW b \in DOMAIN nodes[i].data \cap DOMAIN nodes[j].data,
                   nodes[i].data[b] = nodes[j].data[b]
            PROVE  i = j
        <4>1. i \in Int /\ j \in Int
          BY <1>n
        <4>. QED
          BY <4>1, <3>2, <3>6
      <3>. QED
        BY <1>0, <1>n, <2>a, <2>f, <2>p, <3>1, <3>4, <3>5, <3>6 DEF SourceInv
    <2>3. BackingInv
      <3>1. VisitInv
        BY <2>a, <2>b DEF VisitInv, AtRest
      <3>2. /\ DOMAIN entries = {} /\ DOMAIN archive.stream = {} /\ reader = Closed
            /\ damaged = "no" /\ hashed = 0
        BY <2>a, <2>e DEF AtRest
      <3>3. EntriesInv
        BY <3>2 DEF EntriesInv
      <3>4. ReaderInv
        BY <2>b, <3>2 DEF ReaderInv
      <3>5. PackInv
        <4>1. archive = [NoFile EXCEPT !.format = Format(method), !.stream = archive.stream]
          BY <2>b, <2>e DEF NoFile
        <4>2. PackedSoFar
          BY <2>e, <3>2, <1>0, <2>a DEF PackedSoFar
        <4>. QED
          BY <2>b, <2>e, <3>2, <4>1, <4>2 DEF PackInv
      <3>. QED
        BY <2>2, <3>1, <3>3, <3>4, <3>5 DEF BackingInv
    <2>4. PublishedInv /\ ReadingInv /\ AcceptedMeansRestored
      BY <2>b DEF PublishedInv, ReadingInv, AcceptedMeansRestored
    <2>5. TargetInv
      BY <2>a, <2>b DEF TargetInv, DestinationIsAllOrNothing, AtRest
    <2>. QED
      BY <1>0, <2>a, <2>1, <2>3, <2>4, <2>5 DEF ArchiveInv
  <1>2. ASSUME StreamInit PROVE ArchiveInv
    <2>a. AtRest
      BY <1>2 DEF StreamInit
    <2>b. phase = "published" /\ toVisit = {} /\ method = "none" /\ excluded = {}
          /\ names = [p \in Paths |-> 0] /\ nodes = [i \in Nodes |-> Gone]
      BY <1>2 DEF StreamInit
    <2>s. PICK s \in Streams, format \in {"v01", "mypack", "ustar"} :
            archive = Sealed([NoFile EXCEPT !.format = format, !.stream = s], Len(s), FALSE)
      BY <1>2 DEF StreamInit
    <2>1. s \in Seq(StreamMembers) /\ s # <<>>
      BY ArchiveAssumption
    <2>2. archive.stream = s /\ archive.format = format /\ IsSealed(archive)
      BY <2>s DEF Sealed, IsSealed, NoFile
    <2>3. Gone \in NodeRecords
      <3>1. <<>> \in Seq(Int) /\ 0 \in Nat
        OBVIOUS
      <3>. QED
        BY <3>1, NewNodeIsANode DEF Gone
    <2>4. ArchiveTypes
      BY <1>0, <1>n, <2>a, <2>b, <2>1, <2>2, <2>3 DEF ArchiveTypes, Backing
    <2>5. BackingInv /\ ReadingInv /\ AcceptedMeansRestored
      BY <2>b DEF BackingInv, Backing, ReadingInv, AcceptedMeansRestored
    <2>6. TargetInv
      BY <2>a, <2>b DEF TargetInv, DestinationIsAllOrNothing, AtRest
    <2>7. PublishedInv
      <3>1. damaged = "no" /\ method = "none"
        BY <2>a, <2>b DEF AtRest
      <3>2. Hurt(archive)
        BY <2>2, <3>1 DEF Hurt
      <3>3. IsArchiveFile(archive)
        BY <2>s DEF Sealed, NoFile, IsArchiveFile
      <3>. QED
        BY <2>b, <2>1, <2>2, <3>1, <3>2, <3>3 DEF PublishedInv, Written
    <2>. QED
      BY <1>0, <2>a, <2>4, <2>5, <2>6, <2>7 DEF ArchiveInv
  <1>. QED
    BY <1>1, <1>2 DEF ArchiveInit

-----------------------------------------------------------------------------
(* The user's edits *)

\* What an edit may do: to one inode x, and to the paths.
EditOf(x) ==
  /\ UserMayEdit /\ edits' = edits + 1
  /\ UNCHANGED <<walkVars, backupVars, archive, damaged, restoreVars>>
  /\ names' \in [Paths -> {0} \cup Nodes] /\ nodes' \in [Nodes -> NodeRecords]
  /\ names'[Root] = 1 /\ nodes'[1].kind = "directory"
  /\ \A p \in Paths : /\ names'[p] <= Last + 1 + edits'
                      /\ names'[p] # 0 => nodes'[names'[p]].kind # "none"
  /\ x \in Nodes /\ x <= Last + 1 + edits' /\ \A i \in Nodes : i # x => nodes'[i] = nodes[i]
  /\ x <= Last + 1 + edits => nodes[x].was \subseteq nodes'[x].was
  /\ nodes'[x].data \in nodes'[x].was
  /\ \A b \in DOMAIN nodes'[x].data :
       \/ nodes'[x].data[b] = edits'
       \/ b \in DOMAIN nodes[x].data /\ nodes'[x].data[b] = nodes[x].data[b]
  /\ \/ nodes'[x] = nodes[x] \/ nodes'[x].time = edits'
     \/ method = "snapshot" /\ nodes'[x].time = nodes[x].time
  /\ \A p \in Paths :
       \/ names'[p] \in {0, names[p]}
       \/ nodes'[names'[p]].time = edits'
       \/ /\ nodes' = nodes
          /\ method \in {"v01", "mypack"} =>
               \A k \in DOMAIN entries :
                 entries[k].path = p /\ entries[k].node # names'[p]
                 => ~SameAsListed(entries[k], names'[p])

LEMMA LinkedFilesAreNamed ==
    ASSUME NEW i \in LinkedFiles
    PROVE  i \in Nodes /\ nodes[i].kind = "file" /\ \E p \in Paths : names[p] = i
  <1>1. ShareCount(i) > 0 /\ i \in Nodes /\ nodes[i].kind = "file"
    BY DEF LinkedFiles
  <1>2. {p \in Paths : names[p] = i} # {}
    <2>s. PICK same : same = {p \in Paths : names[p] = i}
      OBVIOUS
    <2>1. Cardinality({}) = 0
      BY FS_EmptySet
    <2>2. ShareCount(i) = Cardinality(same)
      BY <2>s, Zenon DEF ShareCount
    <2>3. ShareCount(i) # 0
      BY <1>1
    <2>4. same # {}
      BY <2>1, <2>2, <2>3, Zenon
    <2>. QED
      BY <2>4, <2>s
  <1>. QED
    BY <1>1, <1>2

LEMMA WriteIsAnEdit ==
    ASSUME ArchiveTypes, SourceInv, WriteInPlace
    PROVE  \E x \in Nodes : EditOf(x)
  <1>n. /\ Edits \in Nat /\ Last \in Nat /\ Nodes = 1..Last + 1 + Edits
        /\ 1 \in Nodes /\ Root \in Paths /\ Paths = 0..Last /\ Root = 0
    BY NodesAreNumbers
  <1>i. PICK i \in LinkedFiles :
      \E d \in {[nodes[i].data EXCEPT ![b] = Edit] : b \in DOMAIN nodes[i].data}
                  \cup {SubSeq(nodes[i].data, 1, n) : n \in 0 .. Len(nodes[i].data) - 1}
                  \cup {Append(nodes[i].data, Edit)} :
         \E t \in {Edit} \cup (IF method = "snapshot" THEN {nodes[i].time} ELSE {}) :
           Edited(names, Rewritten(i, d, t))
    BY DEF WriteInPlace
  <1>d. PICK d \in {[nodes[i].data EXCEPT ![b] = Edit] : b \in DOMAIN nodes[i].data}
                   \cup {SubSeq(nodes[i].data, 1, n) : n \in 0 .. Len(nodes[i].data) - 1}
                   \cup {Append(nodes[i].data, Edit)} :
          \E t \in {Edit} \cup (IF method = "snapshot" THEN {nodes[i].time} ELSE {}) :
            Edited(names, Rewritten(i, d, t))
    BY <1>i
  <1>t. PICK t \in {Edit} \cup (IF method = "snapshot" THEN {nodes[i].time} ELSE {}) :
          Edited(names, Rewritten(i, d, t))
    BY <1>d
  <1>1. /\ i \in Nodes /\ nodes[i].kind = "file" /\ i <= Last + 1 + edits /\ i # 1
        /\ nodes[i] \in NodeRecords /\ edits \in Nat /\ Edit \in Nat /\ Edit = edits + 1
    <2>1. i \in Nodes /\ nodes[i].kind = "file" /\ \E p \in Paths : names[p] = i
      BY LinkedFilesAreNamed
    <2>2. i <= Last + 1 + edits /\ i # 1
      BY <2>1 DEF SourceInv
    <2>. QED
      BY <1>n, <2>1, <2>2 DEF ArchiveTypes, Edit
  <1>D. PICK D \in Seq(Int) : D = nodes[i].data
    BY <1>1 DEF NodeRecords
  <1>2. /\ d \in Seq(Int)
        /\ \A b \in DOMAIN d : d[b] = Edit \/ (b \in DOMAIN D /\ d[b] = D[b])
    <2>1. CASE \E b \in DOMAIN D : d = [D EXCEPT ![b] = Edit]
      <3>b. PICK b \in DOMAIN D : d = [D EXCEPT ![b] = Edit]
        BY <2>1
      <3>1. d \in Seq(Int)
        BY <1>1, <3>b
      <3>. QED
        BY <3>1, <3>b
    <2>2. CASE \E n \in 0..Len(D) - 1 : d = SubSeq(D, 1, n)
      <3>n. PICK n \in 0..Len(D) - 1 : d = SubSeq(D, 1, n)
        BY <2>2
      <3>1. d \in Seq(Int) /\ DOMAIN d = 1..n /\ \A b \in 1..n : d[b] = D[b]
        BY <3>n
      <3>. QED
        BY <3>1
    <2>3. CASE d = Append(D, Edit)
      <3>1. d \in Seq(Int) /\ DOMAIN d = 1..Len(D) + 1
        BY <1>1, <2>3
      <3>2. d[Len(D) + 1] = Edit /\ \A b \in 1..Len(D) : d[b] = D[b]
        BY <1>1, <2>3
      <3>3. DOMAIN D = 1..Len(D) /\ Len(D) \in Nat
        OBVIOUS
      <3>. QED
        BY <3>1, <3>2, <3>3
    <2>0. d \in {[D EXCEPT ![b] = Edit] : b \in DOMAIN D}
               \cup {SubSeq(D, 1, n) : n \in 0 .. Len(D) - 1} \cup {Append(D, Edit)}
      BY <1>d, <1>D
    <2>4. (\E b \in DOMAIN D : d = [D EXCEPT ![b] = Edit])
          \/ (\E n \in 0..Len(D) - 1 : d = SubSeq(D, 1, n)) \/ d = Append(D, Edit)
      BY <2>0, Zenon
    <2>. QED
      BY <2>1, <2>2, <2>3, <2>4
  <1>3. /\ names' = names /\ nodes' = Rewritten(i, d, t) /\ edits' = edits + 1
        /\ UNCHANGED <<walkVars, backupVars, archive, damaged, restoreVars>>
    BY <1>t, <1>1 DEF Edited
  <1>4. /\ nodes'[i].data = d /\ nodes'[i].time = t /\ nodes'[i].kind = nodes[i].kind
        /\ nodes'[i].was = nodes[i].was \cup {d} /\ nodes'[i] \in NodeRecords
        /\ \A j \in Nodes : j # i => nodes'[j] = nodes[j]
    <2>N. PICK N \in [Nodes -> NodeRecords] : N = nodes
      BY DEF ArchiveTypes
    <2>t. t \in Nat
      BY <1>t, <1>1 DEF NodeRecords
    <2>r. PICK r : r = [N[i] EXCEPT !.data = d, !.time = t, !.was = @ \cup {d}]
      OBVIOUS
    <2>1. r.data = d /\ r.time = t /\ r.kind = N[i].kind /\ r.was = N[i].was \cup {d}
          /\ r = [kind |-> N[i].kind, time |-> t, data |-> d, was |-> N[i].was \cup {d}]
      BY <1>1, <2>r, <2>N DEF NodeRecords
    <2>2. nodes' = [N EXCEPT ![i] = r]
      BY <1>1, <1>3, <2>r, <2>N DEF Rewritten
    <2>3. r \in NodeRecords
      BY <1>1, <1>2, <2>1, <2>t, <2>N DEF NodeRecords
    <2>. QED
      BY <1>1, <2>1, <2>2, <2>3, <2>N
  <1>5. nodes' \in [Nodes -> NodeRecords]
    <2>1. DOMAIN nodes' = Nodes /\ nodes' = [j \in Nodes |-> nodes'[j]]
      BY <1>3 DEF Rewritten, ArchiveTypes
    <2>2. \A j \in Nodes : nodes'[j] \in NodeRecords
      BY <1>4 DEF ArchiveTypes
    <2>. QED
      BY <2>1, <2>2
  <1>6. UserMayEdit
    BY DEF WriteInPlace
  <1>7. EditOf(i)
    <2>1. names' \in [Paths -> {0} \cup Nodes] /\ names'[Root] = 1 /\ nodes'[1].kind = "directory"
      BY <1>n, <1>1, <1>3, <1>4 DEF ArchiveTypes, SourceInv
    <2>2. ASSUME NEW p \in Paths
          PROVE  /\ names'[p] <= Last + 1 + edits'
                 /\ names'[p] # 0 => nodes'[names'[p]].kind # "none"
      <3>1. names'[p] = names[p] /\ names[p] \in {0} \cup Nodes
        BY <1>3 DEF ArchiveTypes
      <3>2. names[p] <= Last + 1 + edits /\ (names[p] # 0 => nodes[names[p]].kind # "none")
        BY DEF SourceInv
      <3>3. names'[p] <= Last + 1 + edits'
        BY <1>n, <1>1, <1>3, <3>1, <3>2
      <3>4. ASSUME names'[p] # 0 PROVE nodes'[names'[p]].kind # "none"
        <4>1. names[p] \in Nodes /\ nodes[names[p]].kind # "none"
          BY <3>1, <3>2, <3>4
        <4>. QED
          BY <1>1, <1>4, <3>1, <4>1
      <3>. QED
        BY <3>3, <3>4
    <2>3. nodes'[i].data \in nodes'[i].was /\ nodes[i].was \subseteq nodes'[i].was
      BY <1>4
    <2>4. \A b \in DOMAIN nodes'[i].data :
            \/ nodes'[i].data[b] = edits'
            \/ b \in DOMAIN nodes[i].data /\ nodes'[i].data[b] = nodes[i].data[b]
      BY <1>1, <1>2, <1>3, <1>4, <1>D
    <2>5. nodes'[i].time = edits' \/ (method = "snapshot" /\ nodes'[i].time = nodes[i].time)
      BY <1>1, <1>3, <1>4, <1>t
    <2>6. i <= Last + 1 + edits'
      BY <1>n, <1>1, <1>3
    <2>7. \A p \in Paths : names'[p] \in {0, names[p]}
      BY <1>3
    <2>. QED
      BY <1>1, <1>3, <1>4, <1>5, <1>6, <2>1, <2>2, <2>3, <2>4, <2>5, <2>6, <2>7 DEF EditOf
  <1>. QED
    BY <1>1, <1>7

LEMMA RenamingIsAnEdit ==
    ASSUME ArchiveTypes, SourceInv, RemovePath \/ MoveOver
    PROVE  \E x \in Nodes : EditOf(x)
  <1>n. /\ Edits \in Nat /\ Last \in Nat /\ Nodes = 1..Last + 1 + Edits
        /\ 1 \in Nodes /\ Root \in Paths /\ Paths = 0..Last /\ Root = 0
    BY NodesAreNumbers
  <1>1. /\ nodes' = nodes /\ edits' = edits + 1 /\ edits \in Nat /\ UserMayEdit
        /\ UNCHANGED <<walkVars, backupVars, archive, damaged, restoreVars>>
        /\ names' \in [Paths -> {0} \cup Nodes] /\ names'[Root] = 1
        /\ \A p \in Paths : \/ names'[p] \in {0, names[p]}
                            \/ \E q \in Paths : names'[p] = names[q]
        /\ \A p \in Paths :
             \/ names'[p] \in {0, names[p]}
             \/ method \in {"v01", "mypack"} =>
                  \A k \in DOMAIN entries :
                    entries[k].path = p /\ entries[k].node # names'[p]
                    => ~SameAsListed(entries[k], names'[p])
    <2>t. names \in [Paths -> {0} \cup Nodes] /\ edits \in Nat /\ names[Root] = 1
      BY DEF ArchiveTypes, SourceInv
    <2>1. CASE RemovePath
      <3>p. PICK p \in 1..Last : Edited([names EXCEPT ![p] = 0], nodes) /\ UserMayEdit
        BY <2>1 DEF RemovePath
      <3>1. p # Root /\ p \in Paths
        BY <1>n
      <3>. QED
        BY <2>t, <3>p, <3>1 DEF Edited, Edit
    <2>2. CASE MoveOver
      <3>p. PICK p \in 1..Last, q \in 1..Last :
              /\ UserMayEdit
              /\ method \in {"v01", "mypack"} =>
                   \A k \in DOMAIN entries :
                     entries[k].path = p /\ entries[k].node # names[q]
                     => ~SameAsListed(entries[k], names[q])
              /\ Edited([names EXCEPT ![p] = names[q], ![q] = 0], nodes)
        BY <2>2 DEF MoveOver
      <3>1. p # Root /\ p \in Paths /\ q # Root /\ q \in Paths
        BY <1>n
      <3>2. names' = [names EXCEPT ![p] = names[q], ![q] = 0] /\ nodes' = nodes
            /\ edits' = edits + 1
            /\ UNCHANGED <<walkVars, backupVars, archive, damaged, restoreVars>>
        BY <3>p DEF Edited, Edit
      <3>3. names' \in [Paths -> {0} \cup Nodes] /\ names'[Root] = 1
        BY <1>n, <2>t, <3>1, <3>2
      <3>4. ASSUME NEW r \in Paths
            PROVE  \/ names'[r] \in {0, names[r]}
                   \/ r = p /\ names'[r] = names[q]
        BY <2>t, <3>1, <3>2
      <3>. QED
        BY <2>t, <3>1, <3>2, <3>3, <3>4, <3>p
    <2>. QED
      BY <2>1, <2>2
  <1>2. ASSUME NEW p \in Paths
        PROVE  /\ names'[p] <= Last + 1 + edits'
               /\ names'[p] # 0 => nodes'[names'[p]].kind # "none"
    <2>1. names'[p] = 0 \/ \E q \in Paths : names'[p] = names[q]
      BY <1>1
    <2>. QED
      BY <1>n, <1>1, <2>1 DEF SourceInv, ArchiveTypes
  <1>3. EditOf(1)
    <2>1. nodes \in [Nodes -> NodeRecords] /\ nodes[1].kind = "directory"
          /\ nodes[1].data \in nodes[1].was
      BY <1>n DEF ArchiveTypes, SourceInv
    <2>2. 1 <= Last + 1 + edits'
      BY <1>n, <1>1
    <2>. QED
      BY <1>n, <1>1, <1>2, <2>1, <2>2 DEF EditOf
  <1>. QED
    BY <1>n, <1>3

LEMMA NewEntryIsAnEdit ==
    ASSUME ArchiveTypes, SourceInv, PutNewEntry
    PROVE  \E x \in Nodes : EditOf(x)
  <1>n. /\ Edits \in Nat /\ Last \in Nat /\ Nodes = 1..Last + 1 + Edits
        /\ 1 \in Nodes /\ Root \in Paths /\ Paths = 0..Last /\ Root = 0
    BY NodesAreNumbers
  <1>p. PICK p \in 1..Last, k \in {"file", "symlink"} :
          /\ UserMayEdit
          /\ Edited([names EXCEPT ![p] = FreshNode],
                    [nodes EXCEPT ![FreshNode] = NewNode(k, Edit, <<Edit, Edit>>)])
    BY DEF PutNewEntry
  <1>t. /\ names \in [Paths -> {0} \cup Nodes] /\ edits \in Nat /\ edits < Edits
        /\ nodes \in [Nodes -> NodeRecords]
    BY <1>p DEF ArchiveTypes, UserMayEdit
  <1>x. PICK x \in Nodes : x = FreshNode /\ x = Last + 1 + edits + 1 /\ x # 1
    BY <1>n, <1>t DEF FreshNode, Edit
  <1>e. PICK E \in Nat : E = Edit /\ E = edits + 1
    BY <1>t DEF Edit
  <1>r. PICK r : r = NewNode(k, E, <<E, E>>)
    OBVIOUS
  <1>1. /\ names' = [names EXCEPT ![p] = x] /\ nodes' = [nodes EXCEPT ![x] = r]
        /\ edits' = edits + 1
        /\ UNCHANGED <<walkVars, backupVars, archive, damaged, restoreVars>>
    BY <1>p, <1>x, <1>e, <1>r DEF Edited
  <1>2. /\ r \in NodeRecords /\ r.kind # "none" /\ r.time = E /\ r.data = <<E, E>>
        /\ r.data \in r.was
    <2>1. <<E, E>> \in Seq(Int)
      OBVIOUS
    <2>2. r \in NodeRecords
      BY <1>r, <2>1, NewNodeIsANode
    <2>. QED
      BY <1>r, <2>2 DEF NewNode
  <1>3. names' \in [Paths -> {0} \cup Nodes] /\ nodes' \in [Nodes -> NodeRecords]
    BY <1>t, <1>1, <1>2
  <1>4. p # Root /\ p \in Paths
    BY <1>n
  <1>5. nodes'[x] = r /\ \A i \in Nodes : i # x => nodes'[i] = nodes[i]
    BY <1>t, <1>1
  <1>6. names'[p] = x /\ \A q \in Paths : q # p => names'[q] = names[q]
    BY <1>t, <1>1, <1>4
  <1>7. ASSUME NEW q \in Paths
        PROVE  /\ names'[q] <= Last + 1 + edits'
               /\ names'[q] # 0 => nodes'[names'[q]].kind # "none"
               /\ names'[q] = names[q] \/ nodes'[names'[q]].time = edits'
    <2>1. CASE q = p
      BY <1>1, <1>2, <1>5, <1>6, <1>x, <1>e, <1>t, <1>n, <2>1
    <2>2. CASE q # p
      <3>1. names'[q] = names[q] /\ names[q] \in {0} \cup Nodes /\ names[q] <= Last + 1 + edits
            /\ (names[q] # 0 => nodes[names[q]].kind # "none")
        BY <1>6, <2>2, <1>t DEF SourceInv
      <3>2. names[q] # x /\ names[q] <= Last + 1 + edits'
        BY <1>n, <1>t, <1>x, <1>1, <3>1
      <3>. QED
        BY <1>5, <3>1, <3>2
    <2>. QED
      BY <2>1, <2>2
  <1>8. EditOf(x)
    <2>1. names'[Root] = 1 /\ nodes'[1].kind = "directory"
      BY <1>n, <1>4, <1>5, <1>6, <1>x DEF SourceInv
    <2>2. ~(x <= Last + 1 + edits) /\ x <= Last + 1 + edits'
      BY <1>n, <1>t, <1>x, <1>1
    <2>3. \A b \in DOMAIN nodes'[x].data : nodes'[x].data[b] = edits'
      BY <1>1, <1>2, <1>5, <1>e
    <2>4. nodes'[x].time = edits' /\ nodes'[x].data \in nodes'[x].was
      BY <1>1, <1>2, <1>5, <1>e
    <2>5. \A q \in Paths : names'[q] \in {0, names[q]} \/ nodes'[names'[q]].time = edits'
      BY <1>7
    <2>6. UserMayEdit
      BY <1>p
    <2>7. \A q \in Paths : /\ names'[q] <= Last + 1 + edits'
                           /\ names'[q] # 0 => nodes'[names'[q]].kind # "none"
      BY <1>7
    <2>. QED
      BY <1>1, <1>3, <1>5, <2>1, <2>2, <2>3, <2>4, <2>5, <2>6, <2>7 DEF EditOf
  <1>. QED
    BY <1>8

\* What the source still says after an edit of what was there before it.
LEMMA WholeStays ==
    ASSUME ArchiveTypes, NEW x \in Nodes, EditOf(x), NEW CONSTANT d, Whole(d)
    PROVE  Whole(d)'
  <1>1. PICK i \in Nodes : i <= Last + 1 + edits /\ d \in nodes[i].was
    BY DEF Whole
  <1>2. d \in nodes'[i].was
    BY <1>1 DEF EditOf
  <1>3. i <= Last + 1 + edits' /\ Nodes' = Nodes
    BY <1>1, NodesAreNumbers DEF EditOf, ArchiveTypes, Nodes
  <1>. QED
    BY <1>2, <1>3 DEF Whole

LEMMA LostStays ==
    ASSUME ArchiveTypes, NEW x \in Nodes, EditOf(x), NEW CONSTANT v \in Int, NEW CONSTANT b,
           Lost(v, b)
    PROVE  Lost(v, b)'
  <1>1. edits \in Nat /\ edits' = edits + 1 /\ v <= edits
        /\ \A i \in Nodes : b \in DOMAIN nodes[i].data => nodes[i].data[b] # v
    BY DEF ArchiveTypes, EditOf, Lost
  <1>2. v <= edits' /\ v # edits'
    BY <1>1
  <1>3. ASSUME NEW i \in Nodes, b \in DOMAIN nodes'[i].data PROVE nodes'[i].data[b] # v
    <2>1. CASE i = x
      BY <1>1, <1>2, <1>3, <2>1 DEF EditOf
    <2>2. CASE i # x
      BY <1>1, <1>3, <2>2 DEF EditOf
    <2>. QED
      BY <2>1, <2>2
  <1>. QED
    BY <1>2, <1>3 DEF Lost, Nodes

LEMMA BlockStaysOrIsLost ==
    ASSUME ArchiveTypes, SourceInv, NEW x \in Nodes, EditOf(x),
           NEW CONSTANT i \in Nodes, NEW CONSTANT b, b \in DOMAIN nodes[i].data,
           NEW CONSTANT v, v = nodes[i].data[b]
    PROVE  (b \in DOMAIN nodes'[i].data /\ nodes'[i].data[b] = v) \/ Lost(v, b)'
  <1>1. edits \in Nat /\ edits' = edits + 1 /\ v <= edits /\ v \in Int
    BY DEF ArchiveTypes, EditOf, SourceInv, NodeRecords
  <1>2. v <= edits'
    BY <1>1
  <1>3. ASSUME ~(b \in DOMAIN nodes'[i].data /\ nodes'[i].data[b] = v) PROVE Lost(v, b)'
    <2>0. i = x
      BY <1>3 DEF EditOf
    <2>1. ASSUME NEW j \in Nodes, b \in DOMAIN nodes'[j].data PROVE nodes'[j].data[b] # v
      <3>1. CASE j = x
        BY <1>3, <2>0, <2>1, <3>1
      <3>2. CASE j # x
        <4>1. nodes'[j] = nodes[j]
          BY <3>2 DEF EditOf
        <4>2. b \in DOMAIN nodes[i].data \cap DOMAIN nodes[j].data
          BY <2>1, <4>1
        <4>3. nodes[i].data[b] # nodes[j].data[b]
          BY <2>0, <3>2, <4>2 DEF SourceInv
        <4>. QED
          BY <4>1, <4>3
      <3>. QED
        BY <3>1, <3>2
    <2>. QED
      BY <1>2, <2>1 DEF Lost, Nodes
  <1>. QED
    BY <1>3

LEMMA EditKeepsSource ==
    ASSUME ArchiveTypes, SourceInv, NEW x \in Nodes, EditOf(x)
    PROVE  SourceInv'
  <1>n. Nodes' = Nodes /\ Paths' = Paths /\ Last \in Nat /\ Nodes \subseteq Nat
    BY NodesAreNumbers DEF Nodes, Paths
  <1>1. edits \in Nat /\ edits' = edits + 1 /\ nodes \in [Nodes -> NodeRecords]
        /\ nodes' \in [Nodes -> NodeRecords]
    BY DEF ArchiveTypes, EditOf
  <1>2. names'[Root] = 1 /\ nodes'[1].kind = "directory"
    BY DEF EditOf
  <1>3. \A p \in Paths : /\ names'[p] # 0 => nodes'[names'[p]].kind # "none"
                         /\ names'[p] <= Last + 1 + edits'
    BY DEF EditOf
  <1>4. ASSUME NEW i \in Nodes, i > Last + 1 + edits' PROVE nodes'[i].data = <<>>
    <2>1. i # x /\ i > Last + 1 + edits
      BY <1>1, <1>4, <1>n DEF EditOf
    <2>. QED
      BY <2>1 DEF EditOf, SourceInv
  <1>5. ASSUME NEW i \in Nodes
        PROVE  nodes'[i].data \in nodes'[i].was /\ nodes'[i].time <= edits'
    <2>1. nodes[i].data \in nodes[i].was /\ nodes[i].time <= edits /\ nodes[i].time \in Nat
      BY <1>1 DEF SourceInv, NodeRecords
    <2>2. CASE i = x
      BY <1>1, <2>1, <2>2 DEF EditOf
    <2>3. CASE i # x
      BY <1>1, <2>1, <2>3 DEF EditOf
    <2>. QED
      BY <2>2, <2>3
  <1>6. ASSUME NEW i \in Nodes, NEW b \in DOMAIN nodes'[i].data
        PROVE  /\ nodes'[i].data[b] <= edits'
               /\ \/ nodes'[i].data[b] = edits' /\ i = x
                  \/ b \in DOMAIN nodes[i].data /\ nodes'[i].data[b] = nodes[i].data[b]
    <2>1. \/ nodes'[i].data[b] = edits' /\ i = x
          \/ b \in DOMAIN nodes[i].data /\ nodes'[i].data[b] = nodes[i].data[b]
      BY DEF EditOf
    <2>2. b \in DOMAIN nodes[i].data =>
            nodes[i].data[b] <= edits /\ nodes[i].data[b] \in Int
      BY <1>1 DEF SourceInv, NodeRecords
    <2>. QED
      BY <1>1, <2>1, <2>2
  <1>7. ASSUME NEW i \in Nodes, NEW j \in Nodes,
               NEW b \in DOMAIN nodes'[i].data \cap DOMAIN nodes'[j].data,
               nodes'[i].data[b] = nodes'[j].data[b]
        PROVE  i = j
    <2>1. \A k \in Nodes : b \in DOMAIN nodes[k].data =>
            nodes[k].data[b] <= edits /\ nodes[k].data[b] \in Int
      <3>1. \A k \in Nodes : \A c \in DOMAIN nodes[k].data : nodes[k].data[c] <= edits
        BY Zenon DEF SourceInv
      <3>2. \A k \in Nodes : nodes[k].data \in Seq(Int)
        BY <1>1 DEF NodeRecords
      <3>. QED
        BY <3>1, <3>2
    <2>2. /\ \/ nodes'[i].data[b] = edits' /\ i = x
             \/ b \in DOMAIN nodes[i].data /\ nodes'[i].data[b] = nodes[i].data[b]
          /\ \/ nodes'[j].data[b] = edits' /\ j = x
             \/ b \in DOMAIN nodes[j].data /\ nodes'[j].data[b] = nodes[j].data[b]
      BY <1>6
    <2>3. CASE b \in DOMAIN nodes[i].data /\ nodes'[i].data[b] = nodes[i].data[b]
               /\ b \in DOMAIN nodes[j].data /\ nodes'[j].data[b] = nodes[j].data[b]
      <3>1. b \in DOMAIN nodes[i].data \cap DOMAIN nodes[j].data
            /\ nodes[i].data[b] = nodes[j].data[b]
        BY <1>7, <2>3
      <3>2. \A c \in DOMAIN nodes[i].data \cap DOMAIN nodes[j].data :
              nodes[i].data[c] = nodes[j].data[c] => i = j
        BY DEF SourceInv
      <3>. QED
        BY <3>1, <3>2
    <2>4. \A k \in Nodes : b \in DOMAIN nodes[k].data => nodes[k].data[b] # edits'
      BY <1>1, <2>1
    <2>5. CASE nodes'[i].data[b] = edits'
      BY <1>7, <2>2, <2>4, <2>5
    <2>6. CASE nodes'[i].data[b] # edits'
      BY <1>7, <2>2, <2>3, <2>6
    <2>. QED
      BY <2>5, <2>6
  <1>. QED
    BY <1>n, <1>2, <1>3, <1>4, <1>5, <1>6, <1>7 DEF SourceInv

LEMMA EditKeepsListing ==
    ASSUME ArchiveInv, Backing, NEW x \in Nodes, EditOf(x)
    PROVE  ListingInv' /\ VisitInv' /\ PackInv' /\ PublishedInv' /\ TargetInv' /\ ReadingInv'
           /\ AcceptedMeansRestored' /\ ArchiveTypes'
  <1>1. UNCHANGED <<walkVars, backupVars, archive, damaged, restoreVars>>
    BY DEF EditOf
  <1>2. UNCHANGED <<method, excluded, unread, toVisit, phase, entries, hashed, reader, archive,
                    damaged, disk, at, links, directories, target>>
    BY <1>1 DEF walkVars, backupVars, restoreVars
  <1>3. ListingInv'
    <2>1. ListingInv
      BY DEF ArchiveInv
    <2>. QED
      BY <1>2, <2>1 DEF ListingInv, IsListing, SharedFile
  <1>4. VisitInv'
    <2>1. VisitInv
      BY DEF ArchiveInv, BackingInv
    <2>. QED
      BY <1>2, <2>1 DEF VisitInv
  <1>5. PackInv'
    <2>1. PackInv
      BY DEF ArchiveInv, BackingInv
    <2>2. /\ archive' = [NoFile EXCEPT !.format = Format(method), !.stream = archive.stream]
          /\ damaged = "no" /\ PackedSoFar
          /\ ~Packing => archive.stream = <<>>
          /\ method = "v01" => phase = "walk"
          /\ phase = "walk" => hashed = 0
          /\ phase \in {"hash", "recheck"} => method = "snapshot"
      BY <1>2, <2>1 DEF PackInv
    <2>3. PackedSoFar'
      BY <1>2, <2>2 DEF PackedSoFar, MemberOf, ListedData
    <2>s. PICK s : s = archive.stream
      OBVIOUS
    <2>4. ASSUME NEW k \in DOMAIN s, s[k].kind = "file" PROVE Whole(s[k].data)'
      <3>d. PICK d : d = s[k].data
        OBVIOUS
      <3>1. Whole(d)
        BY <2>1, <2>s, <2>4, <3>d DEF PackInv
      <3>2. Whole(d)'
        BY <3>1, WholeStays DEF ArchiveInv
      <3>. QED
        BY <3>2, <3>d
    <2>5. archive'.stream = s
      BY <1>2, <2>s
    <2>6. \A k \in DOMAIN archive'.stream :
            archive'.stream[k].kind = "file" => Whole(archive.stream[k].data)'
      BY <2>4, <2>5
    <2>. QED
      BY <1>2, <2>2, <2>3, <2>6 DEF PackInv, Packing
  <1>6. PublishedInv' /\ ReadingInv' /\ AcceptedMeansRestored' /\ Backing'
    BY <1>2 DEF Backing, PublishedInv, ReadingInv, AcceptedMeansRestored
  <1>7. TargetInv'
    BY <1>2 DEF ArchiveInv, TargetInv, DestinationIsAllOrNothing
  <1>8. ArchiveTypes'
    <2>1. names' \in [Paths -> {0} \cup Nodes] /\ nodes' \in [Nodes -> NodeRecords]
      BY DEF EditOf
    <2>2. edits' \in 0..Edits
      BY NodesAreNumbers DEF EditOf, UserMayEdit, ArchiveInv, ArchiveTypes
    <2>3. Nodes' = Nodes /\ Paths' = Paths
      BY DEF Nodes, Paths
    <2>4. ArchiveTypes
      BY DEF ArchiveInv
    <2>. QED
      BY <1>2, <2>1, <2>2, <2>3, <2>4 DEF ArchiveTypes, Backing
  <1>. QED
    BY <1>3, <1>4, <1>5, <1>6, <1>7, <1>8

LEMMA SettledStays ==
    ASSUME ArchiveTypes, NEW x \in Nodes, EditOf(x), NEW CONSTANT d \in Seq(Int), Settled(d)
    PROVE  Settled(d)'
  <1>1. CASE Whole(d)
    <2>1. Whole(d)'
      BY <1>1, WholeStays
    <2>. QED
      BY <2>1 DEF Settled
  <1>2. CASE \E b \in DOMAIN d : Lost(d[b], b)
    <2>1. PICK b \in DOMAIN d : Lost(d[b], b)
      BY <1>2
    <2>v. PICK v \in Int : v = d[b]
      OBVIOUS
    <2>2. Lost(v, b)'
      BY <2>1, <2>v, LostStays
    <2>. QED
      BY <2>v, <2>2 DEF Settled
  <1>. QED
    BY <1>1, <1>2 DEF Settled

\* A file that is now of the size and time that were listed was so before.
LEMMA SameStays ==
    ASSUME ArchiveTypes, NEW x \in Nodes, EditOf(x), NEW CONSTANT i \in Nodes,
           NEW CONSTANT e \in EntryRecords, e.time <= edits, method # "snapshot",
           SameAsListed(e, i)'
    PROVE  nodes'[i] = nodes[i] /\ SameAsListed(e, i)
  <1>1. Len(nodes'[i].data) = e.size /\ nodes'[i].time = e.time
    BY DEF SameAsListed
  <1>2. e.time # edits'
    BY DEF EditOf, ArchiveTypes, EntryRecords
  <1>3. nodes'[i] = nodes[i]
    BY <1>1, <1>2 DEF EditOf
  <1>. QED
    BY <1>1, <1>3 DEF SameAsListed

LEMMA EntriesAreTyped ==
    ASSUME entries \in Seq(EntryRecords), NEW k \in DOMAIN entries, NEW e, e = entries[k]
    PROVE  /\ e \in EntryRecords /\ e.path \in Paths /\ e.size \in Nat /\ e.time \in Nat
           /\ e.data \in Seq(Int) /\ e.node \in Nodes /\ e.shared \in BOOLEAN
           /\ e.kind \in {"directory", "file", "symlink", "fifo", "hardlink"}
           /\ e.link \in Paths
  <1>1. e \in EntryRecords
    OBVIOUS
  <1>. QED
    BY <1>1 DEF EntryRecords

LEMMA EditKeepsEntries ==
    ASSUME ArchiveTypes, EntriesInv, NEW x \in Nodes, EditOf(x)
    PROVE  EntriesInv'
  <1>1. UNCHANGED <<walkVars, backupVars, archive, damaged, restoreVars>>
    BY DEF EditOf
  <1>2. UNCHANGED <<method, phase, entries, hashed>>
    BY <1>1 DEF walkVars, backupVars
  <1>3. edits \in Nat /\ edits' = edits + 1 /\ nodes \in [Nodes -> NodeRecords]
        /\ nodes' \in [Nodes -> NodeRecords] /\ entries \in Seq(EntryRecords)
        /\ names' \in [Paths -> {0} \cup Nodes]
    BY DEF ArchiveTypes, EditOf
  <1>4. ASSUME NEW CONSTANT k \in DOMAIN entries, NEW CONSTANT e, e = entries[k]
        PROVE  /\ e.time <= edits'
               /\ e.kind = "file" /\ e.size = 0 => Whole(<<>>)'
               /\ method # "snapshot" /\ SameAsListed(e, e.node)' => nodes'[e.node].data = e.data
               /\ method \in {"v01", "mypack"} /\ names'[e.path] # 0
                    /\ SameAsListed(e, names[e.path])' =>
                      nodes'[names'[e.path]].data = e.data
               /\ /\ phase \in {"recheck", "pack"} \/ (phase = "hash" /\ k <= hashed)
                  /\ method = "snapshot" /\ e.kind = "file"
                  => Settled(e.data)'
    <2>e. /\ e \in EntryRecords /\ e.time \in Nat /\ e.node \in Nodes /\ e.path \in Paths
          /\ e.data \in Seq(Int)
      BY <1>3, <1>4, EntriesAreTyped
    <2>0. /\ e.time <= edits
          /\ e.kind = "file" /\ e.size = 0 => Whole(<<>>)
          /\ method # "snapshot" /\ SameAsListed(e, e.node) => nodes[e.node].data = e.data
          /\ method \in {"v01", "mypack"} /\ names[e.path] # 0
               /\ SameAsListed(e, names[e.path]) => nodes[names[e.path]].data = e.data
          /\ /\ phase \in {"recheck", "pack"} \/ (phase = "hash" /\ k <= hashed)
             /\ method = "snapshot" /\ e.kind = "file"
             => Settled(e.data)
      BY <1>4 DEF EntriesInv
    <2>1. e.time <= edits'
      BY <1>3, <2>e, <2>0
    <2>2. e.kind = "file" /\ e.size = 0 => Whole(<<>>)'
      BY <2>0, WholeStays
    <2>3. ASSUME method # "snapshot", SameAsListed(e, e.node)'
          PROVE  nodes'[e.node].data = e.data
      <3>1. nodes'[e.node] = nodes[e.node] /\ SameAsListed(e, e.node)
        BY <2>e, <2>0, <2>3, SameStays
      <3>. QED
        BY <2>0, <2>3, <3>1
    <2>4. ASSUME method \in {"v01", "mypack"}, names'[e.path] # 0,
                 SameAsListed(e, names[e.path])'
          PROVE  nodes'[names'[e.path]].data = e.data
      <3>i. PICK i \in Nodes : i = names'[e.path]
        BY <1>3, <2>e, <2>4
      <3>1. SameAsListed(e, i)'
        BY <2>4, <3>i DEF SameAsListed
      <3>2. nodes'[i] = nodes[i] /\ SameAsListed(e, i)
        BY <2>e, <2>0, <2>4, <3>1, SameStays
      <3>3. nodes'[i].time # edits'
        BY <1>3, <2>e, <2>0, <3>1 DEF SameAsListed
      <3>4. \/ i = names[e.path]
            \/ entries[k].path = e.path /\ entries[k].node # i => ~SameAsListed(entries[k], i)
        BY <1>4, <2>e, <2>4, <3>3, <3>i DEF EditOf
      <3>5. CASE i = names[e.path]
        BY <2>0, <2>4, <3>i, <3>2, <3>5
      <3>6. CASE e.node = i
        BY <2>0, <2>4, <3>i, <3>2, <3>6
      <3>. QED
        BY <1>4, <3>2, <3>4, <3>5, <3>6
    <2>5. ASSUME phase \in {"recheck", "pack"} \/ (phase = "hash" /\ k <= hashed),
                 method = "snapshot", e.kind = "file"
          PROVE  Settled(e.data)'
      <3>d. PICK d \in Seq(Int) : d = e.data
        BY <2>e
      <3>1. Settled(d)
        BY <2>0, <2>5, <3>d
      <3>. QED
        BY <3>1, <3>d, SettledStays
    <2>. QED
      BY <2>1, <2>2, <2>3, <2>4, <2>5
  <1>5. ASSUME NEW k \in DOMAIN entries
        PROVE  LET e == entries[k] IN
               /\ e.time <= edits'
               /\ e.kind = "file" /\ e.size = 0 => Whole(<<>>)'
               /\ method # "snapshot" /\ SameAsListed(e, e.node)' => nodes'[e.node].data = e.data
               /\ method \in {"v01", "mypack"} /\ names'[e.path] # 0
                    /\ SameAsListed(e, names[e.path])' =>
                      nodes'[names'[e.path]].data = e.data
               /\ /\ phase \in {"recheck", "pack"} \/ (phase = "hash" /\ k <= hashed)
                  /\ method = "snapshot" /\ e.kind = "file"
                  => Settled(e.data)'
    <2>k. PICK j \in DOMAIN entries : j = k
      OBVIOUS
    <2>e. PICK e : e = entries[j]
      OBVIOUS
    <2>1. entries' = entries
      BY <1>2
    <2>2. e = entries[k] /\ e = entries'[k]
      BY <2>k, <2>e, <2>1
    <2>. HIDE DEF Whole, SameAsListed, Settled
    <2>3. /\ e.time <= edits'
          /\ e.kind = "file" /\ e.size = 0 => Whole(<<>>)'
          /\ method # "snapshot" /\ SameAsListed(e, e.node)' => nodes'[e.node].data = e.data
          /\ method \in {"v01", "mypack"} /\ names'[e.path] # 0
               /\ SameAsListed(e, names[e.path])' =>
                 nodes'[names'[e.path]].data = e.data
          /\ /\ phase \in {"recheck", "pack"} \/ (phase = "hash" /\ j <= hashed)
             /\ method = "snapshot" /\ e.kind = "file"
             => Settled(e.data)'
      BY <1>4, <2>e
    <2>. QED
      BY <2>2, <2>3, <2>k, <1>2 DEF SameAsListed, Settled, Whole, Lost
  <1>. QED
    BY <1>2, <1>5 DEF EntriesInv, SameAsListed

LEMMA EditKeepsReader ==
    ASSUME ArchiveTypes, SourceInv, ReaderInv, EntriesInv, PackInv, NEW x \in Nodes, EditOf(x)
    PROVE  ReaderInv'
  <1>1. UNCHANGED <<walkVars, backupVars, archive, damaged, restoreVars>>
    BY DEF EditOf
  <1>2. UNCHANGED <<method, phase, entries, hashed, reader, archive>>
    BY <1>1 DEF walkVars, backupVars
  <1>3. edits \in Nat /\ edits' = edits + 1 /\ nodes \in [Nodes -> NodeRecords]
        /\ nodes' \in [Nodes -> NodeRecords] /\ entries \in Seq(EntryRecords)
        /\ reader \in [node : {0} \cup Nodes, got : Seq(Int)] /\ Last \in Nat
    BY NodesAreNumbers DEF ArchiveTypes, EditOf
  <1>4. reader = Closed \/ reader.node \in 1..Last + 1 + edits'
    BY <1>3 DEF ReaderInv
  <1>5. reader # Closed =>
       \/ phase = "hash" /\ FilesToHash # {}
       \/ Packing /\ NextToPack <= Len(entries) /\ ~WithoutPayload(entries[NextToPack])
    BY DEF ReaderInv
  <1>n. reader # Closed => reader.node \in Nodes
    BY <1>3, NodesAreNumbers DEF ReaderInv
  <1>6. ASSUME reader # Closed, method # "snapshot"
        PROVE  LET e == entries[NextToPack] IN
               /\ Begins(reader.got, OpenNode'.data) \/ OpenNode'.time > e.time
               /\ method \in {"v01", "mypack"} /\ SameAsListed(e, reader.node)' =>
                    OpenNode'.data = e.data
    <2>n. PICK n \in Nodes : n = reader.node
      BY <1>n, <1>6
    <2>k. PICK k \in DOMAIN entries : k = NextToPack
      <3>1. Packing /\ NextToPack <= Len(entries)
        BY <1>6, <1>5 DEF PackInv
      <3>. QED
        BY <3>1, <1>3 DEF NextToPack, ArchiveTypes
    <2>e. PICK e : e = entries[k]
      OBVIOUS
    <2>1. e \in EntryRecords /\ e.time \in Nat /\ e.time <= edits
      BY <1>3, <2>e, EntriesAreTyped DEF EntriesInv
    <2>2. /\ Begins(reader.got, nodes[n].data) \/ nodes[n].time > e.time
          /\ method \in {"v01", "mypack"} /\ SameAsListed(e, n) => nodes[n].data = e.data
      BY <1>6, <2>n, <2>k, <2>e DEF ReaderInv, OpenNode
    <2>3. Begins(reader.got, nodes'[n].data) \/ nodes'[n].time > e.time
      <3>1. nodes'[n] = nodes[n] \/ nodes'[n].time = edits'
        BY <1>6 DEF EditOf
      <3>. QED
        BY <1>3, <2>1, <2>2, <3>1
    <2>4. method \in {"v01", "mypack"} /\ SameAsListed(e, n)' => nodes'[n].data = e.data
      <3>1. SameAsListed(e, n)' => nodes'[n] = nodes[n] /\ SameAsListed(e, n)
        BY <1>6, <2>1, SameStays
      <3>. QED
        BY <2>2, <3>1
    <2>. QED
      <3>1. entries'[NextToPack'] = e /\ entries[NextToPack] = e /\ reader' = reader
        BY <1>2, <2>k, <2>e DEF NextToPack
      <3>. QED
        BY <2>3, <2>4, <2>n, <3>1 DEF OpenNode, SameAsListed
  <1>7. ASSUME reader # Closed, phase = "hash", NEW b \in DOMAIN reader.got
        PROVE  \/ b \in DOMAIN OpenNode'.data /\ OpenNode'.data[b] = reader.got[b]
               \/ Lost(reader.got[b], b)'
    <2>n. PICK n \in Nodes : n = reader.node
      BY <1>n, <1>7
    <2>b. PICK c : c = b
      OBVIOUS
    <2>v. PICK v \in Int : v = reader.got[b]
      BY <1>3
    <2>1. (c \in DOMAIN nodes[n].data /\ nodes[n].data[c] = v) \/ Lost(v, c)
      BY <1>7, <2>n, <2>b, <2>v DEF ReaderInv, OpenNode
    <2>2. (c \in DOMAIN nodes'[n].data /\ nodes'[n].data[c] = v) \/ Lost(v, c)'
      BY <2>1, LostStays, BlockStaysOrIsLost
    <2>. QED
      BY <1>2, <2>2, <2>n, <2>b, <2>v DEF OpenNode, Lost
  <1>8. ASSUME method = "snapshot", phase = "pack", NEW k \in DOMAIN entries,
               entries[k].kind = "file"
        PROVE  \/ Whole(entries[k].data)'
               \/ \E b \in DOMAIN entries[k].data :
                    /\ Lost(entries[k].data[b], b)'
                    /\ b \in DOMAIN reader.got => reader.got[b] # entries[k].data[b]
    <2>d. PICK d \in Seq(Int) : d = entries[k].data
      BY <1>3, EntriesAreTyped
    <2>1. \/ Whole(d)
          \/ \E b \in DOMAIN d :
               Lost(d[b], b) /\ (b \in DOMAIN reader.got => reader.got[b] # d[b])
      BY <1>8, <2>d DEF ReaderInv
    <2>2. CASE Whole(d)
      <3>1. Whole(d)'
        BY <2>2, WholeStays
      <3>2. entries'[k].data = d
        BY <1>2, <2>d
      <3>. QED
        BY <3>1, <3>2 DEF Whole
    <2>3. CASE \E b \in DOMAIN d :
               Lost(d[b], b) /\ (b \in DOMAIN reader.got => reader.got[b] # d[b])
      <3>b. PICK b \in DOMAIN d :
               Lost(d[b], b) /\ (b \in DOMAIN reader.got => reader.got[b] # d[b])
        BY <2>3
      <3>v. PICK v \in Int : v = d[b]
        OBVIOUS
      <3>1. Lost(v, b)'
        BY <3>b, <3>v, LostStays
      <3>2. Lost(d[b], b)'
        BY <3>1, <3>v
      <3>. QED
        BY <3>2, <3>b, <2>d, <1>2 DEF Lost
    <2>. QED
      BY <2>1, <2>2, <2>3
  <1>9. FilesToHash' = FilesToHash /\ Packing' = Packing /\ NextToPack' = NextToPack
        /\ reader' = reader /\ Closed' = Closed
        /\ \A e : WithoutPayload(e)' = WithoutPayload(e)
    BY <1>2 DEF FilesToHash, Packing, NextToPack, WithoutPayload, Closed
  <1>. QED
    <2>1. reader' = Closed \/ reader'.node \in 1..Last + 1 + edits'
      BY <1>2, <1>4
    <2>2. reader' # Closed =>
           \/ phase' = "hash" /\ FilesToHash' # {}
           \/ Packing' /\ NextToPack' <= Len(entries') /\ ~WithoutPayload(entries[NextToPack])'
      BY <1>2, <1>5, <1>9 DEF WithoutPayload
    <2>. QED
      BY <1>2, <1>6, <1>7, <1>8, <1>9, <2>1, <2>2 DEF ReaderInv

LEMMA EditKeepsInv == ASSUME ArchiveInv, EditStep PROVE ArchiveInv'
  <1>1. Backing /\ ArchiveTypes
    BY DEF EditStep, WriteInPlace, RemovePath, PutNewEntry, MoveOver, UserMayEdit, Backing,
           ArchiveInv
  <1>2. SourceInv /\ EntriesInv /\ ReaderInv /\ PackInv
    BY <1>1 DEF ArchiveInv, BackingInv
  <1>3. PICK x \in Nodes : EditOf(x)
    BY <1>1, <1>2, WriteIsAnEdit, RenamingIsAnEdit, NewEntryIsAnEdit DEF EditStep
  <1>4. ListingInv' /\ VisitInv' /\ PackInv' /\ PublishedInv' /\ TargetInv' /\ ReadingInv'
        /\ AcceptedMeansRestored' /\ ArchiveTypes'
    BY <1>1, <1>3, EditKeepsListing
  <1>5. SourceInv' /\ EntriesInv' /\ ReaderInv'
    BY <1>1, <1>2, <1>3, EditKeepsSource, EditKeepsEntries, EditKeepsReader
  <1>. QED
    BY <1>4, <1>5 DEF ArchiveInv, BackingInv

-----------------------------------------------------------------------------
(* The backup: the walk *)

LEMMA FailKeepsInv == ASSUME ArchiveInv, Backing, Fail PROVE ArchiveInv'
  <1>1. /\ phase' = "failed" /\ reader' = Closed /\ archive' = NoFile
        /\ UNCHANGED <<names, nodes, edits, method, excluded, unread, toVisit, entries, hashed,
                       damaged, disk, at, links, directories, target>>
    BY DEF Fail, sourceVars, walkVars, restoreVars
  <1>2. ArchiveTypes'
    <2>1. archive'.stream \in Seq(StreamMembers) /\ ~Backing'
          /\ reader' \in [node : {0} \cup Nodes, got : Seq(Int)]
      BY <1>1 DEF NoFile, Backing, Closed
    <2>2. ArchiveTypes
      BY DEF ArchiveInv
    <2>. QED
      BY <1>1, <2>1, <2>2 DEF ArchiveTypes, Nodes, Paths
  <1>3. ListingInv'
    <2>1. ListingInv
      BY DEF ArchiveInv
    <2>. QED
      BY <1>1, <2>1 DEF ListingInv, IsListing, SharedFile
  <1>4. BackingInv' /\ PublishedInv' /\ ReadingInv' /\ AcceptedMeansRestored'
    BY <1>1 DEF BackingInv, Backing, PublishedInv, ReadingInv, AcceptedMeansRestored
  <1>5. TargetInv'
    BY <1>1 DEF ArchiveInv, TargetInv, DestinationIsAllOrNothing, Backing
  <1>. QED
    BY <1>2, <1>3, <1>4, <1>5 DEF ArchiveInv

\* While a backup runs nothing has been published nor restored.
LEMMA OthersWhileBacking ==
    ASSUME ArchiveInv, Backing, Backing',
           UNCHANGED <<target, damaged>>, archive'.format = archive.format
    PROVE  PublishedInv' /\ ReadingInv' /\ AcceptedMeansRestored' /\ TargetInv'
  <1>1. phase' \notin {"published", "restore", "restored", "stuck", "died"}
    BY DEF Backing
  <1>2. TargetInv'
    BY <1>1 DEF ArchiveInv, TargetInv, DestinationIsAllOrNothing, Backing
  <1>. QED
    BY <1>1, <1>2 DEF PublishedInv, ReadingInv, AcceptedMeansRestored

LEMMA FirstNameIsASharedFile ==
    ASSUME entries \in Seq(EntryRecords), NEW i, NEW n, n = FirstNameOf(i)
    PROVE  \/ /\ n = 0
              /\ method = "v01" \/ \A j \in DOMAIN entries : ~SharedFile(entries[j], i)
           \/ n \in DOMAIN entries /\ n # 0 /\ method # "v01" /\ SharedFile(entries[n], i)
  <1>s. PICK S : S = {j \in DOMAIN entries : entries[j].kind = "file"
                                 /\ entries[j].node = i /\ entries[j].shared}
    OBVIOUS
  <1>1. n = IF S = {} \/ method = "v01" THEN 0 ELSE CHOOSE j \in S : \A k \in S : j <= k
    BY <1>s DEF FirstNameOf
  <1>2. CASE S = {} \/ method = "v01"
    BY <1>1, <1>2, <1>s DEF SharedFile
  <1>3. CASE S # {} /\ method # "v01"
    <2>1. S \in SUBSET Nat /\ 0 \notin S
      BY <1>s
    <2>2. \E j \in S : \A k \in S : j <= k
      BY <1>3, <2>1, LeastNumber
    <2>3. n \in S
      BY <1>1, <1>3, <2>2
    <2>. QED
      BY <1>3, <1>s, <2>1, <2>3 DEF SharedFile
  <1>. QED
    BY <1>2, <1>3

\* What an entry says, and that a file that was listed before is linked to.
LEMMA EntryOfAPath ==
    ASSUME ArchiveTypes, SourceInv, NEW p \in Paths, names[p] # 0, Supported(KindOf(p)),
           NEW e, e = EntryOf(p)
    PROVE  /\ e \in EntryRecords /\ e.path = p /\ e.node = names[p]
           /\ e.size = Len(nodes[names[p]].data) /\ e.data = nodes[names[p]].data
           /\ e.time = nodes[names[p]].time
           /\ e.shared => KindOf(p) = "file" /\ e.kind \in {"file", "hardlink"}
           /\ KindOf(p) # "file" => e.kind = KindOf(p) /\ ~e.shared
           /\ KindOf(p) = "file" => e.kind \in {"file", "hardlink"}
           /\ e.kind = "hardlink" =>
                /\ method # "v01" /\ e.shared
                /\ \E j \in DOMAIN entries : SharedFile(entries[j], e.node)
                                             /\ e.link = entries[j].path
           /\ method = "v01" => e.kind \in {"directory", "file"}
           /\ method # "v01" /\ e.kind = "file" /\ e.shared =>
                \A j \in DOMAIN entries : ~SharedFile(entries[j], e.node)
  <1>i. PICK i \in Nodes : i = names[p]
    BY DEF ArchiveTypes
  <1>1. /\ KindOf(p) = nodes[i].kind /\ nodes[i] \in NodeRecords /\ nodes[i].kind # "none"
        /\ entries \in Seq(EntryRecords)
    BY <1>i DEF KindOf, ArchiveTypes, SourceInv
  <1>s. PICK shared \in BOOLEAN : shared = (nodes[i].kind = "file" /\ ShareCount(i) > 1)
    OBVIOUS
  <1>f. PICK first : first = IF shared THEN FirstNameOf(i) ELSE 0
    OBVIOUS
  <1>2. \/ /\ first = 0
           /\ ~shared \/ method = "v01" \/ \A j \in DOMAIN entries : ~SharedFile(entries[j], i)
        \/ /\ first \in DOMAIN entries /\ first # 0 /\ method # "v01" /\ shared
           /\ SharedFile(entries[first], i)
    BY <1>1, <1>f, FirstNameIsASharedFile
  <1>3. e = [path |-> p, size |-> Len(nodes[i].data),
             kind |-> IF first # 0 THEN "hardlink" ELSE nodes[i].kind,
             time |-> nodes[i].time, data |-> nodes[i].data, node |-> i,
             shared |-> shared, link |-> IF first # 0 THEN entries[first].path ELSE Root]
    BY <1>i, <1>s, <1>f DEF EntryOf
  <1>4. /\ e.path = p /\ e.size = Len(nodes[i].data) /\ e.time = nodes[i].time
        /\ e.kind = (IF first # 0 THEN "hardlink" ELSE nodes[i].kind)
        /\ e.data = nodes[i].data /\ e.node = i /\ e.shared = shared
        /\ e.link = (IF first # 0 THEN entries[first].path ELSE Root)
    BY <1>3
  <1>5. e \in EntryRecords
    <2>1. nodes[i].time \in Nat /\ nodes[i].data \in Seq(Int) /\ Len(nodes[i].data) \in Nat
      BY <1>1 DEF NodeRecords
    <2>2. nodes[i].kind \in {"directory", "file", "symlink", "fifo"}
      BY <1>1 DEF Supported, NodeRecords
    <2>3. e.link \in Paths
      <3>1. CASE first = 0
        BY <1>4, <3>1, NodesAreNumbers
      <3>2. CASE first # 0
        BY <1>1, <1>2, <1>4, <3>2, EntriesAreTyped
      <3>. QED
        BY <3>1, <3>2
    <2>l. PICK l \in Paths : l = e.link
      BY <2>3
    <2>k. PICK k \in {"directory", "file", "symlink", "fifo", "hardlink"} : k = e.kind
      BY <1>4, <2>2
    <2>4. e = [path |-> p, size |-> Len(nodes[i].data), kind |-> k,
               time |-> nodes[i].time, data |-> nodes[i].data, node |-> i,
               shared |-> shared, link |-> l]
      BY <1>3, <1>4, <2>k, <2>l
    <2>. QED
      BY <2>1, <2>4 DEF EntryRecords
  <1>6. method = "v01" => nodes[i].kind \in {"directory", "file"}
    BY <1>1 DEF Supported
  <1>7. nodes[i].kind # "hardlink" /\ (shared => nodes[i].kind = "file")
        /\ (first # 0 => shared)
    BY <1>1, <1>2, <1>s DEF NodeRecords
  <1>8. /\ e.shared => nodes[i].kind = "file" /\ e.kind \in {"file", "hardlink"}
        /\ nodes[i].kind # "file" => e.kind = nodes[i].kind /\ ~e.shared
        /\ nodes[i].kind = "file" => e.kind \in {"file", "hardlink"}
    BY <1>4, <1>7
  <1>9. e.kind = "hardlink" =>
          /\ method # "v01" /\ e.shared
          /\ \E j \in DOMAIN entries : SharedFile(entries[j], e.node) /\ e.link = entries[j].path
    BY <1>2, <1>4, <1>7
  <1>10. method = "v01" => e.kind \in {"directory", "file"}
    BY <1>2, <1>4, <1>6
  <1>11. method # "v01" /\ e.kind = "file" /\ e.shared =>
           \A j \in DOMAIN entries : ~SharedFile(entries[j], e.node)
    BY <1>2, <1>4
  <1>. QED
    BY <1>i, <1>1, <1>4, <1>5, <1>8, <1>9, <1>10, <1>11

LEMMA AppendedSeq ==
    ASSUME NEW S, NEW s \in Seq(S), NEW e \in S, NEW t, t = Append(s, e)
    PROVE  /\ t \in Seq(S) /\ Len(s) \in Nat /\ Len(t) = Len(s) + 1 /\ t # <<>>
           /\ DOMAIN s = 1..Len(s) /\ DOMAIN t = 1..Len(s) + 1
           /\ Len(s) + 1 \in DOMAIN t /\ t[Len(s) + 1] = e
           /\ \A k \in DOMAIN s : k \in DOMAIN t /\ t[k] = s[k] /\ k < Len(s) + 1
           /\ \A k \in DOMAIN t : k \in DOMAIN s \/ k = Len(s) + 1
  <1>1. t \in Seq(S) /\ Len(s) \in Nat /\ Len(t) = Len(s) + 1 /\ t # <<>>
        /\ DOMAIN s = 1..Len(s) /\ DOMAIN t = 1..Len(s) + 1
    OBVIOUS
  <1>2. t[Len(s) + 1] = e /\ \A k \in 1..Len(s) : t[k] = s[k]
    OBVIOUS
  <1>. QED
    BY <1>1, <1>2

\* The paths are listed in their order, each after its directory.
LEMMA ListingGrows ==
    ASSUME ArchiveTypes, SourceInv, ListingInv, VisitInv, phase = "walk", unread = Nobody,
           NEW CONSTANT p \in toVisit, \A r \in toVisit : p <= r,
           names[p] # 0, Supported(KindOf(p)),
           entries' = Append(entries, EntryOf(p)),
           toVisit' = toVisit \ {p}, phase' = phase, method' = method,
           unread' = IF KindOf(p) = "directory" THEN p ELSE Nobody
    PROVE  ListingInv' /\ VisitInv'
  <1>n. Paths = 0..Last /\ Last \in Nat /\ Root = 0 /\ Nobody = -1
    BY NodesAreNumbers DEF Nobody
  <1>0. /\ entries \in Seq(EntryRecords) /\ toVisit \subseteq Paths /\ p \in Paths
        /\ names[Root] = 1 /\ nodes[1].kind = "directory"
    BY DEF ArchiveTypes, SourceInv
  <1>e. PICK e : e = EntryOf(p)
    OBVIOUS
  <1>1. /\ e \in EntryRecords /\ e.path = p /\ e.node = names[p]
        /\ e.shared => KindOf(p) = "file" /\ e.kind \in {"file", "hardlink"}
        /\ KindOf(p) # "file" => e.kind = KindOf(p) /\ ~e.shared
        /\ e.kind = "hardlink" =>
             /\ method # "v01" /\ e.shared
             /\ \E j \in DOMAIN entries : SharedFile(entries[j], e.node)
                                          /\ e.link = entries[j].path
        /\ method = "v01" => e.kind \in {"directory", "file"}
        /\ method # "v01" /\ e.kind = "file" /\ e.shared =>
             \A j \in DOMAIN entries : ~SharedFile(entries[j], e.node)
    BY <1>0, <1>e, EntryOfAPath
  <1>t. PICK t : t = Append(entries, e)
    OBVIOUS
  <1>N. PICK n : n = Len(entries) + 1
    OBVIOUS
  <1>2. /\ t \in Seq(EntryRecords) /\ n \in Nat /\ n # 0 /\ t # <<>>
        /\ DOMAIN entries = 1..n - 1 /\ DOMAIN t = 1..n
        /\ n \in DOMAIN t /\ t[n] = e
        /\ \A k \in DOMAIN entries : k \in DOMAIN t /\ t[k] = entries[k] /\ k < n
        /\ \A k \in DOMAIN t : k \in DOMAIN entries \/ k = n
    BY <1>0, <1>1, <1>t, <1>N, AppendedSeq
  <1>3. entries' = t /\ entries'[n] = e
    BY <1>t, <1>e, <1>2
  <1>4. CASE entries = <<>>
    <2>1. p = Root /\ n = 1 /\ toVisit = {Root}
      BY <1>4, <1>N DEF VisitInv
    <2>2. KindOf(p) = "directory"
      BY <2>1, <1>0 DEF KindOf
    <2>3. e.kind = "directory" /\ ~e.shared /\ DOMAIN t = {1} /\ t[1] = e
      BY <1>1, <1>2, <2>1, <2>2
    <2>4. ListingInv'
      <3>1. IsListing(t)
        BY <1>1, <2>1, <2>3 DEF IsListing
      <3>. QED
        BY <1>3, <2>3, <3>1 DEF ListingInv, SharedFile
    <2>5. VisitInv'
      <3>1. toVisit' = {} /\ unread' = Root
        BY <2>1, <2>2
      <3>2. entries' # <<>> /\ DOMAIN entries' = {1} /\ entries'[1].path = Root
            /\ entries'[1].kind = "directory"
        BY <1>1, <1>2, <1>3, <2>1, <2>3
      <3>. QED
        BY <1>n, <3>1, <3>2 DEF VisitInv
    <2>. QED
      BY <2>4, <2>5
  <1>5. CASE entries # <<>>
    <2>1. /\ \A k \in DOMAIN entries : entries[k].path < p
          /\ \E k \in DOMAIN entries :
               entries[k].path = Parent[p] /\ entries[k].kind = "directory"
      BY <1>5 DEF VisitInv
    <2>2. IsListing(entries)
      BY DEF ListingInv
    <2>5. 1 \in DOMAIN entries /\ n # 1
      BY <1>0, <1>2, <1>5, <1>N
    <2>p. \A k \in DOMAIN entries : entries[k].path \in Nat
      BY <1>0, <1>n, EntriesAreTyped
    <2>3. IsListing(t)
      <3>1. t[1].path = Root /\ t[1].kind = "directory"
        BY <1>2, <1>5, <2>2, <2>5 DEF IsListing
      <3>2. ASSUME NEW j \in DOMAIN t, NEW k \in DOMAIN t, j < k PROVE t[j].path < t[k].path
        <4>1. j \in DOMAIN entries /\ t[j] = entries[j]
          BY <1>2, <3>2
        <4>2. CASE k \in DOMAIN entries
          BY <1>2, <2>2, <3>2, <4>1, <4>2 DEF IsListing
        <4>3. CASE k = n
          BY <1>1, <1>2, <2>1, <4>1, <4>3
        <4>. QED
          BY <1>2, <4>2, <4>3
      <3>3. ASSUME NEW k \in DOMAIN t, k # 1
            PROVE  \E j \in 1..k - 1 : t[j].path = Parent[t[k].path] /\ t[j].kind = "directory"
        <4>1. CASE k \in DOMAIN entries
          <5>1. PICK j \in 1..k - 1 : entries[j].path = Parent[entries[k].path]
                                      /\ entries[j].kind = "directory"
            BY <2>2, <3>3, <4>1 DEF IsListing
          <5>2. j \in DOMAIN entries
            BY <1>2, <4>1
          <5>. QED
            BY <1>2, <4>1, <5>1, <5>2
        <4>2. CASE k = n
          <5>1. PICK j \in DOMAIN entries :
                  entries[j].path = Parent[p] /\ entries[j].kind = "directory"
            BY <2>1
          <5>2. j \in 1..k - 1
            BY <1>2, <4>2
          <5>. QED
            BY <1>1, <1>2, <4>2, <5>1, <5>2
        <4>. QED
          BY <1>2, <4>1, <4>2
      <3>. QED
        BY <3>1, <3>2, <3>3 DEF IsListing
    <2>6. ASSUME NEW k \in DOMAIN t
          PROVE  /\ t[k].kind = "hardlink" =>
                      /\ method # "v01" /\ t[k].shared
                      /\ \E j \in 1..k - 1 : SharedFile(t[j], t[k].node) /\ t[k].link = t[j].path
                 /\ method = "v01" => t[k].kind \in {"directory", "file"}
                 /\ t[k].shared => t[k].kind \in {"file", "hardlink"}
      <3>1. CASE k \in DOMAIN entries
        <4>1. /\ entries[k].kind = "hardlink" =>
                   /\ method # "v01" /\ entries[k].shared
                   /\ \E j \in 1..k - 1 : SharedFile(entries[j], entries[k].node)
                                          /\ entries[k].link = entries[j].path
              /\ method = "v01" => entries[k].kind \in {"directory", "file"}
              /\ entries[k].shared => entries[k].kind \in {"file", "hardlink"}
          BY <3>1 DEF ListingInv
        <4>2. \A j \in 1..k - 1 : t[j] = entries[j]
          BY <1>2, <3>1
        <4>. QED
          BY <1>2, <3>1, <4>1, <4>2
      <3>2. CASE k = n
        BY <1>1, <1>2, <3>2
      <3>. QED
        BY <1>2, <3>1, <3>2
    <2>7. ASSUME method # "v01", NEW j \in DOMAIN t, NEW k \in DOMAIN t,
                 SharedFile(t[j], t[k].node), SharedFile(t[k], t[k].node)
          PROVE  j = k
      <3>1. CASE j \in DOMAIN entries /\ k \in DOMAIN entries
        BY <1>2, <2>7, <3>1 DEF ListingInv
      <3>2. CASE j \in DOMAIN entries /\ k = n
        BY <1>1, <1>2, <2>7, <3>2 DEF SharedFile
      <3>3. CASE j = n /\ k \in DOMAIN entries
        <4>1. e.node = entries[k].node /\ SharedFile(entries[k], e.node)
              /\ e.kind = "file" /\ e.shared
          BY <1>2, <2>7, <3>3 DEF SharedFile
        <4>. QED
          BY <1>1, <2>7, <3>3, <4>1
      <3>. QED
        BY <1>2, <3>1, <3>2, <3>3
    <2>8. ListingInv'
      BY <1>3, <2>3, <2>6, <2>7 DEF ListingInv
    <2>9. VisitInv'
      <3>1. ASSUME NEW q \in toVisit'
            PROVE  /\ \A k \in DOMAIN t : t[k].path < q
                   /\ \E k \in DOMAIN t : t[k].path = Parent[q] /\ t[k].kind = "directory"
        <4>1. q \in toVisit /\ q # p /\ p <= q /\ q \in Int /\ p \in Int
          BY <1>0, <1>n
        <4>2. /\ \A k \in DOMAIN entries : entries[k].path < q
              /\ \E k \in DOMAIN entries : entries[k].path = Parent[q]
                                           /\ entries[k].kind = "directory"
          BY <1>5, <4>1 DEF VisitInv
        <4>3. ASSUME NEW k \in DOMAIN t PROVE t[k].path < q
          <5>1. CASE k \in DOMAIN entries
            BY <1>2, <4>2, <5>1
          <5>2. CASE k = n
            BY <1>1, <1>2, <4>1, <5>2
          <5>. QED
            BY <1>2, <5>1, <5>2
        <4>4. \E k \in DOMAIN t : t[k].path = Parent[q] /\ t[k].kind = "directory"
          BY <1>2, <4>2
        <4>. QED
          BY <4>3, <4>4
      <3>2. ASSUME unread' # Nobody
            PROVE  /\ \A k \in DOMAIN t : t[k].path <= unread'
                   /\ \E k \in DOMAIN t : t[k].path = unread' /\ t[k].kind = "directory"
        <4>1. unread' = p /\ KindOf(p) = "directory"
          BY <3>2
        <4>2. t[n].path = p /\ t[n].kind = "directory" /\ p \in Int
          BY <1>0, <1>1, <1>2, <1>n, <4>1
        <4>3. \A k \in DOMAIN t : t[k].path <= p
          BY <1>2, <2>1, <2>p, <4>2
        <4>. QED
          BY <1>2, <4>1, <4>2, <4>3
      <3>. QED
        BY <1>2, <1>3, <3>1, <3>2 DEF VisitInv
    <2>. QED
      BY <2>8, <2>9
  <1>. QED
    BY <1>4, <1>5

LEMMA ListingStays ==
    ASSUME ListingInv, UNCHANGED <<entries, method>>
    PROVE  ListingInv'
  BY DEF ListingInv, IsListing, SharedFile

LEMMA SourceStays ==
    ASSUME UNCHANGED sourceVars
    PROVE  /\ SourceInv => SourceInv'
           /\ \A d : Whole(d) => Whole(d)'
           /\ \A v, b : Lost(v, b) => Lost(v, b)'
           /\ \A d : Settled(d) => Settled(d)'
           /\ \A e, i : SameAsListed(e, i)' = SameAsListed(e, i)
  <1>1. UNCHANGED <<names, nodes, edits>>
    BY DEF sourceVars
  <1>2. SourceInv => SourceInv'
    BY <1>1 DEF SourceInv, Nodes, Paths
  <1>3. \A d : Whole(d) => Whole(d)'
    BY <1>1 DEF Whole, Nodes
  <1>4. \A v, b : Lost(v, b) => Lost(v, b)'
    BY <1>1 DEF Lost, Nodes
  <1>5. \A d : Settled(d) => Settled(d)'
    BY <1>3, <1>4 DEF Settled
  <1>6. \A e, i : SameAsListed(e, i)' = SameAsListed(e, i)
    BY <1>1 DEF SameAsListed
  <1>. QED
    BY <1>2, <1>3, <1>4, <1>5, <1>6

LEMMA WalkIsQuiet ==
    ASSUME ArchiveInv, phase = "walk", NothingHalfPacked
    PROVE  reader = Closed /\ (archive.stream # <<>> => method = "v01")
  <1>1. ReaderInv /\ PackInv /\ ArchiveTypes
    BY DEF ArchiveInv, BackingInv, Backing
  <1>2. Len(archive.stream) \in Nat /\ Len(entries) \in Nat
    BY <1>1 DEF ArchiveTypes
  <1>3. Packing => method = "v01" /\ Len(archive.stream) = Len(entries)
    BY DEF Packing, NothingHalfPacked, Done
  <1>4. reader = Closed
    BY <1>1, <1>2, <1>3 DEF ReaderInv, NextToPack
  <1>. QED
    BY <1>1, <1>3, <1>4 DEF PackInv

\* A step of the walk that lists nothing.
LEMMA WalkKeepsInv ==
    ASSUME ArchiveInv, phase = "walk", reader = Closed, VisitInv', ArchiveTypes',
           UNCHANGED <<sourceVars, backupVars, method, excluded, archive, damaged, restoreVars>>
    PROVE  ArchiveInv'
  <1>1. UNCHANGED <<names, nodes, edits, method, excluded, phase, entries, hashed, reader,
                    archive, damaged, disk, at, links, directories, target>>
    BY DEF sourceVars, backupVars, restoreVars
  <1>2. Backing /\ Backing'
    BY <1>1 DEF Backing
  <1>3. SourceInv /\ EntriesInv /\ PackInv /\ ListingInv
    BY <1>2 DEF ArchiveInv, BackingInv
  <1>4. SourceInv' /\ \A d : Whole(d) => Whole(d)'
    BY <1>3, SourceStays
  <1>5. EntriesInv'
    <2>1. ASSUME NEW k \in DOMAIN entries, NEW e, e = entries[k]
          PROVE  /\ e.time <= edits
                 /\ e.kind = "file" /\ e.size = 0 => Whole(<<>>)'
                 /\ method # "snapshot" /\ SameAsListed(e, e.node) => nodes[e.node].data = e.data
                 /\ method \in {"v01", "mypack"} /\ names[e.path] # 0
                      /\ SameAsListed(e, names[e.path]) =>
                         nodes[names[e.path]].data = e.data
      BY <1>3, <1>4, <2>1 DEF EntriesInv
    <2>. QED
      BY <1>1, <2>1 DEF EntriesInv, SameAsListed
  <1>6. ReaderInv'
    BY <1>1 DEF ReaderInv, Closed
  <1>7. PackInv'
    <2>1. PackedSoFar'
      BY <1>1, <1>3 DEF PackInv, PackedSoFar, MemberOf, ListedData
    <2>2. \A k \in DOMAIN archive.stream :
            archive.stream[k].kind = "file" => Whole(archive.stream[k].data)'
      BY <1>3, <1>4 DEF PackInv
    <2>. QED
      BY <1>1, <1>3, <2>1, <2>2 DEF PackInv, Packing
  <1>8. ListingInv'
    BY <1>1, <1>3, ListingStays
  <1>9. PublishedInv' /\ ReadingInv' /\ AcceptedMeansRestored' /\ TargetInv'
    BY <1>1, <1>2, OthersWhileBacking
  <1>. QED
    BY <1>4, <1>5, <1>6, <1>7, <1>8, <1>9 DEF ArchiveInv, BackingInv

LEMMA VisitKeepsInv == ASSUME ArchiveInv, Visit PROVE ArchiveInv'
  <1>n. Paths = 0..Last /\ Last \in Nat /\ Root = 0 /\ Nobody = -1
    BY NodesAreNumbers DEF Nobody
  <1>1. phase = "walk" /\ unread = Nobody /\ toVisit # {} /\ NothingHalfPacked /\ Backing
    BY DEF Visit, Backing
  <1>2. /\ ArchiveTypes /\ SourceInv /\ ListingInv /\ VisitInv /\ EntriesInv /\ PackInv
        /\ reader = Closed
    BY <1>1, WalkIsQuiet DEF ArchiveInv, BackingInv
  <1>3. toVisit \subseteq Paths /\ excluded \subseteq 1..Last
    BY <1>2 DEF ArchiveTypes
  <1>p. PICK p \in toVisit :
          /\ p = CHOOSE q \in toVisit : \A r \in toVisit : q <= r
          /\ \A r \in toVisit : p <= r
    <2>1. toVisit \in SUBSET Nat
      BY <1>3, <1>n
    <2>2. \E q \in toVisit : \A r \in toVisit : q <= r
      BY <1>1, <2>1, LeastNumber
    <2>. QED
      BY <2>2
  <1>4. CASE p \in excluded /\ names[p] # 0
    <2>1. /\ toVisit' = toVisit \ {p}
          /\ UNCHANGED <<sourceVars, backupVars, method, excluded, unread, archive,
                         damaged, restoreVars>>
      BY <1>p, <1>4 DEF Visit
    <2>2. entries # <<>>
      BY <1>1, <1>2, <1>3, <1>4, <1>n DEF VisitInv
    <2>3. UNCHANGED <<phase, entries, hashed, reader, unread>>
      BY <2>1 DEF backupVars
    <2>4. VisitInv'
      BY <1>1, <1>2, <2>1, <2>2, <2>3 DEF VisitInv
    <2>5. ArchiveTypes'
      <3>1. UNCHANGED <<names, nodes, edits, target, disk, at, links, directories>>
        BY <2>1 DEF sourceVars, restoreVars
      <3>. QED
        BY <1>2, <2>1, <2>3, <3>1 DEF ArchiveTypes, Backing, Nodes, Paths
    <2>. QED
      BY <1>1, <1>2, <2>1, <2>4, <2>5, WalkKeepsInv
  <1>5. CASE ~(p \in excluded /\ names[p] # 0) /\ (names[p] = 0 \/ ~Supported(KindOf(p)))
    <2>1. Fail
      BY <1>p, <1>5 DEF Visit
    <2>. QED
      BY <1>1, <2>1, FailKeepsInv
  <1>6. CASE names[p] # 0 /\ Supported(KindOf(p)) /\ p \notin excluded
    <2>1. /\ entries' = Append(entries, EntryOf(p))
          /\ toVisit' = toVisit \ {p}
          /\ unread' = IF KindOf(p) = "directory" THEN p ELSE Nobody
          /\ UNCHANGED <<sourceVars, phase, hashed, reader, method, excluded, archive,
                         damaged, restoreVars>>
      BY <1>p, <1>6 DEF Visit
    <2>2. ListingInv' /\ VisitInv'
      BY <1>1, <1>2, <1>6, <1>p, <2>1, ListingGrows
    <2>s. UNCHANGED <<names, nodes, edits, target, disk, at, links, directories>>
      BY <2>1 DEF sourceVars, restoreVars
    <2>e. PICK e : e = EntryOf(p)
      OBVIOUS
    <2>p. p \in Paths /\ names[p] \in Nodes /\ names[p] <= Last + 1 + edits
          /\ nodes[names[p]] \in NodeRecords
      BY <1>2, <1>3, <1>6 DEF ArchiveTypes, SourceInv
    <2>3. /\ e \in EntryRecords /\ e.path = p /\ e.node = names[p]
          /\ e.size = Len(nodes[names[p]].data) /\ e.data = nodes[names[p]].data
          /\ e.time = nodes[names[p]].time
      BY <1>2, <1>6, <2>e, <2>p, EntryOfAPath
    <2>t. PICK t : t = Append(entries, e)
      OBVIOUS
    <2>4. /\ entries \in Seq(EntryRecords) /\ t \in Seq(EntryRecords)
          /\ Len(entries) \in Nat /\ Len(t) = Len(entries) + 1
          /\ DOMAIN entries = 1..Len(entries)
          /\ t[Len(entries) + 1] = e
          /\ \A k \in DOMAIN entries : t[k] = entries[k]
          /\ \A k \in DOMAIN t : k \in DOMAIN entries \/ k = Len(entries) + 1
      BY <1>2, <2>3, <2>t, AppendedSeq DEF ArchiveTypes
    <2>5. entries' = t
      BY <2>1, <2>e, <2>t
    <2>6. ArchiveTypes'
      BY <1>2, <1>3, <2>1, <2>4, <2>5, <2>p, <2>s DEF ArchiveTypes, Backing, Nodes, Paths,
         EntryRecords
    <2>7. SourceInv' /\ \A d : Whole(d) => Whole(d)'
      BY <1>2, <2>1, SourceStays
    <2>8. ASSUME NEW k \in DOMAIN t
          PROVE  /\ t[k].time <= edits
                 /\ t[k].kind = "file" /\ t[k].size = 0 => Whole(<<>>)
                 /\ method # "snapshot" /\ SameAsListed(t[k], t[k].node) =>
                      nodes[t[k].node].data = t[k].data
                 /\ method \in {"v01", "mypack"} /\ names[t[k].path] # 0
                      /\ SameAsListed(t[k], names[t[k].path]) =>
                         nodes[names[t[k].path]].data = t[k].data
      <3>1. CASE k \in DOMAIN entries
        BY <1>2, <2>4, <3>1 DEF EntriesInv
      <3>2. CASE k = Len(entries) + 1
        <4>1. t[k] = e
          BY <2>4, <3>2
        <4>2. e.time <= edits /\ e.data \in nodes[names[p]].was
          BY <1>2, <2>3, <2>p DEF SourceInv
        <4>3. e.size = 0 => Whole(<<>>)
          <5>d. PICK d \in Seq(Int) : d = nodes[names[p]].data
            BY <2>p DEF NodeRecords
          <5>1. Len(d) = 0 => d = <<>>
            OBVIOUS
          <5>2. e.size = 0 => e.data = <<>>
            BY <2>3, <5>d, <5>1
          <5>. QED
            BY <2>p, <4>2, <5>2 DEF Whole
        <4>. QED
          BY <2>3, <4>1, <4>2, <4>3
      <3>. QED
        BY <2>4, <3>1, <3>2
    <2>9. EntriesInv'
      BY <1>1, <2>1, <2>5, <2>7, <2>8, <2>s DEF EntriesInv, SameAsListed
    <2>10. ReaderInv'
      BY <1>1, <1>2, <2>1 DEF ReaderInv, Closed
    <2>11. PackInv'
      <3>1. PackedSoFar'
        <4>1. Len(archive.stream) <= Len(entries) /\ archive.stream \in Seq(StreamMembers)
              /\ \A k \in DOMAIN archive.stream : archive.stream[k] = MemberOf(entries[k])
          BY <1>2 DEF PackInv, PackedSoFar, ArchiveTypes
        <4>2. Len(archive.stream) \in Nat /\ DOMAIN archive.stream = 1..Len(archive.stream)
          BY <4>1
        <4>3. Len(archive.stream) <= Len(t) /\ DOMAIN archive.stream \subseteq DOMAIN entries
          BY <2>4, <4>1, <4>2
        <4>. QED
          BY <2>1, <2>4, <2>5, <4>1, <4>3 DEF PackedSoFar, MemberOf, ListedData
      <3>2. \A k \in DOMAIN archive.stream :
              archive.stream[k].kind = "file" => Whole(archive.stream[k].data)'
        BY <1>2, <2>1, <2>7 DEF PackInv
      <3>. QED
        BY <1>2, <2>1, <3>1, <3>2 DEF PackInv, Packing
    <2>12. PublishedInv' /\ ReadingInv' /\ AcceptedMeansRestored' /\ TargetInv'
      BY <1>1, <2>1, <2>s, OthersWhileBacking DEF Backing
    <2>. QED
      BY <2>2, <2>6, <2>7, <2>9, <2>10, <2>11, <2>12 DEF ArchiveInv, BackingInv
  <1>. QED
    BY <1>4, <1>5, <1>6

LEMMA ReadNamesKeepsInv == ASSUME ArchiveInv, ReadNames PROVE ArchiveInv'
  <1>n. Paths = 0..Last /\ Last \in Nat /\ Root = 0 /\ Nobody = -1
    BY NodesAreNumbers DEF Nobody
  <1>1. phase = "walk" /\ unread # Nobody /\ NothingHalfPacked /\ Backing
    BY DEF ReadNames, Backing
  <1>2. ArchiveTypes /\ VisitInv /\ reader = Closed
    BY <1>1, WalkIsQuiet DEF ArchiveInv, BackingInv
  <1>3. CASE KindOf(unread) # "directory"
    <2>1. Fail
      BY <1>3 DEF ReadNames
    <2>. QED
      BY <1>1, <2>1, FailKeepsInv
  <1>4. CASE KindOf(unread) = "directory"
    <2>1. /\ toVisit' = toVisit \cup {q \in Children(unread) : names[q] # 0}
          /\ unread' = Nobody
          /\ UNCHANGED <<sourceVars, backupVars, method, excluded, archive, damaged,
                         restoreVars>>
      BY <1>4 DEF ReadNames
    <2>2. UNCHANGED <<phase, entries, hashed, reader>>
      BY <2>1 DEF backupVars
    <2>3. /\ entries # <<>> /\ unread \in Paths
          /\ \A k \in DOMAIN entries : entries[k].path <= unread /\ entries[k].path \in Nat
          /\ \E k \in DOMAIN entries : entries[k].path = unread /\ entries[k].kind = "directory"
      <3>1. \A k \in DOMAIN entries : entries[k].path \in Nat
        BY <1>2, <1>n, EntriesAreTyped DEF ArchiveTypes
      <3>. QED
        BY <1>1, <1>2, <3>1 DEF VisitInv, ArchiveTypes
    <2>4. ASSUME NEW q \in toVisit'
          PROVE  /\ \A k \in DOMAIN entries : entries[k].path < q
                 /\ \E k \in DOMAIN entries :
                      entries[k].path = Parent[q] /\ entries[k].kind = "directory"
      <3>1. CASE q \in toVisit
        BY <1>1, <1>2, <2>3, <3>1 DEF VisitInv
      <3>2. CASE q \in Children(unread)
        <4>1. q \in 1..Last /\ Parent[q] = unread /\ unread < q
          BY <3>2 DEF Children
        <4>. QED
          BY <1>n, <2>3, <4>1
      <3>. QED
        BY <2>1, <3>1, <3>2
    <2>5. VisitInv'
      BY <1>1, <2>1, <2>2, <2>3, <2>4 DEF VisitInv
    <2>6. ArchiveTypes'
      <3>1. UNCHANGED <<names, nodes, edits, target, disk, at, links, directories>>
        BY <2>1 DEF sourceVars, restoreVars
      <3>2. Children(unread) \subseteq Paths
        BY <1>n DEF Children
      <3>. QED
        BY <1>2, <2>1, <2>2, <3>1, <3>2 DEF ArchiveTypes, Backing, Nodes, Paths
    <2>. QED
      BY <1>1, <1>2, <2>1, <2>5, <2>6, WalkKeepsInv
  <1>. QED
    BY <1>3, <1>4

-----------------------------------------------------------------------------
(* The backup: reading *)

\* The open file is all that changes.
LEMMA ReaderKeepsInv ==
    ASSUME ArchiveInv, Backing, ReaderInv', reader' \in [node : {0} \cup Nodes, got : Seq(Int)],
           UNCHANGED <<sourceVars, walkVars, phase, entries, hashed, archive, damaged,
                       restoreVars>>
    PROVE  ArchiveInv'
  <1>1. UNCHANGED <<names, nodes, edits, method, excluded, unread, toVisit, phase, entries,
                    hashed, archive, damaged, disk, at, links, directories, target>>
    BY DEF sourceVars, walkVars, restoreVars
  <1>2. SourceInv /\ EntriesInv /\ PackInv /\ ListingInv /\ VisitInv /\ ArchiveTypes
    BY DEF ArchiveInv, BackingInv
  <1>3. SourceInv' /\ (\A d : Whole(d) => Whole(d)') /\ (\A d : Settled(d) => Settled(d)')
    BY <1>2, SourceStays
  <1>4. EntriesInv'
    <2>1. ASSUME NEW k \in DOMAIN entries, NEW e, e = entries[k]
          PROVE  /\ e.time <= edits
                 /\ e.kind = "file" /\ e.size = 0 => Whole(<<>>)'
                 /\ method # "snapshot" /\ SameAsListed(e, e.node) => nodes[e.node].data = e.data
                 /\ method \in {"v01", "mypack"} /\ names[e.path] # 0
                      /\ SameAsListed(e, names[e.path]) =>
                         nodes[names[e.path]].data = e.data
                 /\ /\ phase \in {"recheck", "pack"} \/ (phase = "hash" /\ k <= hashed)
                    /\ method = "snapshot" /\ e.kind = "file"
                    => Settled(e.data)'
      BY <1>2, <1>3, <2>1 DEF EntriesInv
    <2>. QED
      BY <1>1, <2>1 DEF EntriesInv, SameAsListed
  <1>5. PackInv'
    <2>1. PackedSoFar'
      BY <1>1, <1>2 DEF PackInv, PackedSoFar, MemberOf, ListedData
    <2>2. \A k \in DOMAIN archive.stream :
            archive.stream[k].kind = "file" => Whole(archive.stream[k].data)'
      BY <1>1, <1>2, <1>3 DEF PackInv
    <2>. QED
      BY <1>1, <1>2, <2>1, <2>2 DEF PackInv, Packing
  <1>6. ListingInv' /\ VisitInv'
    BY <1>1, <1>2, ListingStays DEF VisitInv
  <1>7. Backing' /\ PublishedInv' /\ ReadingInv' /\ AcceptedMeansRestored' /\ TargetInv'
    BY <1>1, OthersWhileBacking DEF Backing
  <1>8. ArchiveTypes'
    BY <1>1, <1>2 DEF ArchiveTypes, Backing, Nodes, Paths
  <1>. QED
    BY <1>3, <1>4, <1>5, <1>6, <1>7, <1>8 DEF ArchiveInv, BackingInv

LEMMA OpenKeepsInv ==
    ASSUME ArchiveInv, Backing, reader = Closed, NEW CONSTANT k \in DOMAIN entries,
           OpenSource(k),
           \/ phase = "hash" /\ FilesToHash # {}
           \/ Packing /\ k = NextToPack /\ ~WithoutPayload(entries[k])
    PROVE  ArchiveInv'
  <1>1. CASE KindOf(entries[k].path) # "file"
    <2>1. Fail
      BY <1>1 DEF OpenSource
    <2>. QED
      BY <2>1, FailKeepsInv
  <1>2. CASE KindOf(entries[k].path) = "file"
    <2>1. /\ reader' = [node |-> names[entries[k].path], got |-> <<>>]
          /\ UNCHANGED <<sourceVars, walkVars, phase, entries, hashed, archive, damaged,
                         restoreVars>>
      BY <1>2 DEF OpenSource
    <2>2. UNCHANGED <<names, nodes, edits, method, phase, entries, hashed, archive>>
      BY <2>1 DEF sourceVars, walkVars
    <2>3. ReaderInv /\ EntriesInv /\ SourceInv /\ PackInv /\ ArchiveTypes
      BY DEF ArchiveInv, BackingInv
    <2>e. PICK e : e = entries[k]
      OBVIOUS
    <2>4. e.path \in Paths
      BY <2>3, <2>e, EntriesAreTyped DEF ArchiveTypes
    <2>n. PICK n \in Nodes : n = names[e.path] /\ n <= Last + 1 + edits /\ n \in 1..Last + 1 + edits
      <3>1. names[e.path] \in {0} \cup Nodes /\ names[e.path] # 0
            /\ names[e.path] <= Last + 1 + edits
        BY <1>2, <2>3, <2>4, <2>e DEF KindOf, ArchiveTypes, SourceInv
      <3>. QED
        BY <3>1, <2>3, NodesAreNumbers DEF ArchiveTypes
    <2>5. reader'.node = n /\ reader'.got = <<>> /\ DOMAIN reader'.got = {}
          /\ reader' \in [node : {0} \cup Nodes, got : Seq(Int)]
      BY <2>1, <2>n, <2>e
    <2>6. /\ phase = "hash" => method = "snapshot"
          /\ Len(archive.stream) \in Nat /\ Len(entries) \in Nat /\ k <= Len(entries)
      BY <2>3 DEF PackInv, ArchiveTypes
    <2>7. \/ phase' = "hash" /\ FilesToHash' # {}
          \/ Packing' /\ NextToPack' <= Len(entries') /\ ~WithoutPayload(entries[NextToPack])'
      BY <2>2, <2>6 DEF FilesToHash, Packing, NextToPack, WithoutPayload
    <2>8. ASSUME method # "snapshot"
          PROVE  /\ Begins(reader'.got, OpenNode'.data)
                 /\ method \in {"v01", "mypack"} /\ SameAsListed(entries[NextToPack], n) =>
                      nodes[n].data = entries[NextToPack].data
      <3>1. k = NextToPack
        BY <2>6, <2>8
      <3>2. Begins(reader'.got, OpenNode'.data)
        <4>1. OpenNode' = nodes[n] /\ nodes[n].data \in Seq(Int)
          BY <2>2, <2>3, <2>5 DEF OpenNode, ArchiveTypes, NodeRecords
        <4>2. Len(nodes[n].data) \in Nat /\ Len(<<>>) = 0
          BY <4>1
        <4>. QED
          BY <2>5, <4>1, <4>2 DEF Begins
      <3>3. method \in {"v01", "mypack"} /\ SameAsListed(e, n) => nodes[n].data = e.data
        BY <2>3, <2>e, <2>n, NodesAreNumbers DEF EntriesInv
      <3>. QED
        BY <2>e, <3>1, <3>2, <3>3
    <2>9. ASSUME method = "snapshot", phase = "pack", NEW j \in DOMAIN entries,
                 entries[j].kind = "file"
          PROVE  \/ Whole(entries[j].data)'
                 \/ \E b \in DOMAIN entries[j].data :
                      /\ Lost(entries[j].data[b], b)'
                      /\ b \in DOMAIN reader'.got => reader'.got[b] # entries[j].data[b]
      <3>1. \/ Whole(entries[j].data)
            \/ \E b \in DOMAIN entries[j].data : Lost(entries[j].data[b], b)
        BY <2>3, <2>9 DEF ReaderInv
      <3>2. (\A d : Whole(d) => Whole(d)') /\ (\A v, b : Lost(v, b) => Lost(v, b)')
        BY <2>1, SourceStays
      <3>. QED
        BY <2>2, <2>5, <3>1, <3>2
    <2>10. ReaderInv'
      <3>1. reader' = Closed \/ reader'.node \in 1..Last + 1 + edits'
        BY <2>2, <2>5, <2>n
      <3>2. reader' # Closed => \A b \in DOMAIN reader'.got : FALSE
        BY <2>5
      <3>3. ASSUME method # "snapshot"
            PROVE  /\ Begins(reader'.got, OpenNode'.data)
                   /\ /\ method \in {"v01", "mypack"}
                      /\ Len(nodes'[reader'.node].data) = entries'[NextToPack'].size
                      /\ nodes'[reader'.node].time = entries'[NextToPack'].time
                      => OpenNode'.data = entries'[NextToPack'].data
        <4>f. PICK f : f = entries[NextToPack]
          OBVIOUS
        <4>1. entries'[NextToPack'] = f /\ OpenNode' = nodes[n]
          BY <2>2, <2>5, <4>f DEF NextToPack, OpenNode
        <4>2. Begins(reader'.got, OpenNode'.data)
              /\ (method \in {"v01", "mypack"} /\ SameAsListed(f, n) => nodes[n].data = f.data)
          BY <2>8, <3>3, <4>f
        <4>. QED
          BY <2>2, <2>5, <4>1, <4>2 DEF SameAsListed
      <3>. QED
        BY <2>2, <2>7, <2>9, <3>1, <3>2, <3>3 DEF ReaderInv, SameAsListed
    <2>. QED
      BY <2>1, <2>5, <2>10, ReaderKeepsInv
  <1>. QED
    BY <1>1, <1>2

LEMMA ReadKeepsInv ==
    ASSUME ArchiveInv, Backing, reader # Closed, Len(reader.got) < Len(OpenNode.data), ReadBlock
    PROVE  ArchiveInv'
  <1>1. /\ reader' = [reader EXCEPT !.got = Append(@, OpenNode.data[Len(@) + 1])]
        /\ UNCHANGED <<sourceVars, walkVars, phase, entries, hashed, archive, damaged,
                       restoreVars>>
    BY DEF ReadBlock
  <1>2. UNCHANGED <<names, nodes, edits, method, phase, entries, hashed, archive>>
    BY <1>1 DEF sourceVars, walkVars
  <1>3. ReaderInv /\ EntriesInv /\ SourceInv /\ PackInv /\ ArchiveTypes
    BY DEF ArchiveInv, BackingInv
  <1>n. PICK n \in Nodes : n = reader.node /\ n \in 1..Last + 1 + edits
    BY <1>3, NodesAreNumbers DEF ReaderInv, ArchiveTypes
  <1>D. PICK D \in Seq(Int) : D = nodes[n].data /\ D = OpenNode.data
    BY <1>3, <1>n DEF OpenNode, ArchiveTypes, NodeRecords
  <1>g. PICK g \in Seq(Int) : g = reader.got
    BY <1>3 DEF ArchiveTypes
  <1>m. PICK m \in DOMAIN D : m = Len(g) + 1
    <2>1. Len(g) < Len(D)
      BY <1>D, <1>g
    <2>2. Len(g) \in Nat /\ Len(D) \in Nat /\ DOMAIN D = 1..Len(D)
      OBVIOUS
    <2>. QED
      BY <2>1, <2>2
  <1>v. PICK v \in Int : v = D[Len(g) + 1] /\ Len(g) + 1 \in DOMAIN D
    <2>1. D[m] \in Int
      OBVIOUS
    <2>. QED
      BY <1>m, <2>1
  <1>h. PICK h : h = Append(g, v)
    OBVIOUS
  <1>4. /\ h \in Seq(Int) /\ Len(g) \in Nat /\ Len(h) = Len(g) + 1
        /\ DOMAIN g = 1..Len(g) /\ h[Len(g) + 1] = v /\ \A b \in DOMAIN g : h[b] = g[b]
        /\ \A b \in DOMAIN h : b \in DOMAIN g \/ b = Len(g) + 1
        /\ Len(g) < Len(D) /\ Len(D) \in Nat
    <2>1. /\ h \in Seq(Int) /\ Len(g) \in Nat /\ Len(h) = Len(g) + 1
          /\ DOMAIN g = 1..Len(g) /\ h[Len(g) + 1] = v /\ \A b \in DOMAIN g : h[b] = g[b]
      BY <1>h, AppendedSeq
    <2>2. \A b \in DOMAIN h : b \in DOMAIN g \/ b = Len(g) + 1
      BY <1>h, AppendedSeq
    <2>3. Len(g) < Len(D) /\ Len(D) \in Nat
      BY <1>D, <1>g
    <2>. QED
      BY <2>1, <2>2, <2>3
  <1>5. reader'.node = n /\ reader'.got = h /\ reader' \in [node : {0} \cup Nodes, got : Seq(Int)]
    <2>1. reader \in [node : {0} \cup Nodes, got : Seq(Int)]
      BY <1>3 DEF ArchiveTypes
    <2>2. reader' = [reader EXCEPT !.got = h]
      BY <1>1, <1>D, <1>g, <1>v, <1>h
    <2>. QED
      BY <1>4, <1>n, <2>1, <2>2
  <1>6. OpenNode' = nodes[n]
    BY <1>2, <1>5 DEF OpenNode
  <1>7. ASSUME method # "snapshot"
        PROVE  /\ Begins(reader'.got, OpenNode'.data)
                  \/ OpenNode'.time > entries'[NextToPack'].time
               /\ /\ method \in {"v01", "mypack"}
                  /\ Len(nodes'[reader'.node].data) = entries'[NextToPack'].size
                  /\ nodes'[reader'.node].time = entries'[NextToPack'].time
                  => OpenNode'.data = entries'[NextToPack'].data
    <2>f. PICK f : f = entries[NextToPack]
      OBVIOUS
    <2>1. entries'[NextToPack'] = f
      BY <1>2, <2>f DEF NextToPack
    <2>2. /\ Begins(g, D) \/ nodes[n].time > f.time
          /\ method \in {"v01", "mypack"} /\ SameAsListed(f, n) => D = f.data
      BY <1>3, <1>7, <1>n, <1>g, <1>D, <2>f DEF ReaderInv, OpenNode
    <2>3. Begins(g, D) => Begins(h, D)
      <3>1. ASSUME Begins(g, D), NEW b \in DOMAIN h PROVE h[b] = D[b]
        <4>1. CASE b \in DOMAIN g
          BY <1>4, <3>1, <4>1 DEF Begins
        <4>2. CASE b = Len(g) + 1
          BY <1>4, <1>v, <4>2
        <4>. QED
          BY <1>4, <4>1, <4>2
      <3>2. Len(h) <= Len(D)
        BY <1>4
      <3>. QED
        BY <3>1, <3>2 DEF Begins
    <2>. QED
      BY <1>2, <1>5, <1>6, <1>D, <2>1, <2>2, <2>3 DEF SameAsListed
  <1>8. ASSUME phase = "hash", NEW b \in DOMAIN h
        PROVE  (b \in DOMAIN D /\ D[b] = h[b]) \/ Lost(h[b], b)
    <2>1. CASE b \in DOMAIN g
      <3>1. (b \in DOMAIN D /\ D[b] = g[b]) \/ Lost(g[b], b)
        BY <1>3, <1>8, <1>g, <1>D, <2>1 DEF ReaderInv
      <3>. QED
        BY <1>4, <2>1, <3>1
    <2>2. CASE b = Len(g) + 1
      BY <1>4, <1>v, <2>2
    <2>. QED
      BY <1>4, <2>1, <2>2
  <1>9. ASSUME method = "snapshot", phase = "pack", NEW j \in DOMAIN entries,
               entries[j].kind = "file"
        PROVE  \/ Whole(entries[j].data)
               \/ \E b \in DOMAIN entries[j].data :
                    /\ Lost(entries[j].data[b], b)
                    /\ b \in DOMAIN h => h[b] # entries[j].data[b]
    <2>1. CASE Whole(entries[j].data)
      BY <2>1
    <2>2. CASE ~Whole(entries[j].data)
      <3>1. PICK b \in DOMAIN entries[j].data :
              /\ Lost(entries[j].data[b], b)
              /\ b \in DOMAIN g => g[b] # entries[j].data[b]
        BY <1>3, <1>9, <1>g, <2>2 DEF ReaderInv
      <3>2. b \in DOMAIN D => D[b] # entries[j].data[b]
        BY <3>1, <1>D DEF Lost
      <3>3. b \in DOMAIN h => h[b] # entries[j].data[b]
        BY <1>4, <1>v, <3>1, <3>2
      <3>. QED
        BY <3>1, <3>3
    <2>. QED
      BY <2>1, <2>2
  <1>10. (\A d : Whole(d) => Whole(d)') /\ (\A w, b : Lost(w, b) => Lost(w, b)')
    BY <1>1, SourceStays
  <1>11. ReaderInv'
    <2>1. reader' = Closed \/ reader'.node \in 1..Last + 1 + edits'
      BY <1>2, <1>5, <1>n
    <2>2. \/ phase' = "hash" /\ FilesToHash' # {}
          \/ Packing' /\ NextToPack' <= Len(entries') /\ ~WithoutPayload(entries[NextToPack])'
      BY <1>2, <1>3 DEF ReaderInv, FilesToHash, Packing, NextToPack, WithoutPayload
    <2>3. phase' = "hash" => \A b \in DOMAIN reader'.got :
            (b \in DOMAIN OpenNode'.data /\ OpenNode'.data[b] = reader'.got[b])
            \/ Lost(reader.got[b], b)'
      <3>1. ASSUME phase = "hash", NEW b \in DOMAIN h
            PROVE  (b \in DOMAIN D /\ D[b] = h[b]) \/ Lost(h[b], b)'
        BY <1>8, <1>10, <3>1
      <3>. QED
        BY <1>2, <1>5, <1>6, <1>D, <3>1 DEF Lost
    <2>4. method' = "snapshot" /\ phase' = "pack" => \A j \in DOMAIN entries' :
            entries'[j].kind = "file" =>
              \/ Whole(entries[j].data)'
              \/ \E b \in DOMAIN entries'[j].data :
                   /\ Lost(entries[j].data[b], b)'
                   /\ b \in DOMAIN reader'.got => reader'.got[b] # entries'[j].data[b]
      BY <1>2, <1>5, <1>9, <1>10
    <2>. QED
      BY <1>2, <1>7, <2>1, <2>2, <2>3, <2>4 DEF ReaderInv, SameAsListed
  <1>. QED
    BY <1>1, <1>5, <1>11, ReaderKeepsInv

\* A step to a later phase of the backup, with no file open.
LEMMA PhaseKeepsInv ==
    ASSUME ArchiveInv, Backing, Backing', reader = Closed, entries # <<>>, phase' # "walk",
           hashed' \in Nat, method # "v01",
           phase' \in {"hash", "recheck"} =>
             method = "snapshot" /\ archive.stream = <<>>,
           phase' = "pack" \/ method = "snapshot",
           \A k \in DOMAIN entries :
             /\ phase' \in {"recheck", "pack"} \/ (phase' = "hash" /\ k <= hashed')
             /\ method = "snapshot" /\ entries[k].kind = "file"
             => Settled(entries[k].data),
           UNCHANGED <<sourceVars, walkVars, entries, reader, archive, damaged, restoreVars>>
    PROVE  ArchiveInv'
  <1>1. UNCHANGED <<names, nodes, edits, method, excluded, unread, toVisit, entries, reader,
                    archive, damaged, disk, at, links, directories, target>>
    BY DEF sourceVars, walkVars, restoreVars
  <1>2. SourceInv /\ EntriesInv /\ PackInv /\ ListingInv /\ ReaderInv /\ ArchiveTypes
    BY DEF ArchiveInv, BackingInv
  <1>3. SourceInv' /\ (\A d : Whole(d) => Whole(d)') /\ (\A d : Settled(d) => Settled(d)')
        /\ (\A v, b : Lost(v, b) => Lost(v, b)')
    BY <1>2, SourceStays
  <1>4. EntriesInv'
    <2>1. ASSUME NEW k \in DOMAIN entries, NEW e, e = entries[k]
          PROVE  /\ e.time <= edits
                 /\ e.kind = "file" /\ e.size = 0 => Whole(<<>>)'
                 /\ method # "snapshot" /\ SameAsListed(e, e.node) => nodes[e.node].data = e.data
                 /\ method \in {"v01", "mypack"} /\ names[e.path] # 0
                      /\ SameAsListed(e, names[e.path]) =>
                         nodes[names[e.path]].data = e.data
                 /\ /\ phase' \in {"recheck", "pack"} \/ (phase' = "hash" /\ k <= hashed')
                    /\ method = "snapshot" /\ e.kind = "file"
                    => Settled(e.data)'
      BY <1>2, <1>3, <2>1 DEF EntriesInv
    <2>. QED
      BY <1>1, <2>1 DEF EntriesInv, SameAsListed
  <1>5. PackInv'
    <2>1. PackedSoFar'
      BY <1>1, <1>2 DEF PackInv, PackedSoFar, MemberOf, ListedData
    <2>2. \A k \in DOMAIN archive.stream :
            archive.stream[k].kind = "file" => Whole(archive.stream[k].data)'
      BY <1>1, <1>2, <1>3 DEF PackInv
    <2>. QED
      BY <1>1, <1>2, <2>1, <2>2 DEF PackInv, Packing, Backing
  <1>6. ListingInv' /\ VisitInv'
    BY <1>1, <1>2, ListingStays DEF VisitInv
  <1>7. PublishedInv' /\ ReadingInv' /\ AcceptedMeansRestored' /\ TargetInv'
    BY <1>1, OthersWhileBacking
  <1>8. ArchiveTypes'
    BY <1>1, <1>2 DEF ArchiveTypes, Backing, Nodes, Paths
  <1>9. ReaderInv'
    <2>1. \A k \in DOMAIN entries :
            phase' = "pack" /\ method = "snapshot" /\ entries[k].kind = "file" =>
              Settled(entries[k].data)
      OBVIOUS
    <2>2. DOMAIN reader.got = {}
      BY DEF Closed
    <2>3. \A k \in DOMAIN entries' :
            phase' = "pack" /\ method' = "snapshot" /\ entries'[k].kind = "file" =>
              \/ Whole(entries[k].data)'
              \/ \E b \in DOMAIN entries'[k].data :
                   /\ Lost(entries[k].data[b], b)'
                   /\ b \in DOMAIN reader'.got => reader'.got[b] # entries'[k].data[b]
      BY <1>1, <1>3, <2>1, <2>2 DEF Settled
    <2>. QED
      BY <1>1, <2>3 DEF ReaderInv, Closed
  <1>. QED
    BY <1>3, <1>4, <1>5, <1>6, <1>7, <1>8, <1>9 DEF ArchiveInv, BackingInv

LEMMA EndWalkKeepsInv == ASSUME ArchiveInv, EndWalk PROVE ArchiveInv'
  <1>1. /\ phase = "walk" /\ unread = Nobody /\ toVisit = {} /\ NothingHalfPacked
        /\ method # "v01" /\ phase' = IF method = "snapshot" THEN "hash" ELSE "pack"
        /\ UNCHANGED <<sourceVars, walkVars, entries, hashed, reader, archive, damaged,
                       restoreVars>>
    BY DEF EndWalk, AllListed
  <1>2. Backing /\ Backing'
    BY <1>1 DEF Backing
  <1>3. reader = Closed /\ archive.stream = <<>>
    BY <1>1, WalkIsQuiet
  <1>4. VisitInv /\ PackInv /\ ArchiveTypes
    BY <1>2 DEF ArchiveInv, BackingInv
  <1>5. entries # <<>> /\ hashed = 0 /\ hashed' = 0
    BY <1>1, <1>4 DEF VisitInv, PackInv
  <1>6. \A k \in DOMAIN entries : ~(k <= hashed')
    <2>1. entries \in Seq(EntryRecords)
      BY <1>4 DEF ArchiveTypes
    <2>. QED
      BY <1>5, <2>1
  <1>. QED
    BY <1>1, <1>2, <1>3, <1>5, <1>6, PhaseKeepsInv

LEMMA NextToHashIsTheFirst ==
    ASSUME entries \in Seq(EntryRecords), hashed \in Nat, FilesToHash # {}
    PROVE  /\ NextToHash \in DOMAIN entries /\ NextToHash > hashed
           /\ entries[NextToHash].kind = "file"
           /\ \A k \in FilesToHash : NextToHash <= k
  <1>1. FilesToHash \in SUBSET Nat
    BY DEF FilesToHash
  <1>2. \E i \in FilesToHash : \A j \in FilesToHash : i <= j
    BY <1>1, LeastNumber
  <1>3. NextToHash \in FilesToHash /\ \A k \in FilesToHash : NextToHash <= k
    BY <1>2 DEF NextToHash
  <1>. QED
    BY <1>3 DEF FilesToHash

LEMMA HashedKeepsInv ==
    ASSUME ArchiveInv, phase = "hash", FilesToHash # {}, reader # Closed,
           Len(reader.got) >= Len(OpenNode.data),
           entries' = [entries EXCEPT ![NextToHash].data = reader.got],
           hashed' = NextToHash, reader' = Closed,
           UNCHANGED <<sourceVars, walkVars, phase, archive, damaged, restoreVars>>
    PROVE  ArchiveInv'
  <1>1. UNCHANGED <<names, nodes, edits, method, excluded, unread, toVisit, phase, archive,
                    damaged, disk, at, links, directories, target>>
    BY DEF sourceVars, walkVars, restoreVars
  <1>b. Backing /\ Backing'
    BY <1>1 DEF Backing
  <1>2. SourceInv /\ EntriesInv /\ PackInv /\ ListingInv /\ ReaderInv /\ VisitInv /\ ArchiveTypes
    BY <1>b DEF ArchiveInv, BackingInv
  <1>m. method = "snapshot" /\ archive.stream = <<>>
    BY <1>2 DEF PackInv, Packing
  <1>E. PICK E \in Seq(EntryRecords) : E = entries
    BY <1>2 DEF ArchiveTypes
  <1>h. PICK h \in DOMAIN E :
          /\ h = NextToHash /\ h > hashed /\ E[h].kind = "file" /\ h \in Nat
          /\ \A k \in FilesToHash : h <= k
    BY <1>2, <1>E, NextToHashIsTheFirst DEF ArchiveTypes
  <1>g. PICK g \in Seq(Int) : g = reader.got
    BY <1>2 DEF ArchiveTypes
  <1>n. PICK n \in Nodes : n = reader.node /\ n <= Last + 1 + edits
    BY <1>2, NodesAreNumbers DEF ReaderInv, ArchiveTypes
  <1>D. PICK D \in Seq(Int) : D = nodes[n].data /\ D = OpenNode.data
    BY <1>2, <1>n DEF OpenNode, ArchiveTypes, NodeRecords
  <1>3. Settled(g)
    <2>1. \A b \in DOMAIN g : (b \in DOMAIN D /\ D[b] = g[b]) \/ Lost(g[b], b)
      BY <1>2, <1>g, <1>D DEF ReaderInv
    <2>2. CASE \E b \in DOMAIN g : Lost(g[b], b)
      BY <2>2 DEF Settled
    <2>3. CASE \A b \in DOMAIN g : b \in DOMAIN D /\ D[b] = g[b]
      <3>1. Len(g) \in Nat /\ Len(D) \in Nat /\ DOMAIN g = 1..Len(g) /\ DOMAIN D = 1..Len(D)
            /\ Len(g) >= Len(D)
        BY <1>g, <1>D
      <3>2. Len(g) = Len(D)
        <4>l. PICK l \in Nat, m \in Nat : l = Len(g) /\ m = Len(D)
          BY <3>1
        <4>1. l >= m /\ DOMAIN g = 1..l /\ DOMAIN D = 1..m
          BY <3>1, <4>l
        <4>2. l # 0 => l \in 1..l
          OBVIOUS
        <4>3. l # 0 => l \in 1..m
          BY <2>3, <4>1, <4>2
        <4>4. l = m
          BY <4>1, <4>3
        <4>. QED
          BY <4>l, <4>4
      <3>3. g = D
        <4>1. \A b \in 1..Len(g) : g[b] = D[b]
          BY <2>3, <3>1
        <4>. QED
          BY <3>2, <4>1, SeqEqual
      <3>4. Whole(g)
        BY <1>2, <1>n, <1>D, <3>3 DEF Whole, SourceInv
      <3>. QED
        BY <3>4 DEF Settled
    <2>. QED
      BY <2>1, <2>2, <2>3
  <1>r. PICK r : r = [E[h] EXCEPT !.data = g]
    OBVIOUS
  <1>4. /\ r \in EntryRecords /\ r.data = g /\ r.path = E[h].path /\ r.size = E[h].size
        /\ r.kind = E[h].kind /\ r.time = E[h].time /\ r.node = E[h].node
        /\ r.shared = E[h].shared /\ r.link = E[h].link
    <2>e. PICK e \in EntryRecords : e = E[h]
      OBVIOUS
    <2>1. e = [path |-> e.path, size |-> e.size, kind |-> e.kind, time |-> e.time,
               data |-> e.data, node |-> e.node, shared |-> e.shared, link |-> e.link]
      BY DEF EntryRecords
    <2>2. r = [path |-> e.path, size |-> e.size, kind |-> e.kind, time |-> e.time,
               data |-> g, node |-> e.node, shared |-> e.shared, link |-> e.link]
      <3>1. r = [e EXCEPT !.data = g]
        BY <1>r, <2>e
      <3>. QED
        BY <2>1, <3>1
    <2>3. e \in EntryRecords /\ e.path \in Paths /\ e.size \in Nat /\ e.time \in Nat
          /\ e.kind \in {"directory", "file", "symlink", "fifo", "hardlink"}
          /\ e.node \in Nodes /\ e.shared \in BOOLEAN /\ e.link \in Paths
      BY DEF EntryRecords
    <2>4. r \in EntryRecords
      BY <2>2, <2>3 DEF EntryRecords
    <2>5. r.data = g /\ r.path = e.path /\ r.size = e.size /\ r.kind = e.kind /\ r.time = e.time
          /\ r.node = e.node /\ r.shared = e.shared /\ r.link = e.link
      BY <2>2
    <2>. QED
      BY <2>e, <2>4, <2>5
  <1>5. /\ entries' = [E EXCEPT ![h] = r] /\ DOMAIN entries' = DOMAIN E /\ entries'[h] = r
        /\ \A k \in DOMAIN E : k # h => entries'[k] = E[k]
        /\ entries' \in Seq(EntryRecords) /\ (entries # <<>> => entries' # <<>>)
    <2>1. entries' = [E EXCEPT ![h] = r]
      BY <1>E, <1>g, <1>h, <1>r
    <2>2. entries' \in Seq(EntryRecords) /\ DOMAIN entries' = DOMAIN E /\ entries'[h] = r
          /\ \A k \in DOMAIN E : k # h => entries'[k] = E[k]
      <3>1. h \in 1..Len(E) /\ DOMAIN E = 1..Len(E) /\ r \in EntryRecords
        BY <1>4
      <3>t. PICK t : t = [E EXCEPT ![h] = r]
        OBVIOUS
      <3>2. t \in Seq(EntryRecords)
        BY <3>1, <3>t, ExceptSeq
      <3>3. DOMAIN t = DOMAIN E /\ t[h] = r /\ \A k \in DOMAIN E : k # h => t[k] = E[k]
        BY <3>1, <3>t
      <3>. QED
        BY <2>1, <3>t, <3>2, <3>3
    <2>3. entries' # <<>>
      <3>1. h \in DOMAIN entries'
        BY <2>2
      <3>. QED
        BY <3>1
    <2>. QED
      BY <2>1, <2>2, <2>3
  <1>6. \A k \in DOMAIN E :
          /\ entries'[k].path = E[k].path /\ entries'[k].size = E[k].size
          /\ entries'[k].kind = E[k].kind /\ entries'[k].time = E[k].time
          /\ entries'[k].node = E[k].node /\ entries'[k].shared = E[k].shared
          /\ entries'[k].link = E[k].link
          /\ k # h => entries'[k].data = E[k].data
    BY <1>4, <1>5
  <1>7. ListingInv'
    <2>0. 1..0 = {} /\ \A k \in DOMAIN E : 1..k - 1 \subseteq DOMAIN E
      OBVIOUS
    <2>e. E # <<>> => 1 \in DOMAIN E
      OBVIOUS
    <2>1. IsListing(entries')
      <3>1. IsListing(E)
        BY <1>2, <1>E DEF ListingInv
      <3>2. entries' # <<>> => entries'[1].path = Root /\ entries'[1].kind = "directory"
        BY <1>5, <1>6, <2>e, <3>1, <1>E DEF IsListing
      <3>3. \A j, k \in DOMAIN entries' : j < k => entries'[j].path < entries'[k].path
        BY <1>5, <1>6, <3>1 DEF IsListing
      <3>4. ASSUME NEW k \in DOMAIN entries', k # 1
            PROVE  \E j \in 1..k - 1 : entries'[j].path = Parent[entries'[k].path]
                                       /\ entries'[j].kind = "directory"
        <4>1. PICK j \in 1..k - 1 : E[j].path = Parent[E[k].path] /\ E[j].kind = "directory"
          BY <1>5, <3>1, <3>4 DEF IsListing
        <4>. QED
          BY <1>5, <1>6, <2>0, <4>1
      <3>. QED
        BY <3>2, <3>3, <3>4 DEF IsListing
    <2>2. \A i, k : k \in DOMAIN E => SharedFile(entries'[k], i) = SharedFile(E[k], i)
      BY <1>6 DEF SharedFile
    <2>3. ASSUME NEW k \in DOMAIN E
          PROVE  /\ entries'[k].kind = "hardlink" =>
                      /\ method # "v01" /\ entries'[k].shared
                      /\ \E j \in 1..k - 1 : SharedFile(entries'[j], entries'[k].node)
                                             /\ entries'[k].link = entries'[j].path
                 /\ method = "v01" => entries'[k].kind \in {"directory", "file"}
                 /\ entries'[k].shared => entries'[k].kind \in {"file", "hardlink"}
      <3>1. /\ E[k].kind = "hardlink" =>
                 /\ method # "v01" /\ E[k].shared
                 /\ \E j \in 1..k - 1 : SharedFile(E[j], E[k].node)
                                        /\ E[k].link = E[j].path
            /\ method = "v01" => E[k].kind \in {"directory", "file"}
            /\ E[k].shared => E[k].kind \in {"file", "hardlink"}
        BY <1>2, <1>E DEF ListingInv
      <3>2. ASSUME entries'[k].kind = "hardlink"
            PROVE  /\ method # "v01" /\ entries'[k].shared
                   /\ \E j \in 1..k - 1 : SharedFile(entries'[j], entries'[k].node)
                                          /\ entries'[k].link = entries'[j].path
        <4>1. E[k].kind = "hardlink"
          BY <1>6, <3>2
        <4>2. PICK j \in 1..k - 1 : SharedFile(E[j], E[k].node) /\ E[k].link = E[j].path
          BY <3>1, <4>1
        <4>3. j \in DOMAIN E
          BY <2>0
        <4>4. SharedFile(entries'[j], entries'[k].node) /\ entries'[k].link = entries'[j].path
          BY <1>6, <2>2, <4>2, <4>3
        <4>5. method # "v01" /\ E[k].shared
          BY <3>1, <4>1
        <4>6. method # "v01" /\ entries'[k].shared
          BY <1>6, <4>5
        <4>. QED
          BY <4>4, <4>6
      <3>. QED
        BY <1>6, <3>1, <3>2
    <2>4. \A j, k \in DOMAIN E :
            SharedFile(entries'[j], entries'[k].node) /\ SharedFile(entries'[k], entries'[k].node)
            => j = k
      BY <1>2, <1>E, <1>6, <1>m, <2>2 DEF ListingInv
    <2>. QED
      BY <1>1, <1>5, <2>1, <2>3, <2>4 DEF ListingInv, SharedFile
  <1>8. VisitInv'
    BY <1>1, <1>2, <1>5 DEF VisitInv
  <1>9. SourceInv' /\ (\A d : Whole(d) => Whole(d)') /\ (\A d : Settled(d) => Settled(d)')
    BY <1>2, SourceStays
  <1>10. ASSUME NEW k \in DOMAIN E
         PROVE  /\ entries'[k].time <= edits
                /\ entries'[k].kind = "file" /\ entries'[k].size = 0 => Whole(<<>>)'
                /\ k <= hashed' /\ entries'[k].kind = "file" => Settled(entries'[k].data)
    <2>1. /\ E[k].time <= edits
          /\ E[k].kind = "file" /\ E[k].size = 0 => Whole(<<>>)
          /\ k <= hashed /\ E[k].kind = "file" => Settled(E[k].data)
      BY <1>2, <1>E, <1>m DEF EntriesInv
    <2>2. ASSUME k <= hashed', entries'[k].kind = "file" PROVE Settled(entries'[k].data)
      <3>1. CASE k = h
        BY <1>3, <1>4, <1>5, <3>1
      <3>2. CASE k # h
        <4>1. k < h /\ k \in Nat /\ hashed \in Nat
          BY <1>2, <1>h, <2>2, <3>2 DEF ArchiveTypes
        <4>2. k \notin FilesToHash
          BY <1>h, <4>1
        <4>3. k <= hashed
          BY <1>E, <1>6, <2>2, <4>1, <4>2 DEF FilesToHash
        <4>. QED
          BY <1>6, <2>1, <2>2, <3>2, <4>3
      <3>. QED
        BY <3>1, <3>2
    <2>. QED
      BY <1>6, <1>9, <2>1, <2>2
  <1>11. EntriesInv'
    BY <1>1, <1>5, <1>9, <1>10, <1>m DEF EntriesInv
  <1>12. ReaderInv'
    BY <1>1 DEF ReaderInv, Closed
  <1>13. PackInv'
    <2>1. Len(archive.stream) = 0 /\ DOMAIN archive.stream = {} /\ Len(entries') \in Nat
      BY <1>m, <1>5
    <2>2. PackedSoFar'
      BY <1>1, <2>1 DEF PackedSoFar
    <2>. QED
      BY <1>1, <1>2, <1>m, <2>1, <2>2 DEF PackInv, Packing
  <1>14. PublishedInv' /\ ReadingInv' /\ AcceptedMeansRestored' /\ TargetInv'
    BY <1>1, <1>b, OthersWhileBacking
  <1>15. ArchiveTypes'
    <2>1. reader' \in [node : {0} \cup Nodes, got : Seq(Int)]
      BY DEF Closed
    <2>. QED
      BY <1>1, <1>2, <1>5, <1>h, <2>1 DEF ArchiveTypes, Backing, Nodes, Paths, EntryRecords
  <1>. QED
    BY <1>7, <1>8, <1>9, <1>11, <1>12, <1>13, <1>14, <1>15 DEF ArchiveInv, BackingInv

LEMMA HashFileKeepsInv == ASSUME ArchiveInv, HashFile PROVE ArchiveInv'
  <1>1. phase = "hash" /\ FilesToHash # {} /\ Backing
    BY DEF HashFile, Backing
  <1>2. entries \in Seq(EntryRecords) /\ hashed \in Nat
    BY DEF ArchiveInv, ArchiveTypes
  <1>3. PICK k \in DOMAIN entries : k = NextToHash
    BY <1>1, <1>2, NextToHashIsTheFirst
  <1>4. CASE reader = Closed /\ OpenSource(NextToHash)
    BY <1>1, <1>3, <1>4, OpenKeepsInv
  <1>5. CASE reader # Closed /\ Len(reader.got) < Len(OpenNode.data) /\ ReadBlock
    BY <1>1, <1>5, ReadKeepsInv
  <1>6. CASE /\ reader # Closed /\ Len(reader.got) >= Len(OpenNode.data)
             /\ entries' = [entries EXCEPT ![NextToHash].data = reader.got]
             /\ hashed' = NextToHash
             /\ reader' = Closed
             /\ UNCHANGED <<sourceVars, walkVars, phase, archive, damaged, restoreVars>>
    BY <1>1, <1>6, HashedKeepsInv
  <1>. QED
    BY <1>4, <1>5, <1>6 DEF HashFile

LEMMA RecheckKeepsInv == ASSUME ArchiveInv, Recheck PROVE ArchiveInv'
  <1>1. (phase = "hash" /\ FilesToHash = {}) \/ phase = "recheck"
    BY DEF Recheck
  <1>2. Backing /\ phase # "walk"
    BY <1>1 DEF Backing
  <1>3. PackInv /\ ReaderInv /\ EntriesInv /\ VisitInv /\ ArchiveTypes
    BY <1>2 DEF ArchiveInv, BackingInv
  <1>4. reader = Closed /\ archive.stream = <<>> /\ method = "snapshot" /\ entries # <<>>
        /\ entries \in Seq(EntryRecords) /\ hashed \in Nat
    BY <1>1, <1>2, <1>3 DEF PackInv, ReaderInv, Packing, VisitInv, ArchiveTypes
  <1>5. ASSUME NEW k \in DOMAIN entries, entries[k].kind = "file"
        PROVE  Settled(entries[k].data)
    <2>1. k \in Nat
      BY <1>4
    <2>2. phase = "hash" => k <= hashed
      BY <1>1, <1>4, <1>5, <2>1 DEF FilesToHash
    <2>. QED
      BY <1>1, <1>3, <1>4, <1>5, <2>2 DEF EntriesInv
  <1>z. PICK z : z = IF phase = "hash" THEN 0 ELSE hashed
    OBVIOUS
  <1>l. PICK L : L = {i \in DOMAIN entries : i > z /\ entries[i].kind = "file"}
    OBVIOUS
  <1>c. PICK c : c = CHOOSE i \in L : \A j \in L : i <= j
    OBVIOUS
  <1>6. IF L = {}
        THEN /\ phase' = "pack" /\ hashed' = 0
             /\ UNCHANGED <<sourceVars, walkVars, entries, reader, archive, damaged,
                            restoreVars>>
        ELSE IF KindOf(entries[c].path) # "file"
                \/ ~SameAsListed(entries[c], names[entries[c].path]) THEN Fail
        ELSE /\ phase' = "recheck" /\ hashed' = c
             /\ UNCHANGED <<sourceVars, walkVars, entries, reader, archive, damaged,
                            restoreVars>>
    BY <1>z, <1>l, <1>c, Zenon DEF Recheck
  <1>7. L # {} => c \in Nat
    <2>1. L \in SUBSET Nat
      BY <1>l, <1>4
    <2>2. L # {} => \E i \in L : \A j \in L : i <= j
      BY <2>1, LeastNumber
    <2>. QED
      BY <1>c, <2>1, <2>2
  <1>8. CASE L = {}
    BY <1>2, <1>4, <1>5, <1>6, <1>8, PhaseKeepsInv DEF Backing
  <1>9. CASE L # {} /\ phase' = "recheck" /\ hashed' = c
             /\ UNCHANGED <<sourceVars, walkVars, entries, reader, archive, damaged, restoreVars>>
    BY <1>2, <1>4, <1>5, <1>7, <1>9, PhaseKeepsInv DEF Backing
  <1>10. CASE Fail
    BY <1>2, <1>10, FailKeepsInv
  <1>. QED
    BY <1>6, <1>8, <1>9, <1>10

-----------------------------------------------------------------------------
(* The backup: packing *)

LEMMA MembersAreTyped ==
    ASSUME NEW e \in EntryRecords
    PROVE  /\ MemberOf(e) \in StreamMembers
           /\ MemberOf(e).kind = e.kind /\ MemberOf(e).path = e.path
           /\ e.kind # "hardlink" => /\ MemberOf(e).data = ListedData(e)
                                     /\ MemberOf(e).time = e.time
           /\ e.kind = "hardlink" => MemberOf(e).link = e.link
  <1>e. e.path \in Paths /\ e.kind \in {"directory", "file", "symlink", "fifo", "hardlink"}
        /\ e.time \in Nat /\ e.data \in Seq(Int) /\ e.link \in Paths /\ Root \in Paths
    BY NodesAreNumbers DEF EntryRecords
  <1>1. CASE e.kind = "hardlink"
    <2>m. PICK m : m = Member(e.path, "hardlink", 0, <<>>)
      OBVIOUS
    <2>1. m = [path |-> e.path, kind |-> "hardlink", time |-> 0, data |-> <<>>, link |-> Root]
      BY <2>m DEF Member
    <2>n. PICK n : n = [m EXCEPT !.link = e.link]
      OBVIOUS
    <2>2. n = [path |-> e.path, kind |-> "hardlink", time |-> 0, data |-> <<>>, link |-> e.link]
      BY <2>1, <2>n
    <2>3. MemberOf(e) = n
      BY <1>1, <2>m, <2>n DEF MemberOf, LinkMember
    <2>4. <<>> \in Seq(Int) /\ 0 \in Int
      OBVIOUS
    <2>5. n \in StreamMembers
      BY <1>e, <2>2, <2>4 DEF StreamMembers
    <2>. QED
      BY <1>1, <2>2, <2>3, <2>5
  <1>2. CASE e.kind # "hardlink"
    <2>d. PICK d \in Seq(Int) : d = ListedData(e)
      <3>1. <<>> \in Seq(Int) /\ e.data \in Seq(Int)
        BY <1>e
      <3>2. ListedData(e) = <<>> \/ ListedData(e) = e.data
        BY DEF ListedData
      <3>. QED
        BY <3>1, <3>2
    <2>m. PICK m : m = [path |-> e.path, kind |-> e.kind, time |-> e.time, data |-> d,
                        link |-> Root]
      OBVIOUS
    <2>1. MemberOf(e) = m
      BY <1>2, <2>d, <2>m DEF MemberOf, Member
    <2>2. m \in StreamMembers
      BY <1>e, <2>m DEF StreamMembers
    <2>. QED
      BY <1>2, <2>d, <2>m, <2>1, <2>2
  <1>. QED
    BY <1>1, <1>2

LEMMA FileSoFar ==
    ASSUME NEW f, NEW s
    PROVE  [NoFile EXCEPT !.format = f, !.stream = s] =
             [format |-> f, count |-> 0, size |-> 0, sum |-> <<>>, stream |-> s, tag |-> <<>>]
  <1>a. PICK a : a = [NoFile EXCEPT !.format = f]
    OBVIOUS
  <1>1. NoFile = [format |-> "none", count |-> 0, size |-> 0, sum |-> <<>>, stream |-> <<>>,
                  tag |-> <<>>]
    BY DEF NoFile
  <1>n. PICK n : n = NoFile
    OBVIOUS
  <1>2. a = [n EXCEPT !.format = f]
    BY <1>a, <1>n
  <1>3. a = [format |-> f, count |-> 0, size |-> 0, sum |-> <<>>, stream |-> <<>>, tag |-> <<>>]
    BY <1>1, <1>2, <1>n
  <1>b. PICK b : b = [a EXCEPT !.stream = s]
    OBVIOUS
  <1>4. b = [format |-> f, count |-> 0, size |-> 0, sum |-> <<>>, stream |-> s, tag |-> <<>>]
    BY <1>3, <1>b
  <1>. QED
    BY <1>a, <1>b, <1>4

LEMMA PackKeepsInv ==
    ASSUME ArchiveInv, Packing, NextToPack <= Len(entries),
           NEW CONSTANT m, m = MemberOf(entries[NextToPack]),
           m.kind = "file" => Whole(m.data), Pack(m)
    PROVE  ArchiveInv'
  <1>1. /\ archive' = [archive EXCEPT !.stream = Append(@, m)]
        /\ reader' = Closed
        /\ UNCHANGED <<sourceVars, walkVars, phase, entries, hashed, damaged, restoreVars>>
    BY DEF Pack
  <1>2. UNCHANGED <<names, nodes, edits, method, excluded, unread, toVisit, phase, entries,
                    hashed, damaged, disk, at, links, directories, target>>
    BY <1>1 DEF sourceVars, walkVars, restoreVars
  <1>b. Backing /\ Backing'
    BY <1>2 DEF Backing, Packing
  <1>3. SourceInv /\ EntriesInv /\ PackInv /\ ListingInv /\ ReaderInv /\ VisitInv /\ ArchiveTypes
    BY <1>b DEF ArchiveInv, BackingInv
  <1>s. PICK s \in Seq(StreamMembers) : s = archive.stream
    BY <1>3 DEF ArchiveTypes
  <1>4. /\ entries \in Seq(EntryRecords) /\ Len(entries) \in Nat
        /\ DOMAIN entries = 1..Len(entries)
    BY <1>3 DEF ArchiveTypes
  <1>k. PICK k \in DOMAIN entries : k = NextToPack /\ k = Len(s) + 1
    <2>1. Len(s) \in Nat
      OBVIOUS
    <2>. QED
      BY <1>4, <1>s, <2>1 DEF NextToPack
  <1>5. m \in StreamMembers
    BY <1>4, <1>k, EntriesAreTyped, MembersAreTyped
  <1>t. PICK t : t = Append(s, m)
    OBVIOUS
  <1>6. /\ t \in Seq(StreamMembers) /\ Len(t) = k /\ t[k] = m
        /\ \A j \in DOMAIN s : t[j] = s[j]
        /\ \A j \in DOMAIN t : j \in DOMAIN s \/ j = k
    <2>1. /\ t \in Seq(StreamMembers) /\ Len(t) = Len(s) + 1 /\ t[Len(s) + 1] = m
          /\ \A j \in DOMAIN s : t[j] = s[j]
      BY <1>5, <1>t, AppendedSeq
    <2>2. \A j \in DOMAIN t : j \in DOMAIN s \/ j = Len(s) + 1
      BY <1>5, <1>t, AppendedSeq
    <2>. QED
      BY <1>k, <2>1, <2>2
  <1>7. /\ archive'.stream = t /\ archive'.format = archive.format
        /\ archive' = [NoFile EXCEPT !.format = Format(method), !.stream = t]
    <2>1. archive = [NoFile EXCEPT !.format = Format(method), !.stream = s]
      BY <1>3, <1>s DEF PackInv
    <2>2. archive = [format |-> Format(method), count |-> 0, size |-> 0, sum |-> <<>>,
                     stream |-> s, tag |-> <<>>]
      BY <2>1 DEF NoFile
    <2>3. archive' = [format |-> Format(method), count |-> 0, size |-> 0, sum |-> <<>>,
                      stream |-> t, tag |-> <<>>]
      BY <1>1, <1>t, <2>2
    <2>f. PICK f : f = Format(method)
      OBVIOUS
    <2>4. [NoFile EXCEPT !.format = f, !.stream = t] =
            [format |-> f, count |-> 0, size |-> 0, sum |-> <<>>, stream |-> t, tag |-> <<>>]
      BY FileSoFar
    <2>5. archive'.stream = t /\ archive'.format = archive.format
      BY <2>2, <2>3
    <2>. QED
      BY <2>3, <2>4, <2>5, <2>f
  <1>8. SourceInv' /\ (\A d : Whole(d) => Whole(d)') /\ (\A d : Settled(d) => Settled(d)')
        /\ (\A v, b : Lost(v, b) => Lost(v, b)')
    BY <1>1, <1>3, SourceStays
  <1>9. EntriesInv'
    <2>1. ASSUME NEW j \in DOMAIN entries, NEW e, e = entries[j]
          PROVE  /\ e.time <= edits
                 /\ e.kind = "file" /\ e.size = 0 => Whole(<<>>)'
                 /\ method # "snapshot" /\ SameAsListed(e, e.node) => nodes[e.node].data = e.data
                 /\ method \in {"v01", "mypack"} /\ names[e.path] # 0
                      /\ SameAsListed(e, names[e.path]) =>
                         nodes[names[e.path]].data = e.data
                 /\ /\ phase \in {"recheck", "pack"} \/ (phase = "hash" /\ j <= hashed)
                    /\ method = "snapshot" /\ e.kind = "file"
                    => Settled(e.data)'
      BY <1>3, <1>8, <2>1 DEF EntriesInv
    <2>. QED
      BY <1>2, <2>1 DEF EntriesInv, SameAsListed
  <1>10. ReaderInv'
    <2>1. method = "snapshot" /\ phase = "pack" => \A j \in DOMAIN entries :
            entries[j].kind = "file" =>
              \/ Whole(entries[j].data)'
              \/ \E b \in DOMAIN entries[j].data : Lost(entries[j].data[b], b)'
      <3>1. method = "snapshot" /\ phase = "pack" => \A j \in DOMAIN entries :
              entries[j].kind = "file" =>
                \/ Whole(entries[j].data)
                \/ \E b \in DOMAIN entries[j].data : Lost(entries[j].data[b], b)
        BY <1>3 DEF ReaderInv
      <3>. QED
        BY <1>2, <1>8, <3>1
    <2>2. DOMAIN reader'.got = {}
      BY <1>1 DEF Closed
    <2>. QED
      BY <1>1, <1>2, <2>1, <2>2 DEF ReaderInv, Closed
  <1>11. PackInv'
    <2>1. PackedSoFar'
      <3>1. \A j \in DOMAIN s : s[j] = MemberOf(entries[j])
        BY <1>3, <1>s DEF PackInv, PackedSoFar
      <3>2. \A j \in DOMAIN t : t[j] = MemberOf(entries[j])
        BY <1>6, <1>k, <3>1
      <3>3. Len(t) <= Len(entries)
        BY <1>4, <1>6, <1>k
      <3>. QED
        BY <1>2, <1>7, <3>2, <3>3 DEF PackedSoFar, MemberOf, ListedData
    <2>2. \A j \in DOMAIN t : t[j].kind = "file" => Whole(t[j].data)'
      <3>1. \A j \in DOMAIN s : s[j].kind = "file" => Whole(s[j].data)
        BY <1>3, <1>s DEF PackInv
      <3>. QED
        BY <1>6, <1>8, <3>1
    <2>3. \A j \in DOMAIN archive'.stream :
            archive'.stream[j].kind = "file" => Whole(archive.stream[j].data)'
      BY <1>7, <2>2
    <2>4. /\ archive' = [NoFile EXCEPT !.format = Format(method), !.stream = archive.stream]'
          /\ damaged' = "no" /\ Packing'
          /\ method' = "v01" => phase' = "walk"
          /\ phase' = "walk" => hashed' = 0
          /\ phase' \in {"hash", "recheck"} => method' = "snapshot"
      BY <1>2, <1>3, <1>7 DEF PackInv, Packing, Format, NoFile
    <2>. QED
      BY <2>1, <2>3, <2>4 DEF PackInv
  <1>12. ListingInv' /\ VisitInv'
    BY <1>2, <1>3, ListingStays DEF VisitInv
  <1>13. PublishedInv' /\ ReadingInv' /\ AcceptedMeansRestored' /\ TargetInv'
    BY <1>2, <1>7, <1>b, OthersWhileBacking
  <1>14. ArchiveTypes'
    <2>1. reader' \in [node : {0} \cup Nodes, got : Seq(Int)]
      BY <1>1 DEF Closed
    <2>. QED
      BY <1>2, <1>3, <1>6, <1>7, <2>1 DEF ArchiveTypes, Backing, Nodes, Paths
  <1>. QED
    BY <1>8, <1>9, <1>10, <1>11, <1>12, <1>13, <1>14 DEF ArchiveInv, BackingInv

LEMMA PackHeaderKeepsInv == ASSUME ArchiveInv, PackHeader PROVE ArchiveInv'
  <1>1. /\ Packing /\ NextToPack <= Len(entries) /\ Backing
        /\ WithoutPayload(entries[NextToPack])
    BY DEF PackHeader, Packing, Backing
  <1>2. EntriesInv /\ ArchiveTypes
    BY <1>1 DEF ArchiveInv, BackingInv
  <1>k. PICK k \in DOMAIN entries : k = NextToPack
    <2>1. entries \in Seq(EntryRecords) /\ archive.stream \in Seq(StreamMembers)
      BY <1>2 DEF ArchiveTypes
    <2>2. Len(entries) \in Nat /\ DOMAIN entries = 1..Len(entries) /\ Len(archive.stream) \in Nat
      BY <2>1
    <2>. QED
      BY <1>1, <2>2 DEF NextToPack
  <1>e. PICK e \in EntryRecords : e = entries[k]
    BY <1>2 DEF ArchiveTypes
  <1>m. PICK m : m = MemberOf(e)
    OBVIOUS
  <1>3. m.kind = "file" => Whole(m.data)
    <2>1. ASSUME m.kind = "file" PROVE Whole(m.data)
      <3>1. e.kind = "file" /\ m.data = ListedData(e)
        BY <1>m, <2>1, MembersAreTyped
      <3>2. e.size = 0
        BY <1>1, <1>e, <1>k, <3>1 DEF WithoutPayload
      <3>3. m.data = <<>> /\ Whole(<<>>)
        BY <1>2, <1>e, <3>1, <3>2 DEF ListedData, EntriesInv
      <3>. QED
        BY <3>3
    <2>. QED
      BY <2>1
  <1>4. Fail \/ Pack(m)
    <2>1. Fail \/ Pack(IF e.kind = "hardlink" THEN LinkMember(e.path, e.link)
                       ELSE Member(e.path, e.kind, e.time, ListedData(e)))
      BY <1>e, <1>k DEF PackHeader
    <2>. QED
      BY <1>m, <2>1 DEF MemberOf
  <1>5. CASE Fail
    BY <1>1, <1>5, FailKeepsInv
  <1>6. CASE Pack(m)
    BY <1>1, <1>3, <1>6, <1>e, <1>k, <1>m, PackKeepsInv
  <1>. QED
    BY <1>4, <1>5, <1>6

LEMMA PackFileKeepsInv == ASSUME ArchiveInv, PackFile PROVE ArchiveInv'
  <1>1. /\ Packing /\ NextToPack <= Len(entries) /\ Backing /\ phase # "hash"
        /\ ~WithoutPayload(entries[NextToPack])
    BY DEF PackFile, Packing, Backing
  <1>2. EntriesInv /\ ReaderInv /\ SourceInv /\ PackInv /\ ArchiveTypes
    BY <1>1 DEF ArchiveInv, BackingInv
  <1>k. PICK k \in DOMAIN entries : k = NextToPack
    <2>1. entries \in Seq(EntryRecords) /\ archive.stream \in Seq(StreamMembers)
      BY <1>2 DEF ArchiveTypes
    <2>2. Len(entries) \in Nat /\ DOMAIN entries = 1..Len(entries) /\ Len(archive.stream) \in Nat
      BY <2>1
    <2>. QED
      BY <1>1, <2>2 DEF NextToPack
  <1>e. PICK e \in EntryRecords : e = entries[k]
    BY <1>2 DEF ArchiveTypes
  <1>f. e.kind = "file"
    BY <1>1, <1>e, <1>k DEF WithoutPayload
  <1>3. CASE reader = Closed /\ OpenSource(NextToPack)
    BY <1>1, <1>3, <1>k, OpenKeepsInv
  <1>4. CASE reader # Closed /\ Len(reader.got) < e.size
    <2>1. IF Len(reader.got) >= Len(OpenNode.data) THEN Fail ELSE ReadBlock
      BY <1>4, <1>e, <1>k DEF PackFile
    <2>2. CASE Fail
      BY <1>1, <2>2, FailKeepsInv
    <2>3. CASE ~(Len(reader.got) >= Len(OpenNode.data)) /\ ReadBlock
      <3>1. reader.got \in Seq(Int) /\ OpenNode.data \in Seq(Int)
        BY <1>2, <1>4, NodesAreNumbers DEF ReaderInv, OpenNode, ArchiveTypes, NodeRecords
      <3>2. Len(reader.got) \in Nat /\ Len(OpenNode.data) \in Nat
        BY <3>1
      <3>. QED
        BY <1>1, <1>4, <2>3, <3>2, ReadKeepsInv
    <2>. QED
      BY <2>1, <2>2, <2>3
  <1>5. CASE reader # Closed /\ Len(reader.got) = e.size
    <2>1. IF PayloadIsListed(e) THEN Pack(Member(e.path, "file", e.time, reader.got)) ELSE Fail
      BY <1>5, <1>e, <1>k DEF PackFile
    <2>2. CASE Fail
      BY <1>1, <2>2, FailKeepsInv
    <2>3. CASE PayloadIsListed(e) /\ Pack(Member(e.path, "file", e.time, reader.got))
      <3>n. PICK n \in Nodes : n = reader.node /\ n <= Last + 1 + edits
        BY <1>2, <1>5, NodesAreNumbers DEF ReaderInv, ArchiveTypes
      <3>D. PICK D \in Seq(Int) : D = nodes[n].data /\ D = OpenNode.data
        BY <1>2, <3>n DEF OpenNode, ArchiveTypes, NodeRecords
      <3>g. PICK g \in Seq(Int) : g = reader.got
        BY <1>2 DEF ArchiveTypes
      <3>1. Len(D) = e.size /\ nodes[n].time = e.time /\ Len(g) = Len(D) /\ e.time \in Nat
            /\ e.data \in Seq(Int)
        BY <1>5, <2>3, <3>n, <3>D, <3>g DEF PayloadIsListed, SameAsListed, EntryRecords
      <3>2. g = e.data /\ Whole(g)
        <4>1. CASE method # "snapshot"
          <5>1. Begins(g, D) /\ (method \in {"v01", "mypack"} => D = e.data)
            <6>1. /\ Begins(g, D) \/ nodes[n].time > e.time
                  /\ method \in {"v01", "mypack"} /\ SameAsListed(e, n) => D = e.data
              BY <1>2, <1>5, <4>1, <1>e, <1>k, <3>n, <3>D, <3>g DEF ReaderInv, OpenNode
            <6>2. SameAsListed(e, n) /\ ~(nodes[n].time > e.time)
              BY <3>1, <3>D DEF SameAsListed
            <6>. QED
              BY <6>1, <6>2
          <5>2. method \in {"v01", "mypack", "ustar"}
            BY <1>1, <1>2, <4>1 DEF ArchiveTypes, Methods
          <5>3. method = "ustar" => D = e.data
            <6>1. method = "ustar" => e.node = n
              BY <2>3, <3>n DEF PayloadIsListed
            <6>2. SameAsListed(e, n)
              BY <3>1, <3>D DEF SameAsListed
            <6>. QED
              BY <1>2, <1>e, <3>D, <4>1, <6>1, <6>2 DEF EntriesInv
          <5>4. g = D
            <6>1. \A b \in 1..Len(g) : g[b] = D[b]
              BY <5>1 DEF Begins
            <6>. QED
              BY <3>1, <6>1, SeqEqual
          <5>5. Whole(D)
            BY <1>2, <3>n, <3>D DEF SourceInv, Whole
          <5>. QED
            BY <5>1, <5>2, <5>3, <5>4, <5>5
        <4>2. CASE method = "snapshot"
          <5>1. g = e.data
            BY <2>3, <3>g, <4>2 DEF PayloadIsListed
          <5>2. phase = "pack"
            BY <1>1, <4>2 DEF Packing
          <5>3. Whole(e.data) \/ \E b \in DOMAIN e.data : b \in DOMAIN g => g[b] # e.data[b]
            BY <1>2, <1>e, <1>f, <3>g, <4>2, <5>2 DEF ReaderInv
          <5>. QED
            BY <5>1, <5>3
        <4>. QED
          BY <4>1, <4>2
      <3>3. g = ListedData(e)
        <4>1. CASE e.size = 0
          <5>1. Len(g) = 0
            BY <3>1, <4>1
          <5>2. g = <<>>
            BY <5>1
          <5>. QED
            BY <1>f, <4>1, <5>2 DEF ListedData
        <4>2. CASE e.size # 0
          BY <3>2, <4>2 DEF ListedData
        <4>. QED
          BY <4>1, <4>2
      <3>m. PICK m : m = MemberOf(e)
        OBVIOUS
      <3>4. m = Member(e.path, "file", e.time, reader.got)
        BY <1>f, <3>3, <3>g, <3>m DEF MemberOf
      <3>5. m.kind = "file" => Whole(m.data)
        <4>1. m.data = g
          BY <1>f, <3>3, <3>m, MembersAreTyped
        <4>. QED
          BY <3>2, <4>1
      <3>6. Pack(m)
        BY <2>3, <3>4
      <3>. QED
        BY <1>1, <1>e, <1>k, <3>5, <3>6, <3>m, PackKeepsInv
    <2>. QED
      BY <2>1, <2>2, <2>3
  <1>. QED
    BY <1>3, <1>4, <1>5, <1>e, <1>k DEF PackFile

LEMMA SealedIsSealed ==
    ASSUME NEW a, NEW f, NEW s \in Seq(StreamMembers),
           a = [format |-> f, count |-> 0, size |-> 0, sum |-> <<>>, stream |-> s, tag |-> <<>>],
           NEW withPassword \in BOOLEAN,
           NEW b, b = Sealed(a, Len(s), withPassword)
    PROVE  IsArchiveFile(b) /\ IsSealed(b) /\ b.stream = s /\ b.format = f
  <1>1. a = [format |-> f, count |-> 0, size |-> 0, sum |-> <<>>, stream |-> s, tag |-> <<>>]
    OBVIOUS
  <1>c. PICK c : c = [a EXCEPT !.count = Len(s), !.size = Len(a.stream), !.sum = a.stream]
    OBVIOUS
  <1>2. c = [format |-> f, count |-> Len(s), size |-> Len(s), sum |-> s, stream |-> s,
             tag |-> <<>>]
    <2>1. a.stream = s
      BY <1>1
    <2>2. c = [a EXCEPT !.count = Len(s), !.size = Len(s), !.sum = s]
      BY <1>c, <2>1
    <2>l. PICK l : l = Len(s)
      OBVIOUS
    <2>d. PICK d : d = [a EXCEPT !.count = l]
      OBVIOUS
    <2>3. d = [format |-> f, count |-> l, size |-> 0, sum |-> <<>>, stream |-> s, tag |-> <<>>]
      BY <1>1, <2>d
    <2>e. PICK e : e = [d EXCEPT !.size = l]
      OBVIOUS
    <2>4. e = [format |-> f, count |-> l, size |-> l, sum |-> <<>>, stream |-> s, tag |-> <<>>]
      BY <2>3, <2>e
    <2>5. [e EXCEPT !.sum = s] = [format |-> f, count |-> l, size |-> l, sum |-> s, stream |-> s,
                                  tag |-> <<>>]
      BY <2>4
    <2>6. c = [e EXCEPT !.sum = s]
      BY <2>2, <2>l, <2>d, <2>e
    <2>. QED
      BY <2>5, <2>6, <2>l
  <1>3. b = [c EXCEPT !.tag = IF withPassword THEN Seal(c) ELSE <<>>]
    BY <1>c DEF Sealed
  <1>t. PICK t : t = IF withPassword THEN Seal(c) ELSE <<>>
    OBVIOUS
  <1>4. b = [format |-> f, count |-> Len(s), size |-> Len(s), sum |-> s, stream |-> s, tag |-> t]
    BY <1>2, <1>3, <1>t
  <1>5. t = <<>> \/ t = <<Len(s), Len(s), s>>
    BY <1>2, <1>t DEF Seal
  <1>6. b.format = f /\ b.count = Len(s) /\ b.size = Len(s) /\ b.sum = s /\ b.stream = s
        /\ b.tag = t
    BY <1>4
  <1>7. IsArchiveFile(b)
    BY <1>4, <1>6, Zenon DEF IsArchiveFile
  <1>. QED
    BY <1>5, <1>6, <1>7 DEF IsSealed, Seal

LEMMA NoSource ==
    ASSUME ArchiveTypes, UNCHANGED <<walkVars, entries, hashed, restoreVars>>,
           ~Backing', phase' \in {"published", "failed"},
           names' = [p \in Paths |-> 0], nodes' = [i \in Nodes |-> Gone], edits' = 0,
           reader' \in [node : {0} \cup Nodes, got : Seq(Int)],
           archive'.stream \in Seq(StreamMembers),
           phase' # "failed" => archive'.format \in {"v01", "mypack", "ustar"}
    PROVE  ArchiveTypes'
  <1>1. UNCHANGED <<method, excluded, unread, toVisit, entries, hashed, target, disk, at, links,
                    directories>>
    BY DEF walkVars, restoreVars
  <1>2. Gone \in NodeRecords
    <2>1. <<>> \in Seq(Int) /\ 0 \in Nat
      OBVIOUS
    <2>. QED
      BY <2>1, NewNodeIsANode DEF Gone
  <1>3. names' \in [Paths -> {0} \cup Nodes] /\ nodes' \in [Nodes -> NodeRecords]
        /\ edits' \in 0..Edits
    BY <1>2, NodesAreNumbers
  <1>. QED
    BY <1>1, <1>3 DEF ArchiveTypes, Nodes, Paths

LEMMA PublishKeepsInv == ASSUME ArchiveInv, PublishArchive PROVE ArchiveInv'
  <1>1. /\ \/ AllListed /\ method = "v01"
           \/ phase = "pack" /\ NextToPack > Len(entries)
        /\ phase' = "published"
        /\ names' = [p \in Paths |-> 0] /\ nodes' = [i \in Nodes |-> Gone] /\ edits' = 0
        /\ UNCHANGED <<walkVars, entries, hashed, reader, damaged, restoreVars>>
    BY DEF PublishArchive
  <1>w. PICK w \in BOOLEAN : archive' = Sealed(archive, Len(entries), w)
    BY DEF PublishArchive
  <1>2. Backing /\ ~Backing'
    BY <1>1 DEF Backing, AllListed
  <1>3. PackInv /\ VisitInv /\ ListingInv /\ ArchiveTypes /\ TargetInv
    BY <1>2 DEF ArchiveInv, BackingInv
  <1>4. UNCHANGED <<method, entries, damaged, target>>
    BY <1>1 DEF walkVars, restoreVars
  <1>s. PICK s \in Seq(StreamMembers) : s = archive.stream
    BY <1>3 DEF ArchiveTypes
  <1>5. entries # <<>> /\ entries \in Seq(EntryRecords)
    BY <1>1, <1>3 DEF AllListed, VisitInv, ArchiveTypes
  <1>6. Len(s) = Len(entries)
    <2>1. Len(s) \in Nat /\ Len(entries) \in Nat
      BY <1>5
    <2>. QED
      BY <1>1, <1>3, <1>s, <2>1 DEF PackInv, PackedSoFar, AllListed, NothingHalfPacked, Done,
         NextToPack
  <1>7. s # <<>>
    <2>1. Len(entries) # 0
      BY <1>5
    <2>. QED
      BY <1>6, <2>1
  <1>8. IsArchiveFile(archive)' /\ IsSealed(archive') /\ archive'.stream = s
        /\ archive'.format = Format(method)
    <2>a. PICK a : a = archive
      OBVIOUS
    <2>b. PICK b : b = Sealed(a, Len(s), w)
      OBVIOUS
    <2>f. PICK f : f = Format(method)
      OBVIOUS
    <2>1. a = [NoFile EXCEPT !.format = f, !.stream = s]
      BY <1>3, <1>s, <2>a, <2>f DEF PackInv
    <2>5. a = [format |-> f, count |-> 0, size |-> 0, sum |-> <<>>, stream |-> s, tag |-> <<>>]
      BY <2>1, FileSoFar
    <2>4. IsArchiveFile(b) /\ IsSealed(b) /\ b.stream = s /\ b.format = f
      BY <2>5, <2>b, SealedIsSealed
    <2>2. IsArchiveFile(b) /\ IsSealed(b) /\ b.stream = s /\ b.format = Format(method)
      BY <2>4, <2>f
    <2>3. archive' = b
      BY <1>6, <1>w, <2>a, <2>b
    <2>. QED
      BY <2>2, <2>3
  <1>9. PublishedInv'
    <2>1. damaged' = "no"
      BY <1>3, <1>4 DEF PackInv
    <2>2. Hurt(archive)'
      BY <1>8, <2>1 DEF Hurt, IsSealed, Seal
    <2>3. PackedSoFar'
      BY <1>3, <1>4, <1>8, <1>s DEF PackInv, PackedSoFar, MemberOf, ListedData
    <2>. QED
      BY <1>4, <1>5, <1>6, <1>7, <1>8, <2>1, <2>2, <2>3 DEF PublishedInv, Written, Format
  <1>10. TargetInv'
    <2>1. target = "untouched"
      BY <1>2, <1>3 DEF TargetInv, Backing
    <2>. QED
      BY <1>1, <1>4, <2>1 DEF TargetInv, DestinationIsAllOrNothing
  <1>11. ArchiveTypes'
    <2>1. Format(method) \in {"v01", "mypack", "ustar"}
      BY <1>2, <1>3 DEF ArchiveTypes, Format, Methods
    <2>2. reader' \in [node : {0} \cup Nodes, got : Seq(Int)]
      BY <1>1, <1>3 DEF ArchiveTypes
    <2>. QED
      BY <1>1, <1>2, <1>3, <1>8, <2>1, <2>2, NoSource
  <1>12. ListingInv'
    BY <1>3, <1>4, ListingStays
  <1>13. BackingInv' /\ ReadingInv' /\ AcceptedMeansRestored'
    BY <1>1, <1>2 DEF BackingInv, ReadingInv, AcceptedMeansRestored
  <1>. QED
    BY <1>9, <1>10, <1>11, <1>12, <1>13 DEF ArchiveInv

LEMMA BackupDiesKeepsInv == ASSUME ArchiveInv, BackupDies PROVE ArchiveInv'
  <1>1. /\ Backing /\ reader' = Closed
        /\ names' = [p \in Paths |-> 0] /\ nodes' = [i \in Nodes |-> Gone] /\ edits' = 0
        /\ UNCHANGED <<walkVars, entries, hashed, restoreVars>>
    BY DEF BackupDies, Backing
  <1>2. PackInv /\ ListingInv /\ ArchiveTypes /\ TargetInv
    BY <1>1 DEF ArchiveInv, BackingInv
  <1>3. UNCHANGED <<method, entries, target>>
    BY <1>1 DEF walkVars, restoreVars
  <1>4. ListingInv'
    BY <1>2, <1>3, ListingStays
  <1>t. target = "untouched"
    BY <1>1, <1>2 DEF TargetInv, Backing
  <1>r. reader' \in [node : {0} \cup Nodes, got : Seq(Int)]
    BY <1>1 DEF Closed
  <1>5. CASE method = "v01"
    <2>1. /\ phase' = "published" /\ damaged' = "unfinished"
          /\ archive' = [archive EXCEPT !.size = Len(archive.stream)]
      BY <1>5 DEF BackupDies
    <2>s. PICK s \in Seq(StreamMembers) : s = archive.stream
      BY <1>2 DEF ArchiveTypes
    <2>2. archive = [format |-> "v01", count |-> 0, size |-> 0, sum |-> <<>>,
                     stream |-> s, tag |-> <<>>]
      <3>1. archive = [NoFile EXCEPT !.format = Format(method), !.stream = s]
        BY <1>2, <2>s DEF PackInv
      <3>2. Format(method) = "v01"
        BY <1>5 DEF Format
      <3>. QED
        BY <3>1, <3>2, FileSoFar
    <2>9. archive' = [format |-> "v01", count |-> 0, size |-> Len(s), sum |-> <<>>,
                      stream |-> s, tag |-> <<>>]
      BY <2>1, <2>2
    <2>3. archive'.count = 0 /\ archive'.stream = s /\ archive'.format = "v01"
          /\ IsArchiveFile(archive)'
      <3>1. /\ archive'.format = "v01" /\ archive'.count = 0 /\ archive'.size = Len(s)
            /\ archive'.sum = <<>> /\ archive'.stream = s /\ archive'.tag = <<>>
        BY <2>9
      <3>2. IsArchiveFile(archive)'
        BY <2>9, <3>1, Zenon DEF IsArchiveFile
      <3>. QED
        BY <3>1, <3>2
    <2>4. PublishedInv'
      BY <1>3, <1>5, <2>1, <2>3 DEF PublishedInv, Hurt, Written, Format
    <2>5. ArchiveTypes'
      <3>1. ~Backing'
        BY <2>1 DEF Backing
      <3>. QED
        BY <1>1, <1>2, <1>r, <2>1, <2>3, <3>1, NoSource
    <2>6. TargetInv'
      BY <1>3, <1>t, <2>1 DEF TargetInv, DestinationIsAllOrNothing
    <2>7. BackingInv' /\ ReadingInv' /\ AcceptedMeansRestored'
      BY <2>1 DEF BackingInv, Backing, ReadingInv, AcceptedMeansRestored
    <2>. QED
      BY <1>4, <2>4, <2>5, <2>6, <2>7 DEF ArchiveInv
  <1>6. CASE method # "v01"
    <2>1. phase' = "failed" /\ archive' = NoFile
      BY <1>6 DEF BackupDies
    <2>2. archive'.stream = <<>> /\ ~Backing'
      BY <2>1 DEF NoFile, Backing
    <2>3. ArchiveTypes'
      BY <1>1, <1>2, <1>r, <2>1, <2>2, NoSource
    <2>4. TargetInv'
      BY <1>3, <1>t, <2>1 DEF TargetInv, DestinationIsAllOrNothing
    <2>5. BackingInv' /\ PublishedInv' /\ ReadingInv' /\ AcceptedMeansRestored'
      BY <2>1, <2>2 DEF BackingInv, PublishedInv, ReadingInv, AcceptedMeansRestored
    <2>. QED
      BY <1>4, <2>3, <2>4, <2>5 DEF ArchiveInv
  <1>. QED
    BY <1>5, <1>6

LEMMA BackupKeepsInv == ASSUME ArchiveInv, BackupStep PROVE ArchiveInv'
  BY VisitKeepsInv, ReadNamesKeepsInv, EndWalkKeepsInv, HashFileKeepsInv, RecheckKeepsInv,
     PackHeaderKeepsInv, PackFileKeepsInv, PublishKeepsInv, BackupDiesKeepsInv DEF BackupStep

-----------------------------------------------------------------------------
(* Reading an archive back *)

LEMMA AlteredStreams ==
    ASSUME NEW s \in Seq(StreamMembers), s # <<>>
    PROVE  Altered(s) \in Seq(StreamMembers) /\ Altered(s) # s /\ Len(Altered(s)) = Len(s)
  <1>n. PICK n \in Nat : n = Len(s)
    OBVIOUS
  <1>1. n \in DOMAIN s /\ n \in 1..Len(s)
    BY <1>n
  <1>m. PICK m \in StreamMembers : m = s[n]
    BY <1>1
  <1>2. m.time + 1 \in Int /\ m.time + 1 # m.time
    BY DEF StreamMembers
  <1>c. PICK c : c = [m EXCEPT !.time = m.time + 1]
    OBVIOUS
  <1>3. c \in StreamMembers
    BY <1>2, <1>c DEF StreamMembers
  <1>4. c.time = m.time + 1
    BY <1>c DEF StreamMembers
  <1>5. Altered(s) = [s EXCEPT ![n] = c]
    BY <1>n, <1>m, <1>c DEF Altered
  <1>6. [s EXCEPT ![n] = c] \in Seq(StreamMembers) /\ Len([s EXCEPT ![n] = c]) = Len(s)
        /\ [s EXCEPT ![n] = c][n] = c
    BY <1>1, <1>3, ExceptSeq
  <1>. QED
    BY <1>2, <1>4, <1>5, <1>6, <1>m

LEMMA ReadingBackFrame ==
    ASSUME ArchiveInv, UNCHANGED <<sourceVars, walkVars, entries, hashed, reader>>,
           phase' \in {"published", "refused", "restore", "restored", "stuck", "died"},
           archive'.stream \in Seq(StreamMembers),
           archive'.format \in {"v01", "mypack", "ustar"},
           PublishedInv', TargetInv', ReadingInv', AcceptedMeansRestored'
    PROVE  ArchiveInv'
  <1>1. UNCHANGED <<names, nodes, edits, method, excluded, unread, toVisit, entries, hashed, reader>>
    BY DEF sourceVars, walkVars
  <1>2. ~Backing' /\ phase' # "failed"
    BY DEF Backing
  <1>3. ArchiveTypes'
    BY <1>1, <1>2 DEF ArchiveInv, ArchiveTypes
  <1>4. ListingInv'
    BY <1>1, ListingStays DEF ArchiveInv
  <1>5. BackingInv'
    BY <1>2 DEF BackingInv
  <1>. QED
    BY <1>3, <1>4, <1>5 DEF ArchiveInv

LEMMA DamageKeepsInv == ASSUME ArchiveInv, Damage PROVE ArchiveInv'
  <1>1. /\ phase = "published" /\ phase' = phase /\ damaged = "no"
        /\ UNCHANGED <<sourceVars, walkVars, entries, hashed, reader, target>>
    BY DEF Damage, backupVars, restoreVars
  <1>2. ArchiveTypes /\ PublishedInv /\ TargetInv
    BY DEF ArchiveInv
  <1>s. PICK s \in Seq(StreamMembers) : s = archive.stream
    BY <1>2 DEF ArchiveTypes
  <1>f. PICK f : f = archive.format
    OBVIOUS
  <1>n. PICK n \in Nat : n = Len(s)
    OBVIOUS
  <1>t. PICK t : t = archive.tag
    OBVIOUS
  <1>3. s # <<>> /\ n # 0
    BY <1>1, <1>2, <1>s, <1>n DEF PublishedInv
  <1>4. archive = [format |-> f, count |-> n, size |-> n, sum |-> s, stream |-> s, tag |-> t]
    <2>1. IsArchiveFile(archive) /\ IsSealed(archive)
      BY <1>1, <1>2 DEF PublishedInv, Hurt
    <2>2. /\ archive.count = n /\ archive.size = n /\ archive.sum = s
      BY <2>1, <1>s, <1>n DEF IsSealed
    <2>. QED
      BY <2>1, <2>2, <1>s, <1>f, <1>t DEF IsArchiveFile
  <1>5. s[1] \in StreamMembers /\ SubSeq(s, 1, n - 1) \in Seq(StreamMembers)
        /\ Len(SubSeq(s, 1, n - 1)) = n - 1 /\ Append(s, s[1]) \in Seq(StreamMembers)
        /\ Len(Append(s, s[1])) = n + 1
    BY <1>3, <1>n
  <1>. DEFINE Harms == {"altered", "cut", "longer", "header", "sum"}
              Harm(z, k, u, h) ==
          /\ archive' = [format |-> f, count |-> k, size |-> n, sum |-> u, stream |-> z, tag |-> t]
          /\ damaged' = h
          /\ h = "altered" => u # z
          /\ h \in {"cut", "longer", "header"} => k # Len(z)
          /\ h = "sum" => u = <<>>
  <1>6. \E z \in Seq(StreamMembers), k \in Nat, u \in Seq(StreamMembers), h \in Harms :
          Harm(z, k, u, h)
    <2>1. CASE damaged' = "altered" /\ archive' = [archive EXCEPT !.stream = Altered(s)]
      <3>z. PICK z \in Seq(StreamMembers) : z = Altered(s) /\ z # s
        BY <1>3, AlteredStreams
      <3>1. archive' = [format |-> f, count |-> n, size |-> n, sum |-> s, stream |-> z, tag |-> t]
        BY <1>4, <2>1, <3>z
      <3>. QED
        BY <3>1, <3>z, <2>1
    <2>2. CASE damaged' = "cut" /\ archive' = [archive EXCEPT !.stream = SubSeq(s, 1, Len(s) - 1)]
      <3>z. PICK z \in Seq(StreamMembers) : z = SubSeq(s, 1, n - 1) /\ Len(z) = n - 1
        BY <1>5
      <3>1. archive' = [format |-> f, count |-> n, size |-> n, sum |-> s, stream |-> z, tag |-> t]
        BY <1>4, <1>n, <2>2, <3>z
      <3>2. Harm(z, n, s, "cut")
        BY <3>1, <3>z, <2>2
      <3>. QED
        BY <3>2
    <2>3. CASE damaged' = "longer" /\ archive' = [archive EXCEPT !.stream = Append(s, s[1])]
      <3>z. PICK z \in Seq(StreamMembers) : z = Append(s, s[1]) /\ Len(z) = n + 1
        BY <1>5
      <3>1. archive' = [format |-> f, count |-> n, size |-> n, sum |-> s, stream |-> z, tag |-> t]
        BY <1>4, <2>3, <3>z
      <3>2. Harm(z, n, s, "longer")
        BY <3>1, <3>z, <2>3
      <3>. QED
        BY <3>2
    <2>4. CASE damaged' = "header" /\ archive' = [archive EXCEPT !.count = @ + 1]
      <3>1. archive' = [format |-> f, count |-> n + 1, size |-> n, sum |-> s, stream |-> s, tag |-> t]
        BY <1>4, <2>4
      <3>2. Harm(s, n + 1, s, "header") /\ n + 1 \in Nat
        BY <3>1, <1>n, <2>4
      <3>. QED
        BY <3>2
    <2>5. CASE damaged' = "sum" /\ archive' = [archive EXCEPT !.sum = <<>>]
      <3>1. archive' = [format |-> f, count |-> n, size |-> n, sum |-> <<>>, stream |-> s, tag |-> t]
        BY <1>4, <2>5
      <3>2. <<>> \in Seq(StreamMembers)
        OBVIOUS
      <3>. QED
        BY <3>1, <3>2, <2>5
    <2>. QED
      BY <1>s, <2>1, <2>2, <2>3, <2>4, <2>5 DEF Damage
  <1>z. PICK z \in Seq(StreamMembers), k \in Nat, u \in Seq(StreamMembers), h \in Harms :
          Harm(z, k, u, h)
    BY <1>6
  <1>7. /\ archive'.format = f /\ archive'.count = k /\ archive'.size = n /\ archive'.sum = u
        /\ archive'.stream = z /\ archive'.tag = t
    BY <1>z
  <1>8. IsArchiveFile(archive)'
    BY <1>z, <1>7, Zenon DEF IsArchiveFile
  <1>9. Hurt(archive)'
    BY <1>7, <1>z DEF Hurt
  <1>10. UNCHANGED method
    BY <1>1 DEF walkVars
  <1>11. PublishedInv'
    BY <1>1, <1>2, <1>7, <1>8, <1>9, <1>10, <1>f, <1>z DEF PublishedInv, Written, Format
  <1>12. TargetInv'
    BY <1>1, <1>2, <1>7, <1>f DEF TargetInv, DestinationIsAllOrNothing
  <1>13. ReadingInv' /\ AcceptedMeansRestored'
    BY <1>1 DEF ReadingInv, AcceptedMeansRestored
  <1>14. archive'.stream \in Seq(StreamMembers) /\ archive'.format \in {"v01", "mypack", "ustar"}
    BY <1>1, <1>2, <1>7, <1>f DEF ArchiveTypes
  <1>. QED
    BY <1>1, <1>11, <1>12, <1>13, <1>14, ReadingBackFrame

LEMMA AcceptedStreams ==
    ASSUME NEW f \in {"v01", "mypack", "ustar"}, NEW s \in Seq(StreamMembers), Accepts(f, s)
    PROVE  /\ s # <<>> /\ Apart(s)
           /\ f # "ustar" => ParentsFirst(s)
           /\ f = "v01" => \A i \in DOMAIN s : s[i].kind \in {"directory", "file"}
           /\ f # "v01" => \A i \in LinksOf(s) : KindAt(s, EndOfChain(s, s[i].path)) = "file"
                                                \/ (f = "mypack" /\ KindAt(s, s[i].link) = "file")
  <1>1. CASE f = "v01"
    BY <1>1, UniqueMeansApart DEF Accepts, AcceptsV01, ParentsFirst
  <1>2. CASE f = "mypack"
    BY <1>2, UniqueMeansApart DEF Accepts, AcceptsMyPack, ParentsFirst
  <1>3. CASE f = "ustar"
    BY <1>3, UniqueMeansApart DEF Accepts, AcceptsUstar, ParentsFirst
  <1>. QED
    BY <1>1, <1>2, <1>3

\* An archive that passes the checks is undamaged, but for what v0.1 cannot see.
LEMMA ReadableIsUndamaged ==
    ASSUME NEW f \in {"v01", "mypack", "ustar"}, f = archive.format, NEW w \in BOOLEAN,
           archive.stream \in Seq(StreamMembers), Hurt(archive), Readable(archive, w)
    PROVE  damaged = "no" \/ (f = "v01" /\ damaged \in {"altered", "sum"})
  <1>1. Accepts(f, archive.stream) /\ archive.count = Len(archive.stream)
        /\ (f # "v01" => archive.sum = archive.stream)
    BY DEF Readable
  <1>2. archive.stream # <<>> /\ Len(archive.stream) # 0
    <2>1. archive.stream # <<>>
      BY <1>1, AcceptedStreams
    <2>. QED
      BY <2>1
  <1>. QED
    BY <1>1, <1>2 DEF Hurt

LEMMA ParentsListed ==
    ASSUME NEW s \in Seq(StreamMembers), ParentsFirst(s)
    PROVE  \A i \in DOMAIN s : \A q \in Ancestors[s[i].path] :
             \E j \in DOMAIN s : j < i /\ s[j].path = q /\ s[j].kind = "directory"
  <1>. DEFINE Before(q, i) == \E j \in DOMAIN s : j < i /\ s[j].path = q /\ s[j].kind = "directory"
  <1>s. PICK S : S = {p \in Paths : \A i \in DOMAIN s : s[i].path = p =>
                       \A q \in Ancestors[p] : Before(q, i)}
    OBVIOUS
  <1>1. Root \in S
    BY <1>s, AncestorsUnfold, NodesAreNumbers
  <1>2. ASSUME NEW p \in 1..Last, Parent[p] \in S PROVE p \in S
    <2>1. p \in Paths /\ p # Root
      BY DEF Paths, Root
    <2>2. SUFFICES ASSUME NEW i \in DOMAIN s, s[i].path = p
                   PROVE  \A q \in Ancestors[p] : Before(q, i)
      BY <1>s, <2>1
    <2>4. i \in 2..Len(s)
      BY <2>1, <2>2 DEF ParentsFirst
    <2>5. PICK j \in 1..i - 1 : s[j].path = Parent[p] /\ s[j].kind = "directory"
      BY <2>2, <2>4 DEF ParentsFirst
    <2>6. j \in DOMAIN s /\ j < i
      BY <2>4, <2>5
    <2>7. Before(Parent[p], i)
      BY <2>5, <2>6
    <2>8. \A q \in Ancestors[Parent[p]] : Before(q, j)
      BY <1>2, <1>s, <2>5, <2>6
    <2>9. \A q \in Ancestors[Parent[p]] : Before(q, i)
      <3>1. ASSUME NEW q \in Ancestors[Parent[p]] PROVE Before(q, i)
        <4>1. PICK k \in DOMAIN s : k < j /\ s[k].path = q /\ s[k].kind = "directory"
          BY <2>8
        <4>2. k < i
          BY <4>1, <2>4
        <4>. QED
          BY <4>1, <4>2
      <3>. QED
        BY <3>1
    <2>10. Ancestors[p] = {Parent[p]} \cup Ancestors[Parent[p]]
      BY AncestorsUnfold
    <2>. QED
      BY <2>7, <2>9, <2>10
  <1>3. Paths \subseteq S
    BY <1>1, <1>2, TreeInduct
  <1>4. \A i \in DOMAIN s : s[i].path \in Paths
    <2>1. \A i \in DOMAIN s : s[i] \in StreamMembers
      OBVIOUS
    <2>. QED
      BY <2>1 DEF StreamMembers
  <1>. QED
    BY <1>s, <1>3, <1>4

LEMMA AboveAMember ==
    ASSUME NEW f \in {"v01", "mypack", "ustar"}, NEW s \in Seq(StreamMembers), Accepts(f, s)
    PROVE  \A p \in PathsOf(s) : \A q \in Ancestors[p] :
             /\ f # "ustar" => KindAt(s, q) = "directory"
             /\ q # Root => KindAt(s, q) = "none" \/ KindAt(s, q) = "directory"
  <1>1. SUFFICES ASSUME NEW p \in PathsOf(s), NEW q \in Ancestors[p]
                 PROVE  /\ f # "ustar" => KindAt(s, q) = "directory"
                        /\ q # Root => KindAt(s, q) = "none" \/ KindAt(s, q) = "directory"
    OBVIOUS
  <1>2. ASSUME f # "ustar" PROVE KindAt(s, q) = "directory"
    <2>1. ParentsFirst(s) /\ Apart(s)
      BY <1>2, AcceptedStreams
    <2>i. PICK i \in DOMAIN s : p = s[i].path
      BY Zenon DEF PathsOf
    <2>2. PICK j \in DOMAIN s : s[j].path = q /\ s[j].kind = "directory"
      BY <2>1, <2>i, ParentsListed
    <2>. QED
      BY <2>1, <2>2, MembersFound
  <1>3. ASSUME q # Root, f = "ustar" PROVE KindAt(s, q) \in {"none", "directory"}
    <2>1. AcceptsUstar(s)
      BY <1>3 DEF Accepts
    <2>. QED
      BY <1>3, <2>1, Zenon DEF AcceptsUstar
  <1>4. q # Root => KindAt(s, q) = "none" \/ KindAt(s, q) = "directory"
    BY <1>2, <1>3
  <1>. QED
    BY <1>2, <1>4, Zenon

LEMMA MembersAreSomewhere ==
    ASSUME NEW s \in Seq(StreamMembers), NEW p \in PathsOf(s)
    PROVE  p \in Paths
  <1>1. PICK i \in DOMAIN s : p = s[i].path
    BY Zenon DEF PathsOf
  <1>2. s[i] \in StreamMembers
    OBVIOUS
  <1>. QED
    BY <1>1, <1>2 DEF StreamMembers

\* A restore begins with the directories, or with the target alone.
LEMMA OpenedDisk ==
    ASSUME NEW s \in Seq(StreamMembers), NEW f \in {"v01", "mypack", "ustar"}, Accepts(f, s),
           archive'.format = f, at' = 0, links' = {}, directories' = DirectoriesOf(s),
           disk' = IF f = "v01" THEN [EmptyDisk EXCEPT ![Root] = ImpliedDirectory]
                   ELSE Skeleton(s)
    PROVE  DiskInv(s)' /\ ProgressInv(s)'
  <1>0. Apart(s) /\ Root \in Paths
    BY AcceptedStreams, NodesAreNumbers
  <1>a. \A i \in DOMAIN s : s[i].path \in PathsOf(s) /\ KindAt(s, s[i].path) = s[i].kind
    BY <1>0, MembersFound
  <1>b. \A p \in PathsOf(s) : p \in Paths
    BY MembersAreSomewhere
  <1>c. \A p \in Paths : p \notin PathsOf(s) => KindAt(s, p) = "none"
    BY DEF KindAt
  <1>d. \A p \in Implied(s) : p = Root \/ (\E r \in PathsOf(s) : p \in Ancestors[r])
    BY DEF Implied
  <1>e. Root \in Implied(s)
    BY DEF Implied
  <1>f. f = "v01" => \A p \in Implied(s) : p = Root \/ KindAt(s, p) = "directory"
    BY <1>d, AboveAMember
  <1>g. \A p \in Implied(s) : p = Root \/ KindAt(s, p) = "none" \/ KindAt(s, p) = "directory"
    BY <1>d, AboveAMember
  <1>h. disk' = [p \in Paths |-> disk'[p]]
    BY DEF EmptyDisk, Skeleton
  <1>i. \A p \in Paths : disk'[p] =
          IF f = "v01" THEN IF p = Root THEN ImpliedDirectory ELSE NoNode
          ELSE IF p \in Implied(s) \/ KindAt(s, p) = "directory" THEN ImpliedDirectory ELSE NoNode
    BY <1>0 DEF EmptyDisk, Skeleton
  <1>1. ASSUME NEW p \in Paths \ PathsOf(s)
        PROVE  disk'[p] = IF p \in Implied(s) THEN ImpliedDirectory ELSE NoNode
    <2>1. KindAt(s, p) = "none"
      BY <1>c
    <2>. QED
      BY <2>1, <1>i, <1>f, <1>e
  <1>2. ASSUME NEW i \in DOMAIN s PROVE disk'[s[i].path] = DiskOf(s, i)'
    <2>1. i \in directories' <=> s[i].kind = "directory"
      BY DEF DirectoriesOf
    <2>2. ~(i <= at') /\ i > at'
      OBVIOUS
    <2>3. s[i].path \in Paths /\ KindAt(s, s[i].path) = s[i].kind
      BY <1>a, <1>b
    <2>4. CASE s[i].kind = "directory"
      <3>1. DiskOf(s, i)' = IF f = "v01" /\ s[i].path # Root THEN NoNode ELSE ImpliedDirectory
        BY <2>1, <2>2, <2>4 DEF DiskOf
      <3>2. disk'[s[i].path] = IF f = "v01" /\ s[i].path # Root THEN NoNode ELSE ImpliedDirectory
        BY <2>3, <2>4, <1>i
      <3>. QED
        BY <3>1, <3>2
    <2>5. CASE s[i].kind # "directory"
      <3>1. DiskOf(s, i)' = IF s[i].path = Root THEN ImpliedDirectory ELSE NoNode
        BY <2>1, <2>2, <2>5 DEF DiskOf
      <3>2. s[i].kind # "none"
        <4>1. s[i] \in StreamMembers
          OBVIOUS
        <4>. QED
          BY <4>1 DEF StreamMembers
      <3>3. disk'[s[i].path] = IF s[i].path = Root THEN ImpliedDirectory ELSE NoNode
        BY <2>3, <2>5, <3>2, <1>i, <1>e, <1>g
      <3>. QED
        BY <3>1, <3>3
    <2>. QED
      BY <2>4, <2>5
  <1>3. DiskInv(s)'
    BY <1>1, <1>2, <1>h DEF DiskInv
  <1>4. ProgressInv(s)'
    <2>1. Len(s) \in Nat /\ \A i \in DOMAIN s : i \in Nat /\ i > 0
      OBVIOUS
    <2>2. at' \in 0..Len(s) /\ directories' \subseteq DirectoriesOf(s) /\ links' \subseteq LinksOf(s)
      BY <2>1
    <2>3. links' = {i \in LinksOf(s) : i <= at'}
      BY <2>1 DEF LinksOf
    <2>. QED
      BY <2>1, <2>2, <2>3 DEF ProgressInv
  <1>. QED
    BY <1>3, <1>4

LEMMA OpenArchiveKeepsInv == ASSUME ArchiveInv, Open PROVE ArchiveInv'
  <1>1. /\ phase = "published"
        /\ UNCHANGED <<sourceVars, walkVars, entries, hashed, reader, archive, damaged>>
        /\ at' = 0 /\ links' = {} /\ directories' = DirectoriesOf(archive.stream)
    BY DEF Open, DirectoriesOf
  <1>2. ArchiveTypes /\ PublishedInv /\ TargetInv
    BY DEF ArchiveInv
  <1>s. PICK s \in Seq(StreamMembers) : s = archive.stream
    BY <1>2 DEF ArchiveTypes
  <1>f. PICK f \in {"v01", "mypack", "ustar"} : f = archive.format
    BY <1>1, <1>2 DEF ArchiveTypes
  <1>3. archive'.stream = s /\ archive'.format = f
    BY <1>1, <1>s, <1>f
  <1>4. CASE phase' = "refused" /\ UNCHANGED <<disk, target>>
    <2>1. PublishedInv' /\ ReadingInv' /\ AcceptedMeansRestored'
      BY <1>4 DEF PublishedInv, ReadingInv, AcceptedMeansRestored
    <2>2. TargetInv'
      BY <1>1, <1>2, <1>4 DEF TargetInv, DestinationIsAllOrNothing
    <2>. QED
      BY <1>1, <1>3, <1>4, <2>1, <2>2, ReadingBackFrame
  <1>5. ASSUME NEW w \in BOOLEAN, Readable(archive, w), phase' = "restore",
               disk' = IF archive.format = "v01"
                       THEN [EmptyDisk EXCEPT ![Root] = ImpliedDirectory]
                       ELSE Skeleton(archive.stream),
               target' = IF archive.format = "v01" THEN "partial" ELSE target
        PROVE  ArchiveInv'
    <2>1. Accepts(f, s)
      BY <1>5, <1>s, <1>f DEF Readable
    <2>2. DiskInv(s)' /\ ProgressInv(s)'
      BY <1>1, <1>3, <1>5, <1>s, <1>f, <2>1, OpenedDisk
    <2>3. ReadingInv'
      BY <1>3, <2>1, <2>2 DEF ReadingInv
    <2>4. Hurt(archive)
      BY <1>1, <1>2 DEF PublishedInv
    <2>5. damaged = "no" \/ (f = "v01" /\ damaged \in {"altered", "sum"})
      BY <1>5, <1>s, <1>f, <2>4, ReadableIsUndamaged
    <2>6. target = "untouched"
      BY <1>1, <1>2 DEF TargetInv
    <2>7. TargetInv'
      BY <1>1, <1>3, <1>5, <1>f, <2>5, <2>6 DEF TargetInv, DestinationIsAllOrNothing
    <2>8. PublishedInv' /\ AcceptedMeansRestored'
      BY <1>5 DEF PublishedInv, AcceptedMeansRestored
    <2>. QED
      BY <1>1, <1>3, <1>5, <2>3, <2>7, <2>8, ReadingBackFrame
  <1>. QED
    BY <1>4, <1>5 DEF Open

LEMMA RestoreIsQuiet ==
    ASSUME ArchiveInv, phase = "restore", UNCHANGED <<sourceVars, walkVars, archive, damaged>>,
           UNCHANGED <<entries, hashed, reader>>,
           phase' = "restore", target' = target, DiskInv(archive.stream)',
           ProgressInv(archive.stream)'
    PROVE  ArchiveInv'
  <1>1. ArchiveTypes /\ TargetInv /\ ReadingInv
    BY DEF ArchiveInv
  <1>2. ReadingInv'
    BY <1>1 DEF ReadingInv
  <1>3. TargetInv'
    BY <1>1 DEF TargetInv, DestinationIsAllOrNothing
  <1>4. PublishedInv' /\ AcceptedMeansRestored'
    BY DEF PublishedInv, AcceptedMeansRestored
  <1>. QED
    BY <1>1, <1>2, <1>3, <1>4, ReadingBackFrame DEF ArchiveTypes

LEMMA RestoreFailsKeepsInv ==
    ASSUME ArchiveInv, phase = "restore", NEW CONSTANT why \in {"stuck", "died"},
           RestoreFails(why),
           why = "stuck" => /\ archive.format = "ustar"
                            /\ KindAt(archive.stream, Root) \notin {"none", "directory"}
    PROVE  ArchiveInv'
  <1>1. /\ phase' = why
        /\ UNCHANGED <<sourceVars, walkVars, entries, hashed, reader, archive, damaged, target>>
    BY DEF RestoreFails, restoreVars
  <1>2. ArchiveTypes /\ TargetInv
    BY DEF ArchiveInv
  <1>3. TargetInv'
    BY <1>1, <1>2 DEF TargetInv, DestinationIsAllOrNothing
  <1>4. AcceptedMeansRestored' /\ PublishedInv' /\ ReadingInv'
    BY <1>1 DEF PublishedInv, AcceptedMeansRestored, ReadingInv
  <1>. QED
    BY <1>1, <1>2, <1>3, <1>4, ReadingBackFrame DEF ArchiveTypes

\* While no directory has its metadata, what leads to a member is as it was made.
LEMMA WayToAMember ==
    ASSUME NEW s \in Seq(StreamMembers), NEW f \in {"v01", "mypack", "ustar"}, Accepts(f, s),
           f = archive.format, DiskInv(s), at \in 0..Len(s), NEW i \in DOMAIN s,
           f = "v01" => i <= at + 1,
           \A j \in DirectoriesOf(s) : s[j].path \in Ancestors[s[i].path] => j \in directories
    PROVE  \A q \in Ancestors[s[i].path] : disk[q] = ImpliedDirectory
  <1>1. SUFFICES ASSUME NEW q \in Ancestors[s[i].path] PROVE disk[q] = ImpliedDirectory
    OBVIOUS
  <1>2. Apart(s) /\ s[i].path \in PathsOf(s) /\ s[i].path \in Paths
    <2>1. Apart(s)
      BY AcceptedStreams
    <2>2. s[i].path \in PathsOf(s)
      BY <2>1, MembersFound
    <2>. QED
      BY <2>1, <2>2, MembersAreSomewhere
  <1>3. q \in Paths
    BY <1>2, AncestorsAreBefore
  <1>4. CASE q \notin PathsOf(s)
    <2>1. q \in Implied(s)
      BY <1>2 DEF Implied
    <2>. QED
      BY <1>3, <1>4, <2>1 DEF DiskInv
  <1>5. CASE q \in PathsOf(s)
    <2>j. PICK j \in DOMAIN s : s[j].path = q
      BY <1>5, Zenon DEF PathsOf
    <2>1. disk[q] = DiskOf(s, j)
      BY <2>j DEF DiskInv
    <2>2. KindAt(s, q) = s[j].kind
      BY <1>2, <2>j, MembersFound
    <2>3. CASE s[j].kind = "directory"
      <3>1. j \in directories
        BY <2>3, <2>j DEF DirectoriesOf
      <3>2. f = "v01" => j <= at
        <4>1. SUFFICES ASSUME f = "v01" PROVE j <= at
          OBVIOUS
        <4>2. ParentsFirst(s)
          BY <4>1, AcceptedStreams
        <4>3. PICK k \in DOMAIN s : k < i /\ s[k].path = q
          BY <4>2, ParentsListed
        <4>4. k = j
          BY <1>2, <2>j, <4>3 DEF Apart
        <4>. QED
          BY <4>1, <4>3, <4>4
      <3>3. ~(f = "v01" /\ j > at)
        BY <3>2
      <3>. QED
        BY <2>1, <2>3, <3>1, <3>3 DEF DiskOf
    <2>4. CASE s[j].kind # "directory"
      <3>1. q = Root
        <4>1. s[j] \in StreamMembers
          OBVIOUS
        <4>2. s[j].kind # "none"
          BY <4>1 DEF StreamMembers
        <4>. QED
          BY <1>2, <2>2, <2>4, <4>2, AboveAMember
      <3>. QED
        BY <2>1, <2>4, <2>j, <3>1 DEF DiskOf
    <2>. QED
      BY <2>3, <2>4
  <1>. QED
    BY <1>4, <1>5

LEMMA ImpliedIsReachable ==
    ASSUME NEW p, \A q \in Ancestors[p] : disk[q] = ImpliedDirectory
    PROVE  Reachable(disk, p)
  <1>1. ImpliedDirectory.kind = "directory" /\ ImpliedDirectory.data = <<>>
    BY DEF ImpliedDirectory, NoNode
  <1>2. <<>> # Shut
    <2>1. Len(Shut) = 1 /\ Len(<<>>) = 0
      BY DEF Shut
    <2>. QED
      BY <2>1
  <1>. QED
    BY <1>1, <1>2 DEF Reachable

\* What is created changes the disk at its path alone.
LEMMA CreatedThere ==
    ASSUME disk = [q \in Paths |-> disk[q]], NEW p \in 1..Last, NEW CONSTANT node,
           disk[Parent[p]] = ImpliedDirectory, Created(p, node)
    PROVE  disk' = [q \in Paths |-> IF q = p THEN node ELSE disk[q]]
  <1>1. p # Root /\ p \in Paths /\ Parent[p] \in Paths /\ Parent[p] # p
    BY DEF Root, Paths
  <1>d. PICK d : d = [q \in Paths |-> IF q = p THEN node ELSE disk[q]]
    OBVIOUS
  <1>2. d = [disk EXCEPT ![p] = node]
    BY <1>1, <1>d
  <1>3. disk' = [d EXCEPT ![Parent[p]].time = Untold]
    BY <1>1, <1>2 DEF Created
  <1>4. d[Parent[p]] = ImpliedDirectory
    BY <1>1, <1>d
  <1>5. [ImpliedDirectory EXCEPT !.time = Untold] = ImpliedDirectory
    BY DEF ImpliedDirectory, NoNode
  <1>6. disk' = [d EXCEPT ![Parent[p]] = ImpliedDirectory]
    BY <1>3, <1>4, <1>5
  <1>7. [d EXCEPT ![Parent[p]] = ImpliedDirectory] = d
    BY <1>1, <1>4, <1>d
  <1>. QED
    BY <1>6, <1>7, <1>d

LEMMA DiskChanges ==
    ASSUME NEW CONSTANT s \in Seq(StreamMembers), Apart(s), DiskInv(s),
           NEW CONSTANT i \in DOMAIN s, NEW CONSTANT node,
           disk' = [q \in Paths |-> IF q = s[i].path THEN node ELSE disk[q]],
           node = DiskOf(s, i)',
           \A j \in DOMAIN s : j # i => DiskOf(s, j)' = DiskOf(s, j)
    PROVE  DiskInv(s)'
  <1>1. disk' = [p \in Paths |-> disk'[p]]
    OBVIOUS
  <1>2. s[i].path \in PathsOf(s) /\ \A j \in DOMAIN s : s[j].path \in Paths
    <2>1. \A j \in DOMAIN s : s[j] \in StreamMembers
      OBVIOUS
    <2>. QED
      BY <2>1, MembersFound DEF StreamMembers
  <1>3. ASSUME NEW p \in Paths \ PathsOf(s)
        PROVE  disk'[p] = IF p \in Implied(s) THEN ImpliedDirectory ELSE NoNode
    <2>1. disk'[p] = disk[p]
      BY <1>2
    <2>. QED
      BY <2>1 DEF DiskInv
  <1>4. ASSUME NEW j \in DOMAIN s PROVE disk'[s[j].path] = DiskOf(s, j)'
    <2>1. CASE j = i
      BY <2>1, <1>2
    <2>2. CASE j # i
      <3>1. s[j].path # s[i].path
        BY <2>2 DEF Apart
      <3>2. disk'[s[j].path] = disk[s[j].path]
        BY <1>2, <3>1
      <3>. QED
        BY <2>2, <3>2 DEF DiskInv
    <2>. QED
      BY <2>1, <2>2
  <1>. QED
    BY <1>1, <1>3, <1>4 DEF DiskInv

\* What a restore passes over: hard links, and directories that are there already.
LEMMA PassOverKeepsInv ==
    ASSUME ArchiveInv, NEW CONSTANT s \in Seq(StreamMembers), s = archive.stream,
           NEW CONSTANT f \in {"v01", "mypack", "ustar"}, f = archive.format,
           phase = "restore", at < Len(s), NEW CONSTANT m, m = s[at + 1],
           m.kind = "hardlink" \/ ~(m.kind # "directory" \/ (f = "v01" /\ m.path # Root)),
           links' = IF m.kind = "hardlink" THEN links \cup {at + 1} ELSE links,
           at' = at + 1,
           UNCHANGED <<sourceVars, walkVars, backupVars, archive, damaged, disk, directories,
                       target>>
    PROVE  ArchiveInv'
  <1>1. DiskInv(s) /\ ProgressInv(s)
    BY DEF ArchiveInv, ReadingInv
  <1>2. at \in Nat /\ at + 1 \in DOMAIN s /\ at + 1 \in 0..Len(s) /\ Len(s) \in Nat
    BY <1>1 DEF ProgressInv
  <1>3. links = {i \in LinksOf(s) : i <= at} /\ directories = DirectoriesOf(s)
    BY <1>1 DEF ProgressInv
  <1>4. \A i \in DOMAIN s : i \in Nat /\ (i <= at + 1 <=> i <= at \/ i = at + 1)
    BY <1>2
  <1>5. links' = {i \in LinksOf(s) : i <= at + 1}
    <2>1. at + 1 \in LinksOf(s) <=> m.kind = "hardlink"
      BY <1>2 DEF LinksOf
    <2>2. ASSUME NEW i PROVE i \in links' <=> i \in {j \in LinksOf(s) : j <= at + 1}
      <3>1. CASE i \in DOMAIN s
        BY <1>3, <1>4, <2>1, <3>1
      <3>2. CASE i \notin DOMAIN s
        BY <1>2, <1>3, <3>2 DEF LinksOf
      <3>. QED
        BY <3>1, <3>2
    <2>. QED
      BY <2>2
  <1>6. UNCHANGED <<archive, disk, directories>>
    OBVIOUS
  <1>7. ASSUME NEW CONSTANT i \in DOMAIN s PROVE DiskOf(s, i)' = DiskOf(s, i)
    <2>1. CASE i # at + 1
      <3>1. (i <= at' <=> i <= at) /\ (i > at' <=> i > at)
        BY <1>2, <1>4, <2>1
      <3>2. i \in links' <=> i \in links
        BY <2>1
      <3>. QED
        BY <1>6, <3>1, <3>2 DEF DiskOf
    <2>2. CASE i = at + 1
      <3>1. s[i] = m /\ ~(i <= at) /\ i <= at' /\ i > at /\ ~(i > at')
        BY <1>2, <2>2
      <3>2. CASE m.kind = "hardlink"
        <4>1. i \in links'
          BY <2>2, <3>2
        <4>. QED
          BY <1>6, <3>1, <3>2, <4>1 DEF DiskOf
      <3>3. CASE m.kind = "directory" /\ ~(f = "v01" /\ m.path # Root)
        <4>1. i \in directories
          BY <1>3, <3>1, <3>3 DEF DirectoriesOf
        <4>2. ~(archive.format = "v01" /\ s[i].path # Root /\ i > at)
          BY <3>1, <3>3
        <4>3. ~(archive'.format = "v01" /\ s[i].path # Root /\ i > at')
          BY <3>1
        <4>4. DiskOf(s, i) = ImpliedDirectory
          BY <3>1, <3>3, <4>1, <4>2 DEF DiskOf
        <4>5. DiskOf(s, i)' = ImpliedDirectory
          BY <1>6, <3>1, <3>3, <4>1, <4>3 DEF DiskOf
        <4>. QED
          BY <4>4, <4>5
      <3>. QED
        BY <3>2, <3>3
    <2>. QED
      BY <2>1, <2>2
  <1>8. DiskInv(s)'
    <2>1. disk' = [p \in Paths |-> disk'[p]]
      BY <1>1, <1>6 DEF DiskInv
    <2>2. \A p \in Paths \ PathsOf(s) :
            disk'[p] = IF p \in Implied(s) THEN ImpliedDirectory ELSE NoNode
      BY <1>1, <1>6 DEF DiskInv
    <2>3. \A i \in DOMAIN s : disk'[s[i].path] = DiskOf(s, i)'
      BY <1>1, <1>6, <1>7 DEF DiskInv
    <2>. QED
      BY <2>1, <2>2, <2>3 DEF DiskInv
  <1>9. ProgressInv(s)'
    <2>1. at' \in 0..Len(s) /\ directories' \subseteq DirectoriesOf(s) /\ links' \subseteq LinksOf(s)
          /\ \A i \in links' : i <= at'
      BY <1>2, <1>3, <1>5, <1>6
    <2>2. \A i \in directories', j \in DirectoriesOf(s) :
            s[j].path \in Ancestors[s[i].path] => j \in directories'
      BY <1>3, <1>6
    <2>3. \A r \in DOMAIN s : s[r].path = Root /\ s[r].kind # "directory" => r > at' \/ r \in links'
      <3>1. SUFFICES ASSUME NEW r \in DOMAIN s, s[r].path = Root, s[r].kind # "directory"
                     PROVE  r > at' \/ r \in links'
        OBVIOUS
      <3>2. r > at \/ r \in links
        BY <1>1, <3>1 DEF ProgressInv
      <3>3. r > at => r > at + 1 \/ r = at + 1
        BY <1>2, <1>4
      <3>. QED
        BY <3>1, <3>2, <3>3
    <2>. QED
      BY <1>3, <1>5, <1>6, <2>1, <2>2, <2>3 DEF ProgressInv
  <1>. QED
    BY <1>8, <1>9, RestoreIsQuiet DEF backupVars

LEMMA CreateKeepsInv ==
    ASSUME ArchiveInv, NEW CONSTANT s \in Seq(StreamMembers), s = archive.stream,
           NEW CONSTANT f \in {"v01", "mypack", "ustar"}, f = archive.format, Accepts(f, s),
           phase = "restore", at < Len(s), NEW CONSTANT m, m = s[at + 1], m.kind # "hardlink",
           m.kind # "directory" \/ (f = "v01" /\ m.path # Root), m.path # Root,
           \A q \in Ancestors[m.path] : disk[q] = ImpliedDirectory,
           Created(m.path, IF m.kind = "directory" THEN ImpliedDirectory ELSE NodeOf(m)),
           at' = at + 1,
           UNCHANGED <<sourceVars, walkVars, backupVars, archive, damaged, links, directories,
                       target>>
    PROVE  ArchiveInv'
  <1>1. DiskInv(s) /\ ProgressInv(s)
    BY DEF ArchiveInv, ReadingInv
  <1>2. at \in Nat /\ at + 1 \in DOMAIN s /\ at + 1 \in 0..Len(s) /\ Len(s) \in Nat
    BY <1>1 DEF ProgressInv
  <1>3. links = {i \in LinksOf(s) : i <= at} /\ directories = DirectoriesOf(s)
    BY <1>1 DEF ProgressInv
  <1>4. \A i \in DOMAIN s : i \in Nat /\ (i <= at + 1 <=> i <= at \/ i = at + 1)
    BY <1>2
  <1>i. PICK i \in DOMAIN s : i = at + 1
    BY <1>2
  <1>5. i \notin links /\ s[i] = m /\ at' = i /\ ~(i > at') /\ i <= at'
    BY <1>2, <1>3, <1>i DEF LinksOf
  <1>n. PICK node : node = IF m.kind = "directory" THEN ImpliedDirectory ELSE NodeOf(m)
    OBVIOUS
  <1>6. m.path \in 1..Last
    <2>1. s[i] \in StreamMembers
      OBVIOUS
    <2>2. m.path \in Paths
      BY <1>5, <2>1 DEF StreamMembers
    <2>. QED
      BY <2>2 DEF Paths, Root
  <1>7. disk[Parent[m.path]] = ImpliedDirectory
    <2>1. Parent[m.path] \in Ancestors[m.path]
      BY <1>6, AncestorsUnfold
    <2>. QED
      BY <2>1
  <1>8. disk' = [q \in Paths |-> IF q = m.path THEN node ELSE disk[q]]
    <2>1. disk = [q \in Paths |-> disk[q]]
      BY <1>1 DEF DiskInv
    <2>2. Created(m.path, node)
      BY <1>n
    <2>p. PICK p \in 1..Last : p = m.path
      BY <1>6
    <2>3. disk' = [q \in Paths |-> IF q = p THEN node ELSE disk[q]]
      BY <1>7, <2>1, <2>2, <2>p, CreatedThere
    <2>. QED
      BY <2>3, <2>p
  <1>9. node = DiskOf(s, i)'
    <2>1. CASE m.kind = "directory"
      <3>1. i \in directories'
        BY <1>3, <1>5, <2>1 DEF DirectoriesOf
      <3>. QED
        BY <1>5, <1>n, <2>1, <3>1 DEF DiskOf
    <2>2. CASE m.kind # "directory"
      BY <1>5, <1>n, <2>2 DEF DiskOf
    <2>. QED
      BY <2>1, <2>2
  <1>10. ASSUME NEW CONSTANT j \in DOMAIN s, j # i PROVE DiskOf(s, j)' = DiskOf(s, j)
    <2>1. (j <= at' <=> j <= at) /\ (j > at' <=> j > at)
      BY <1>2, <1>4, <1>10, <1>i
    <2>. QED
      BY <2>1 DEF DiskOf
  <1>11. DiskInv(s)'
    <2>1. Apart(s)
      BY AcceptedStreams
    <2>2. disk' = [q \in Paths |-> IF q = s[i].path THEN node ELSE disk[q]]
      BY <1>5, <1>8
    <2>3. \A j \in DOMAIN s : j # i => DiskOf(s, j)' = DiskOf(s, j)
      BY <1>10
    <2>. QED
      BY <1>1, <1>9, <2>1, <2>2, <2>3, DiskChanges
  <1>12. ProgressInv(s)'
    <2>1. at' \in 0..Len(s) /\ directories' \subseteq DirectoriesOf(s) /\ links' \subseteq LinksOf(s)
          /\ \A k \in links' : k <= at'
      BY <1>2, <1>3, <1>4 DEF LinksOf
    <2>2. \A k \in directories', j \in DirectoriesOf(s) :
            s[j].path \in Ancestors[s[k].path] => j \in directories'
      BY <1>3
    <2>3. \A r \in DOMAIN s : s[r].path = Root /\ s[r].kind # "directory" => r > at' \/ r \in links'
      <3>1. SUFFICES ASSUME NEW r \in DOMAIN s, s[r].path = Root, s[r].kind # "directory"
                     PROVE  r > at' \/ r \in links'
        OBVIOUS
      <3>2. r > at \/ r \in links
        BY <1>1, <3>1 DEF ProgressInv
      <3>3. r > at => r > at + 1 \/ r = at + 1
        BY <1>2, <1>4
      <3>4. r # at + 1
        BY <3>1
      <3>. QED
        BY <3>1, <3>2, <3>3, <3>4
    <2>4. links' = {k \in LinksOf(s) : k <= at'}
      <3>1. \A k \in LinksOf(s) : k \in DOMAIN s /\ k # at + 1
        BY DEF LinksOf
      <3>. QED
        BY <1>3, <1>4, <3>1
    <2>. QED
      BY <1>3, <2>1, <2>2, <2>3, <2>4 DEF ProgressInv
  <1>. QED
    BY <1>11, <1>12, RestoreIsQuiet DEF backupVars

LEMMA RootOfAContainer ==
    ASSUME NEW s \in Seq(StreamMembers), NEW f \in {"v01", "mypack", "ustar"}, Accepts(f, s),
           NEW i \in DOMAIN s, s[i].path = Root, s[i].kind # "directory"
    PROVE  f = "ustar" /\ KindAt(s, Root) \notin {"none", "directory"}
  <1>1. Apart(s)
    BY AcceptedStreams
  <1>2. KindAt(s, Root) = s[i].kind
    BY <1>1, MembersFound
  <1>3. s[i].kind # "none"
    <2>1. s[i] \in StreamMembers
      OBVIOUS
    <2>. QED
      BY <2>1 DEF StreamMembers
  <1>4. f # "ustar" => FALSE
    <2>1. SUFFICES ASSUME f # "ustar" PROVE FALSE
      OBVIOUS
    <2>2. ParentsFirst(s)
      BY <2>1, AcceptedStreams
    <2>3. 1 \in DOMAIN s /\ s[1].path = Root /\ s[1].kind = "directory"
      BY <2>2 DEF ParentsFirst
    <2>4. i = 1
      BY <1>1, <2>3 DEF Apart
    <2>. QED
      BY <2>3, <2>4
  <1>. QED
    BY <1>2, <1>3, <1>4

LEMMA RestoreMemberKeepsInv == ASSUME ArchiveInv, RestoreMember PROVE ArchiveInv'
  <1>1. phase = "restore" /\ at < Len(archive.stream)
    BY DEF RestoreMember
  <1>s. PICK s \in Seq(StreamMembers) : s = archive.stream
    BY DEF ArchiveInv, ArchiveTypes
  <1>f. PICK f \in {"v01", "mypack", "ustar"} : f = archive.format
    BY <1>1 DEF ArchiveInv, ArchiveTypes
  <1>2. Accepts(f, s) /\ DiskInv(s) /\ ProgressInv(s)
    BY <1>1, <1>s, <1>f DEF ArchiveInv, ReadingInv
  <1>m. PICK m : m = s[at + 1]
    OBVIOUS
  <1>i. PICK i \in DOMAIN s : i = at + 1
    <2>1. at \in Nat /\ Len(s) \in Nat
      BY <1>2 DEF ProgressInv
    <2>. QED
      BY <1>1, <1>s, <2>1
  <1>3. at < Len(s) /\ s[i] = m
    BY <1>1, <1>s, <1>m, <1>i
  <1>4. CASE m.kind = "hardlink" \/ ~(m.kind # "directory" \/ (f = "v01" /\ m.path # Root))
    <2>1. /\ links' = IF m.kind = "hardlink" THEN links \cup {at + 1} ELSE links
          /\ at' = at + 1
          /\ UNCHANGED <<sourceVars, walkVars, backupVars, archive, damaged, disk,
                         directories, target>>
      BY <1>4, <1>s, <1>f, <1>m DEF RestoreMember
    <2>. QED
      BY <1>1, <1>3, <1>4, <1>s, <1>f, <1>m, <2>1, PassOverKeepsInv
  <1>5. CASE m.kind # "hardlink" /\ (m.kind # "directory" \/ (f = "v01" /\ m.path # Root))
    <2>1. m.path \in Paths
      <3>1. s[i] \in StreamMembers
        OBVIOUS
      <3>. QED
        BY <1>3, <3>1 DEF StreamMembers
    <2>2. IF disk[m.path].kind # "none" \/ ~Reachable(disk, m.path)
          THEN RestoreFails("stuck")
          ELSE /\ Created(m.path, IF m.kind = "directory" THEN ImpliedDirectory ELSE NodeOf(m))
               /\ at' = at + 1
               /\ UNCHANGED <<sourceVars, walkVars, backupVars, archive, damaged, links,
                              directories, target>>
      BY <1>5, <1>s, <1>f, <1>m DEF RestoreMember
    <2>3. directories = DirectoriesOf(s)
      BY <1>2, <1>3 DEF ProgressInv
    <2>4. CASE m.path = Root
      <3>1. m.kind # "directory"
        BY <1>5, <2>4
      <3>2. archive.format = "ustar" /\ KindAt(archive.stream, Root) \notin {"none", "directory"}
        BY <1>2, <1>3, <1>s, <1>f, <2>4, <3>1, RootOfAContainer
      <3>3. disk[m.path] = ImpliedDirectory
        <4>1. disk[m.path] = DiskOf(s, i)
          BY <1>2, <1>3 DEF DiskInv
        <4>. QED
          BY <1>3, <2>4, <3>1, <4>1 DEF DiskOf
      <3>4. disk[m.path].kind # "none"
        BY <3>3 DEF ImpliedDirectory, NoNode
      <3>5. RestoreFails("stuck")
        BY <2>2, <3>4
      <3>. QED
        BY <1>1, <3>2, <3>5, RestoreFailsKeepsInv
    <2>5. CASE m.path # Root
      <3>1. \A q \in Ancestors[s[i].path] : disk[q] = ImpliedDirectory
        <4>1. at \in 0..Len(s)
          BY <1>2 DEF ProgressInv
        <4>2. i <= at + 1
          BY <1>i, <4>1
        <4>. QED
          BY <1>2, <1>f, <2>3, <4>1, <4>2, WayToAMember
      <3>2. \A q \in Ancestors[m.path] : disk[q] = ImpliedDirectory
        BY <1>3, <3>1
      <3>3. Reachable(disk, m.path)
        BY <3>2, ImpliedIsReachable
      <3>4. disk[m.path] = NoNode
        <4>1. disk[m.path] = DiskOf(s, i)
          BY <1>2, <1>3 DEF DiskInv
        <4>2. at \in Nat /\ i > at /\ ~(i <= at)
          BY <1>2, <1>i DEF ProgressInv
        <4>3. CASE m.kind = "directory"
          <5>1. i \in directories /\ f = "v01"
            BY <1>3, <1>5, <2>3, <4>3 DEF DirectoriesOf
          <5>. QED
            BY <1>3, <1>f, <2>5, <4>1, <4>2, <4>3, <5>1 DEF DiskOf
        <4>4. CASE m.kind # "directory"
          BY <1>3, <2>5, <4>1, <4>2, <4>4 DEF DiskOf
        <4>. QED
          BY <4>3, <4>4
      <3>5. disk[m.path].kind = "none"
        BY <3>4 DEF NoNode
      <3>6. /\ Created(m.path, IF m.kind = "directory" THEN ImpliedDirectory ELSE NodeOf(m))
            /\ at' = at + 1
            /\ UNCHANGED <<sourceVars, walkVars, backupVars, archive, damaged, links,
                           directories, target>>
        BY <2>2, <3>3, <3>5
      <3>. QED
        BY <1>1, <1>2, <1>3, <1>5, <1>s, <1>f, <1>m, <2>5, <3>2, <3>6, CreateKeepsInv
    <2>. QED
      BY <2>4, <2>5
  <1>. QED
    BY <1>4, <1>5

LEMMA EndOfOneLink ==
    ASSUME NEW s, NEW p, KindAt(s, p) = "hardlink", NEW l, l = MemberAt(s, p).link,
           KindAt(s, l) # "hardlink"
    PROVE  EndOfChain(s, p) = l
  <1>f. PICK f : HopsAre(f, s, p, Last + 1) /\ EndOfChain(s, p) = f[Last + 1]
    BY EndIsTheLastHop
  <1>1. 0 \in 0..Last + 1 /\ 1 \in 0..Last + 1 /\ 1 - 1 = 0 /\ 1 # 0
    OBVIOUS
  <1>2. f[0] = p /\ f[1] = Hop(s, f[0])
    BY <1>f, <1>1 DEF HopsAre
  <1>3. f[1] = l
    BY <1>2 DEF Hop
  <1>4. f[Last + 1] = f[1]
    <2>1. Last + 1 \in 1..Last + 1
      OBVIOUS
    <2>. QED
      BY <1>f, <1>1, <1>3, <2>1, EndsStay
  <1>. QED
    BY <1>f, <1>3, <1>4

LEMMA LinksEndInFiles ==
    ASSUME NEW s \in Seq(StreamMembers), NEW f \in {"v01", "mypack", "ustar"}, Accepts(f, s),
           NEW i \in LinksOf(s)
    PROVE  /\ f # "v01"
           /\ KindAt(s, EndOfChain(s, s[i].path)) = "file"
           /\ EndOfChain(s, s[i].path) = EndOfChain(s, s[i].link)
  <1>0. Apart(s) /\ i \in DOMAIN s /\ s[i].kind = "hardlink"
    BY AcceptedStreams DEF LinksOf
  <1>1. f # "v01"
    BY <1>0, AcceptedStreams
  <1>2. KindAt(s, s[i].path) = "hardlink" /\ MemberAt(s, s[i].path) = s[i]
    BY <1>0, MembersFound
  <1>3. CASE KindAt(s, EndOfChain(s, s[i].path)) = "file"
    <2>1. EndOfChain(s, s[i].path) = EndOfChain(s, s[i].link)
      BY <1>2, <1>3, EndOfLink
    <2>. QED
      BY <1>1, <1>3, <2>1
  <1>4. CASE KindAt(s, s[i].link) = "file"
    <2>1. EndOfChain(s, s[i].path) = s[i].link
      BY <1>2, <1>4, EndOfOneLink
    <2>2. EndOfChain(s, s[i].link) = s[i].link
      BY <1>4, EndOfNoLink
    <2>. QED
      BY <1>1, <1>4, <2>1, <2>2
  <1>. QED
    BY <1>1, <1>3, <1>4, AcceptedStreams

LEMMA MemberOfKind ==
    ASSUME NEW s, NEW p, NEW k, KindAt(s, p) = k, k # "none"
    PROVE  MemberAt(s, p).kind = k
  BY DEF KindAt

\* What is at the path a hard link names, after the other members were restored.
LEMMA NamedByALink ==
    ASSUME NEW s \in Seq(StreamMembers), NEW f \in {"v01", "mypack", "ustar"}, Accepts(f, s),
           f = archive.format, DiskInv(s), at = Len(s), links \subseteq LinksOf(s),
           NEW i \in LinksOf(s), NEW l, l = s[i].link
    PROVE  \/ disk[l].kind = "none" /\ \E k \in links : s[k].path = l
           \/ /\ disk[l].kind = "directory"
              /\ f = "ustar" /\ KindAt(s, Root) \notin {"none", "directory"}
           \/ disk[l].kind = "file" /\ disk[l] = LinkedTo(s, s[i].path)
  <1>0. Apart(s) /\ f # "v01" /\ KindAt(s, EndOfChain(s, l)) = "file"
        /\ LinkedTo(s, s[i].path) = LinkedTo(s, l)
    BY AcceptedStreams, LinksEndInFiles DEF LinkedTo
  <1>1. KindAt(s, l) # "hardlink" => KindAt(s, l) = "file" /\ EndOfChain(s, l) = l
    BY <1>0, EndOfNoLink
  <1>k. PICK k \in DOMAIN s : s[k].path = l
    <2>1. KindAt(s, l) # "none"
      BY <1>1
    <2>. QED
      BY <2>1, PathIsOfAMember
  <1>2. KindAt(s, l) = s[k].kind /\ MemberAt(s, l) = s[k]
    BY <1>0, <1>k, MembersFound
  <1>3. s[k].kind = "hardlink" \/ s[k].kind = "file"
    BY <1>1, <1>2
  <1>4. disk[l] = DiskOf(s, k)
    BY <1>k DEF DiskInv
  <1>5. LinkedTo(s, l).kind = "file"
    <2>1. MemberAt(s, EndOfChain(s, l)).kind = "file"
      BY <1>0, MemberOfKind
    <2>. QED
      BY <2>1 DEF LinkedTo, NodeOf
  <1>6. CASE l = Root
    <2>1. disk[l] = ImpliedDirectory
      BY <1>3, <1>4, <1>6, <1>k DEF DiskOf
    <2>2. disk[l].kind = "directory"
      BY <2>1 DEF ImpliedDirectory, NoNode
    <2>3. f = "ustar" /\ KindAt(s, Root) \notin {"none", "directory"}
      BY <1>3, <1>6, <1>k, RootOfAContainer
    <2>. QED
      BY <2>2, <2>3
  <1>7. CASE l # Root /\ k \in links
    <2>1. disk[l] = NoNode
      BY <1>3, <1>4, <1>7, <1>k DEF DiskOf
    <2>. QED
      BY <1>7, <1>k, <2>1 DEF NoNode
  <1>8. CASE l # Root /\ k \notin links
    <2>1. k <= at
      <3>1. Len(s) \in Nat
        OBVIOUS
      <3>. QED
        BY <3>1
    <2>2. CASE s[k].kind = "hardlink"
      <3>1. disk[l] = LinkedTo(s, l)
        BY <1>4, <1>8, <1>k, <2>1, <2>2 DEF DiskOf
      <3>. QED
        BY <1>0, <1>5, <3>1
    <2>3. CASE s[k].kind = "file"
      <3>1. disk[l] = NodeOf(s[k])
        BY <1>4, <1>8, <1>k, <2>1, <2>3 DEF DiskOf
      <3>2. EndOfChain(s, l) = l
        BY <1>1, <1>2, <2>3
      <3>3. LinkedTo(s, l) = NodeOf(s[k])
        BY <1>2, <3>2 DEF LinkedTo
      <3>. QED
        BY <1>0, <1>5, <3>1, <3>3
    <2>. QED
      BY <1>3, <2>2, <2>3
  <1>. QED
    BY <1>6, <1>7, <1>8

\* There is always a hard link that can be made next.
LEMMA SomeLinkIsReady ==
    ASSUME NEW s \in Seq(StreamMembers), NEW f \in {"v01", "mypack", "ustar"}, Accepts(f, s),
           f = archive.format, DiskInv(s), at = Len(s), links \subseteq LinksOf(s), links # {}
    PROVE  \E i \in links : disk[s[i].link].kind # "none"
  <1>0. SUFFICES ASSUME \A i \in links : disk[s[i].link].kind = "none" PROVE FALSE
    OBVIOUS
  <1>1. \A i \in links : \E k \in links : s[k].path = s[i].link
    <2>1. SUFFICES ASSUME NEW i \in links PROVE \E k \in links : s[k].path = s[i].link
      OBVIOUS
    <2>2. disk[s[i].link].kind = "none" /\ i \in LinksOf(s)
      BY <1>0
    <2>. QED
      BY <2>2, NamedByALink
  <1>i. PICK i \in links : TRUE
    OBVIOUS
  <1>a. Apart(s)
    BY AcceptedStreams
  <1>f. PICK g : HopsAre(g, s, s[i].path, Last + 1) /\ EndOfChain(s, s[i].path) = g[Last + 1]
    BY EndIsTheLastHop
  <1>2. \A n \in 0..Last + 1 : g[n] = IF n = 0 THEN s[i].path ELSE Hop(s, g[n - 1])
    BY <1>f DEF HopsAre
  <1>s. PICK S : S = {n \in Nat : n <= Last + 1 => \E k \in links : g[n] = s[k].path}
    OBVIOUS
  <1>3. 0 \in S
    <2>1. 0 \in 0..Last + 1
      OBVIOUS
    <2>2. g[0] = s[i].path
      BY <1>2, <2>1
    <2>. QED
      BY <1>s, <2>2
  <1>4. ASSUME NEW n \in Nat, n \in S PROVE n + 1 \in S
    <2>1. SUFFICES ASSUME n + 1 <= Last + 1 PROVE \E k \in links : g[n + 1] = s[k].path
      BY <1>s
    <2>2. n <= Last + 1 /\ n + 1 \in 0..Last + 1 /\ n + 1 # 0 /\ n + 1 - 1 = n
      BY <2>1
    <2>3. PICK k \in links : g[n] = s[k].path
      BY <1>s, <1>4, <2>2
    <2>4. g[n + 1] = Hop(s, g[n])
      BY <1>2, <2>2
    <2>5. k \in DOMAIN s /\ s[k].kind = "hardlink"
      BY DEF LinksOf
    <2>6. KindAt(s, s[k].path) = "hardlink" /\ MemberAt(s, s[k].path) = s[k]
      BY <1>a, <2>5, MembersFound
    <2>7. g[n + 1] = s[k].link
      BY <2>3, <2>4, <2>6 DEF Hop
    <2>. QED
      BY <1>1, <2>7
  <1>5. Last + 1 \in S
    BY <1>3, <1>4, NatInduct
  <1>6. PICK k \in links : g[Last + 1] = s[k].path
    BY <1>5, <1>s
  <1>7. KindAt(s, s[k].path) = "hardlink"
    <2>1. k \in DOMAIN s /\ s[k].kind = "hardlink"
      BY DEF LinksOf
    <2>. QED
      BY <1>a, <2>1, MembersFound
  <1>8. KindAt(s, EndOfChain(s, s[i].path)) = "file"
    BY LinksEndInFiles
  <1>. QED
    BY <1>6, <1>7, <1>8, <1>f

LEMMA LinkedKeepsInv ==
    ASSUME ArchiveInv, NEW CONSTANT s \in Seq(StreamMembers), s = archive.stream,
           NEW CONSTANT f \in {"v01", "mypack", "ustar"}, f = archive.format, Accepts(f, s),
           phase = "restore", at = Len(s), NEW CONSTANT i \in LinksOf(s), i \in links,
           s[i].path # Root, disk[s[i].link] = LinkedTo(s, s[i].path),
           Created(s[i].path, disk[s[i].link]), links' = links \ {i},
           UNCHANGED <<sourceVars, walkVars, backupVars, archive, damaged, at, directories,
                       target>>
    PROVE  ArchiveInv'
  <1>1. DiskInv(s) /\ ProgressInv(s)
    BY DEF ArchiveInv, ReadingInv
  <1>2. at \in Nat /\ i \in DOMAIN s /\ s[i].kind = "hardlink" /\ i <= at
    <2>1. i \in DOMAIN s /\ s[i].kind = "hardlink" /\ Len(s) \in Nat
      BY DEF LinksOf
    <2>. QED
      BY <2>1
  <1>3. directories = DirectoriesOf(s)
    BY <1>1 DEF ProgressInv
  <1>4. s[i].path \in 1..Last
    <2>1. s[i] \in StreamMembers
      BY <1>2
    <2>2. s[i].path \in Paths
      BY <2>1 DEF StreamMembers
    <2>. QED
      BY <2>2 DEF Paths, Root
  <1>5. disk[Parent[s[i].path]] = ImpliedDirectory
    <2>1. Parent[s[i].path] \in Ancestors[s[i].path]
      BY <1>4, AncestorsUnfold
    <2>2. \A q \in Ancestors[s[i].path] : disk[q] = ImpliedDirectory
      <3>1. at \in 0..Len(s) /\ i <= at + 1
        BY <1>2
      <3>. QED
        BY <1>1, <1>2, <1>3, <3>1, WayToAMember
    <2>. QED
      BY <2>1, <2>2
  <1>n. PICK node : node = disk[s[i].link]
    OBVIOUS
  <1>6. disk' = [q \in Paths |-> IF q = s[i].path THEN node ELSE disk[q]]
    <2>1. disk = [q \in Paths |-> disk[q]]
      BY <1>1 DEF DiskInv
    <2>2. Created(s[i].path, node)
      BY <1>n
    <2>p. PICK p \in 1..Last : p = s[i].path
      BY <1>4
    <2>3. disk' = [q \in Paths |-> IF q = p THEN node ELSE disk[q]]
      BY <1>5, <2>1, <2>2, <2>p, CreatedThere
    <2>. QED
      BY <2>3, <2>p
  <1>7. node = DiskOf(s, i)'
    <2>1. i \notin links' /\ i <= at'
      BY <1>2
    <2>. QED
      BY <1>2, <1>n, <2>1 DEF DiskOf
  <1>8. \A j \in DOMAIN s : j # i => DiskOf(s, j)' = DiskOf(s, j)
    <2>1. ASSUME NEW CONSTANT j \in DOMAIN s, j # i PROVE DiskOf(s, j)' = DiskOf(s, j)
      <3>1. j \in links' <=> j \in links
        BY <2>1
      <3>. QED
        BY <3>1 DEF DiskOf
    <2>. QED
      BY <2>1
  <1>9. DiskInv(s)'
    <2>1. Apart(s)
      BY AcceptedStreams
    <2>. QED
      BY <1>1, <1>2, <1>6, <1>7, <1>8, <2>1, DiskChanges
  <1>10. ProgressInv(s)'
    <2>1. at' \in 0..Len(s) /\ directories' \subseteq DirectoriesOf(s) /\ links' \subseteq LinksOf(s)
          /\ (\A k \in links' : k <= at') /\ ~(at' < Len(s))
      BY <1>1, <1>2 DEF ProgressInv
    <2>2. \A k \in directories', j \in DirectoriesOf(s) :
            s[j].path \in Ancestors[s[k].path] => j \in directories'
      BY <1>3
    <2>3. \A r \in DOMAIN s : s[r].path = Root /\ s[r].kind # "directory" => r > at' \/ r \in links'
      BY <1>1 DEF ProgressInv
    <2>. QED
      BY <1>3, <2>1, <2>2, <2>3 DEF ProgressInv
  <1>. QED
    BY <1>9, <1>10, RestoreIsQuiet DEF backupVars

LEMMA MakeLinkKeepsInv == ASSUME ArchiveInv, MakeLink PROVE ArchiveInv'
  <1>1. phase = "restore" /\ at = Len(archive.stream) /\ links # {}
    BY DEF MakeLink
  <1>s. PICK s \in Seq(StreamMembers) : s = archive.stream
    BY DEF ArchiveInv, ArchiveTypes
  <1>f. PICK f \in {"v01", "mypack", "ustar"} : f = archive.format
    BY <1>1 DEF ArchiveInv, ArchiveTypes
  <1>2. Accepts(f, s) /\ DiskInv(s) /\ ProgressInv(s)
    BY <1>1, <1>s, <1>f DEF ArchiveInv, ReadingInv
  <1>3. links \subseteq LinksOf(s) /\ at = Len(s)
    BY <1>1, <1>2, <1>s DEF ProgressInv
  <1>r. PICK ready : ready = {i \in links : disk[s[i].link].kind # "none"}
    OBVIOUS
  <1>i. PICK i : i = CHOOSE j \in ready : \A k \in ready : j <= k
    OBVIOUS
  <1>4. IF ready = {} \/ disk[s[i].path].kind # "none" \/ disk[s[i].link].kind = "directory"
        THEN RestoreFails("stuck")
        ELSE /\ Created(s[i].path, disk[s[i].link])
             /\ links' = links \ {i}
             /\ UNCHANGED <<sourceVars, walkVars, backupVars, archive, damaged, at,
                            directories, target>>
    BY <1>s, <1>r, <1>i DEF MakeLink
  <1>5. ready # {}
    BY <1>1, <1>2, <1>3, <1>f, <1>r, SomeLinkIsReady
  <1>6. i \in ready
    <2>1. ready \in SUBSET Nat
      BY <1>3, <1>r DEF LinksOf
    <2>2. \E j \in ready : \A k \in ready : j <= k
      BY <1>5, <2>1, LeastNumber
    <2>. QED
      BY <1>i, <2>2
  <1>7. i \in links /\ i \in LinksOf(s) /\ i \in DOMAIN s /\ s[i].kind = "hardlink"
        /\ disk[s[i].link].kind # "none"
    BY <1>3, <1>6, <1>r DEF LinksOf
  <1>8. disk[s[i].path] = IF s[i].path = Root THEN ImpliedDirectory ELSE NoNode
    <2>1. disk[s[i].path] = DiskOf(s, i)
      BY <1>2, <1>7 DEF DiskInv
    <2>. QED
      BY <1>7, <2>1 DEF DiskOf
  <1>9. CASE s[i].path = Root
    <2>1. archive.format = "ustar" /\ KindAt(archive.stream, Root) \notin {"none", "directory"}
      BY <1>2, <1>7, <1>9, <1>s, <1>f, RootOfAContainer
    <2>2. disk[s[i].path].kind # "none"
      BY <1>8, <1>9 DEF ImpliedDirectory, NoNode
    <2>3. RestoreFails("stuck")
      BY <1>4, <2>2
    <2>. QED
      BY <1>1, <2>1, <2>3, RestoreFailsKeepsInv
  <1>10. CASE s[i].path # Root /\ disk[s[i].link].kind = "directory"
    <2>1. archive.format = "ustar" /\ KindAt(archive.stream, Root) \notin {"none", "directory"}
      BY <1>2, <1>3, <1>7, <1>10, <1>s, <1>f, NamedByALink
    <2>2. RestoreFails("stuck")
      BY <1>4, <1>10
    <2>. QED
      BY <1>1, <2>1, <2>2, RestoreFailsKeepsInv
  <1>11. CASE s[i].path # Root /\ disk[s[i].link].kind # "directory"
    <2>1. disk[s[i].link] = LinkedTo(s, s[i].path)
      BY <1>2, <1>3, <1>7, <1>11, <1>f, NamedByALink
    <2>2. disk[s[i].path].kind = "none"
      BY <1>8, <1>11 DEF NoNode
    <2>3. /\ Created(s[i].path, disk[s[i].link])
          /\ links' = links \ {i}
          /\ UNCHANGED <<sourceVars, walkVars, backupVars, archive, damaged, at,
                         directories, target>>
      BY <1>4, <1>5, <1>11, <2>2
    <2>. QED
      BY <1>1, <1>2, <1>3, <1>7, <1>11, <1>s, <1>f, <2>1, <2>3, LinkedKeepsInv
  <1>. QED
    BY <1>9, <1>10, <1>11

LEMMA DepthsAreNumbers ==
    \A p \in Paths : IsFiniteSet(Ancestors[p]) /\ Depth(p) \in 0..Last + 1
  <1>1. SUFFICES ASSUME NEW p \in Paths
                 PROVE  IsFiniteSet(Ancestors[p]) /\ Depth(p) \in 0..Last + 1
    OBVIOUS
  <1>2. IsFiniteSet(0..Last) /\ Cardinality(0..Last) = Last + 1
    <2>1. 0 \in Int /\ Last \in Int
      OBVIOUS
    <2>2. IsFiniteSet(0..Last) /\ Cardinality(0..Last) = IF 0 > Last THEN 0 ELSE Last - 0 + 1
      BY <2>1, FS_Interval
    <2>. QED
      BY <2>2
  <1>3. Ancestors[p] \subseteq 0..Last
    BY AncestorsAreBefore DEF Paths
  <1>4. IsFiniteSet(Ancestors[p]) /\ Cardinality(Ancestors[p]) <= Last + 1
    BY <1>2, <1>3, FS_Subset
  <1>5. Cardinality(Ancestors[p]) \in Nat
    BY <1>4, FS_CardinalityType
  <1>. QED
    BY <1>4, <1>5 DEF Depth

LEMMA AncestorsAreHigher ==
    ASSUME NEW p \in Paths, NEW q \in Ancestors[p]
    PROVE  Depth(q) < Depth(p)
  <1>1. q \in Paths /\ Ancestors[q] \subseteq Ancestors[p]
    BY AncestorsAreBefore, AncestorsAreTransitive
  <1>2. q \notin Ancestors[q]
    <2>1. \A r \in Ancestors[q] : r < q
      BY <1>1, AncestorsAreBefore
    <2>2. ~(q < q)
      BY <1>1 DEF Paths
    <2>. QED
      BY <2>1, <2>2
  <1>3. Depth(p) \in Nat /\ Depth(q) \in Nat /\ IsFiniteSet(Ancestors[p])
    BY <1>1, DepthsAreNumbers
  <1>4. Ancestors[q] # Ancestors[p]
    BY <1>2
  <1>5. Depth(q) <= Depth(p) /\ Depth(q) # Depth(p)
    BY <1>1, <1>3, <1>4, FS_Subset DEF Depth
  <1>. QED
    BY <1>3, <1>5

\* The directory whose metadata is set next is above none of those left.
LEMMA NextDirectoryIsTheDeepest ==
    ASSUME NEW s \in Seq(StreamMembers), NEW D, D \subseteq DOMAIN s, D # {},
           NEW i, i = NextDirectory(s, D)
    PROVE  i \in D /\ \A k \in D : s[i].path \notin Ancestors[s[k].path]
  <1>0. \A j \in DOMAIN s : s[j].path \in Paths
    <2>1. \A j \in DOMAIN s : s[j] \in StreamMembers
      OBVIOUS
    <2>. QED
      BY <2>1 DEF StreamMembers
  <1>1. \A j \in D : s[j].path \in Nat /\ s[j].path <= Last /\ Depth(s[j].path) \in Nat
                     /\ Depth(s[j].path) <= Last + 1
    BY <1>0, DepthsAreNumbers DEF Paths
  <1>. DEFINE High == {Last + 1 - Depth(s[j].path) : j \in D}
  <1>2. PICK x \in High : \A y \in High : x <= y
    <2>1. High \in SUBSET Nat
      BY <1>1
    <2>2. High # {}
      OBVIOUS
    <2>. QED
      BY <2>1, <2>2, LeastNumber
  <1>3. PICK a \in D : x = Last + 1 - Depth(s[a].path)
    OBVIOUS
  <1>4. \A j \in D : Depth(s[j].path) <= Depth(s[a].path)
    <2>1. SUFFICES ASSUME NEW j \in D PROVE Depth(s[j].path) <= Depth(s[a].path)
      OBVIOUS
    <2>2. x <= Last + 1 - Depth(s[j].path)
      BY <1>2
    <2>. QED
      BY <1>1, <1>3, <2>2
  <1>. DEFINE E == {j \in D : Depth(s[j].path) = Depth(s[a].path)}
              Early == {Last - s[j].path : j \in E}
  <1>5. PICK y \in Early : \A z \in Early : y <= z
    <2>1. Early \in SUBSET Nat
      BY <1>1
    <2>2. Early # {}
      BY <1>3
    <2>. QED
      BY <2>1, <2>2, LeastNumber
  <1>6. PICK b \in E : y = Last - s[b].path
    OBVIOUS
  <1>7. \A j \in E : s[j].path <= s[b].path
    <2>1. SUFFICES ASSUME NEW j \in E PROVE s[j].path <= s[b].path
      OBVIOUS
    <2>2. y <= Last - s[j].path
      BY <1>5
    <2>3. j \in D /\ b \in D
      OBVIOUS
    <2>j. PICK pj \in Nat : pj = s[j].path
      BY <1>1, <2>3
    <2>b. PICK pb \in Nat : pb = s[b].path
      BY <1>1, <2>3
    <2>4. y = Last - pb /\ y <= Last - pj
      BY <1>6, <2>2, <2>j, <2>b
    <2>5. pj <= pb
      BY <2>4
    <2>. QED
      BY <2>5, <2>j, <2>b
  <1>. DEFINE Next1(c) == \A j \in D :
                 \/ Depth(s[c].path) > Depth(s[j].path)
                 \/ Depth(s[c].path) = Depth(s[j].path) /\ s[c].path >= s[j].path
  <1>8. Next1(b)
    <2>1. SUFFICES ASSUME NEW j \in D
                   PROVE  \/ Depth(s[b].path) > Depth(s[j].path)
                          \/ Depth(s[b].path) = Depth(s[j].path) /\ s[b].path >= s[j].path
      OBVIOUS
    <2>2. Depth(s[j].path) <= Depth(s[a].path) /\ Depth(s[b].path) = Depth(s[a].path)
      BY <1>4
    <2>3. CASE j \in E
      <3>1. s[j].path <= s[b].path
        BY <1>7, <2>3
      <3>. QED
        BY <1>1, <2>2, <2>3, <3>1
    <2>4. CASE j \notin E
      BY <1>1, <1>3, <2>2, <2>4
    <2>. QED
      BY <2>3, <2>4
  <1>9. i \in D /\ Next1(i)
    <2>1. i = CHOOSE c \in D : Next1(c)
      BY DEF NextDirectory
    <2>2. \E c \in D : Next1(c)
      BY <1>8
    <2>. HIDE DEF Next1
    <2>. QED
      BY <2>1, <2>2
  <1>10. ASSUME NEW k \in D PROVE s[i].path \notin Ancestors[s[k].path]
    <2>1. SUFFICES ASSUME s[i].path \in Ancestors[s[k].path] PROVE FALSE
      OBVIOUS
    <2>2. Depth(s[i].path) < Depth(s[k].path)
      BY <1>0, <2>1, AncestorsAreHigher
    <2>3. \/ Depth(s[i].path) > Depth(s[k].path)
          \/ Depth(s[i].path) = Depth(s[k].path)
      BY <1>9
    <2>. QED
      BY <1>1, <1>9, <2>2, <2>3
  <1>. QED
    BY <1>9, <1>10

LEMMA SetMetadataKeepsInv == ASSUME ArchiveInv, SetMetadata PROVE ArchiveInv'
  <1>1. phase = "restore" /\ at = Len(archive.stream) /\ links = {} /\ directories # {}
    BY DEF SetMetadata
  <1>s. PICK s \in Seq(StreamMembers) : s = archive.stream
    BY DEF ArchiveInv, ArchiveTypes
  <1>f. PICK f \in {"v01", "mypack", "ustar"} : f = archive.format
    BY <1>1 DEF ArchiveInv, ArchiveTypes
  <1>2. Accepts(f, s) /\ DiskInv(s) /\ ProgressInv(s)
    BY <1>1, <1>s, <1>f DEF ArchiveInv, ReadingInv
  <1>3. /\ directories \subseteq DirectoriesOf(s) /\ at = Len(s)
        /\ \A i \in directories, j \in DirectoriesOf(s) :
             s[j].path \in Ancestors[s[i].path] => j \in directories
    BY <1>1, <1>2, <1>s DEF ProgressInv
  <1>i. PICK i : i = NextDirectory(s, directories)
    OBVIOUS
  <1>4. i \in directories /\ \A k \in directories : s[i].path \notin Ancestors[s[k].path]
    <2>1. directories \subseteq DOMAIN s
      BY <1>3 DEF DirectoriesOf
    <2>. QED
      BY <1>1, <1>i, <2>1, NextDirectoryIsTheDeepest
  <1>5. i \in DOMAIN s /\ s[i].kind = "directory" /\ s[i].path \in Paths
    <2>1. i \in DOMAIN s /\ s[i].kind = "directory"
      BY <1>3, <1>4 DEF DirectoriesOf
    <2>2. s[i] \in StreamMembers
      BY <2>1
    <2>. QED
      BY <2>1, <2>2 DEF StreamMembers
  <1>6. Reachable(disk, s[i].path)
    <2>1. at \in 0..Len(s) /\ i <= at + 1
      <3>1. Len(s) \in Nat /\ i \in Nat /\ i <= Len(s)
        BY <1>5
      <3>. QED
        BY <1>3, <3>1
    <2>2. \A j \in DirectoriesOf(s) : s[j].path \in Ancestors[s[i].path] => j \in directories
      BY <1>3, <1>4
    <2>3. \A q \in Ancestors[s[i].path] : disk[q] = ImpliedDirectory
      BY <1>2, <1>5, <1>f, <2>1, <2>2, WayToAMember
    <2>. QED
      BY <2>3, ImpliedIsReachable
  <1>n. PICK node : node = NodeOf(s[i])
    OBVIOUS
  <1>7. /\ disk' = [disk EXCEPT ![s[i].path] = node]
        /\ directories' = directories \ {i}
        /\ UNCHANGED <<sourceVars, walkVars, backupVars, archive, damaged, at, links, target>>
    BY <1>s, <1>i, <1>n, <1>6 DEF SetMetadata
  <1>8. disk' = [q \in Paths |-> IF q = s[i].path THEN node ELSE disk[q]]
    <2>1. disk = [q \in Paths |-> disk[q]]
      BY <1>2 DEF DiskInv
    <2>. QED
      BY <1>5, <1>7, <2>1
  <1>9. node = DiskOf(s, i)'
    <2>1. i \notin directories'
      BY <1>7
    <2>. QED
      BY <1>5, <1>n, <2>1 DEF DiskOf
  <1>10. \A j \in DOMAIN s : j # i => DiskOf(s, j)' = DiskOf(s, j)
    <2>1. ASSUME NEW CONSTANT j \in DOMAIN s, j # i PROVE DiskOf(s, j)' = DiskOf(s, j)
      <3>1. j \in directories' <=> j \in directories
        BY <1>7, <2>1
      <3>. QED
        BY <1>7, <3>1 DEF DiskOf
    <2>. QED
      BY <2>1
  <1>11. DiskInv(s)'
    <2>1. Apart(s)
      BY <1>2, AcceptedStreams
    <2>. QED
      BY <1>2, <1>5, <1>8, <1>9, <1>10, <2>1, DiskChanges
  <1>12. ProgressInv(s)'
    <2>1. /\ at' \in 0..Len(s) /\ directories' \subseteq DirectoriesOf(s)
          /\ links' = {} /\ ~(at' < Len(s))
      BY <1>1, <1>2, <1>3, <1>7 DEF ProgressInv
    <2>2. \A k \in directories', j \in DirectoriesOf(s) :
            s[j].path \in Ancestors[s[k].path] => j \in directories'
      BY <1>3, <1>4, <1>7
    <2>3. \A r \in DOMAIN s : s[r].path = Root /\ s[r].kind # "directory" => r > at' \/ r \in links'
      BY <1>2, <1>7 DEF ProgressInv
    <2>. QED
      BY <2>1, <2>2, <2>3 DEF ProgressInv
  <1>13. archive' = archive
    BY <1>7
  <1>. QED
    BY <1>1, <1>7, <1>11, <1>12, <1>s, RestoreIsQuiet DEF backupVars

LEMMA RestoredDisk ==
    ASSUME NEW s \in Seq(StreamMembers), NEW f \in {"v01", "mypack", "ustar"}, Accepts(f, s),
           DiskInv(s), ProgressInv(s), at = Len(s), links = {}, directories = {}
    PROVE  disk = Meaning(s)
  <1>0. Apart(s)
    BY AcceptedStreams
  <1>1. ASSUME NEW p \in Paths
        PROVE  disk[p] = CASE KindAt(s, p) = "hardlink" -> NodeOf(MemberAt(s, EndOfChain(s, p)))
                           [] KindAt(s, p) \notin {"hardlink", "none"} -> NodeOf(MemberAt(s, p))
                           [] KindAt(s, p) = "none" /\ p \in Implied(s) -> ImpliedDirectory
                           [] OTHER -> NoNode
    <2>1. CASE p \notin PathsOf(s)
      <3>1. KindAt(s, p) = "none"
        BY <2>1 DEF KindAt
      <3>2. disk[p] = IF p \in Implied(s) THEN ImpliedDirectory ELSE NoNode
        BY <2>1 DEF DiskInv
      <3>. QED
        BY <3>1, <3>2
    <2>2. CASE p \in PathsOf(s)
      <3>i. PICK i \in DOMAIN s : s[i].path = p
        BY <2>2, Zenon DEF PathsOf
      <3>1. KindAt(s, p) = s[i].kind /\ MemberAt(s, p) = s[i]
        BY <1>0, <3>i, MembersFound
      <3>2. disk[p] = DiskOf(s, i)
        BY <3>i DEF DiskInv
      <3>3. s[i].kind # "none"
        <4>1. s[i] \in StreamMembers
          OBVIOUS
        <4>. QED
          BY <4>1 DEF StreamMembers
      <3>4. i <= at /\ ~(i > at)
        <4>1. Len(s) \in Nat
          OBVIOUS
        <4>. QED
          BY <4>1
      <3>5. s[i].kind = "directory" \/ p # Root
        BY <3>i, <3>4 DEF ProgressInv
      <3>6. CASE s[i].kind = "directory"
        <4>1. disk[p] = NodeOf(s[i])
          BY <3>2, <3>6 DEF DiskOf
        <4>. QED
          BY <3>1, <3>6, <4>1
      <3>7. CASE s[i].kind = "hardlink"
        <4>1. disk[p] = LinkedTo(s, p)
          BY <3>2, <3>4, <3>5, <3>7, <3>i DEF DiskOf
        <4>. QED
          BY <3>1, <3>7, <4>1 DEF LinkedTo
      <3>8. CASE s[i].kind # "hardlink" /\ s[i].kind # "directory"
        <4>1. disk[p] = NodeOf(s[i])
          BY <3>2, <3>4, <3>5, <3>8, <3>i DEF DiskOf
        <4>. QED
          BY <3>1, <3>3, <3>8, <4>1
      <3>. QED
        BY <3>6, <3>7, <3>8
    <2>. QED
      BY <2>1, <2>2
  <1>2. disk = [p \in Paths |-> disk[p]]
    BY DEF DiskInv
  <1>m. PICK m : m = Meaning(s)
    OBVIOUS
  <1>3. m = [p \in Paths |->
               CASE KindAt(s, p) = "hardlink" -> NodeOf(MemberAt(s, EndOfChain(s, p)))
                 [] KindAt(s, p) \notin {"hardlink", "none"} -> NodeOf(MemberAt(s, p))
                 [] KindAt(s, p) = "none" /\ p \in Implied(s) -> ImpliedDirectory
                 [] OTHER -> NoNode]
    BY <1>m DEF Meaning
  <1>4. \A p \in Paths : disk[p] = m[p]
    BY <1>1, <1>3
  <1>5. m = [p \in Paths |-> m[p]]
    BY <1>3
  <1>. QED
    BY <1>2, <1>4, <1>5, <1>m

LEMMA EndRestoreKeepsInv == ASSUME ArchiveInv, EndRestore PROVE ArchiveInv'
  <1>1. /\ phase = "restore" /\ at = Len(archive.stream) /\ links = {} /\ directories = {}
        /\ phase' = "restored" /\ target' = "complete"
        /\ UNCHANGED <<sourceVars, walkVars, entries, hashed, reader, archive, damaged, disk, at,
                       links, directories>>
    BY DEF EndRestore
  <1>2. ArchiveTypes /\ TargetInv /\ ReadingInv
    BY DEF ArchiveInv
  <1>s. PICK s \in Seq(StreamMembers) : s = archive.stream
    BY <1>2 DEF ArchiveTypes
  <1>f. PICK f \in {"v01", "mypack", "ustar"} : f = archive.format
    BY <1>1, <1>2 DEF ArchiveTypes
  <1>3. disk = Meaning(s)
    BY <1>1, <1>2, <1>s, <1>f, RestoredDisk DEF ReadingInv
  <1>4. AcceptedMeansRestored'
    BY <1>1, <1>3, <1>s DEF AcceptedMeansRestored
  <1>5. TargetInv'
    BY <1>1, <1>2 DEF TargetInv, DestinationIsAllOrNothing
  <1>6. PublishedInv' /\ ReadingInv'
    BY <1>1 DEF PublishedInv, ReadingInv
  <1>. QED
    BY <1>1, <1>2, <1>4, <1>5, <1>6, <1>s, <1>f, ReadingBackFrame

LEMMA RestoreDiesKeepsInv == ASSUME ArchiveInv, RestoreDies PROVE ArchiveInv'
  BY RestoreFailsKeepsInv DEF RestoreDies

LEMMA ReadBackKeepsInv == ASSUME ArchiveInv, ReadBackStep PROVE ArchiveInv'
  BY DamageKeepsInv, OpenArchiveKeepsInv, RestoreMemberKeepsInv, MakeLinkKeepsInv,
     SetMetadataKeepsInv, EndRestoreKeepsInv, RestoreDiesKeepsInv DEF ReadBackStep

-----------------------------------------------------------------------------
(* What was written *)

LEMMA HeldAsListed == ASSUME ArchiveInv PROVE ArchivesHoldWhatWasListed
  <1>1. SUFFICES ASSUME Packing, NEW k \in DOMAIN archive.stream,
                        archive.stream[k].kind = "file"
                 PROVE  /\ archive.stream[k].data = ListedData(entries[k])
                        /\ \E i \in Nodes : archive.stream[k].data \in nodes[i].was
    BY DEF ArchivesHoldWhatWasListed
  <1>2. PackInv /\ ArchiveTypes
    BY <1>1 DEF ArchiveInv, BackingInv, Backing, Packing
  <1>3. entries[k] \in EntryRecords
    <2>1. archive.stream \in Seq(StreamMembers) /\ entries \in Seq(EntryRecords)
          /\ Len(archive.stream) <= Len(entries)
      BY <1>2 DEF ArchiveTypes, PackInv, PackedSoFar
    <2>2. Len(archive.stream) \in Nat /\ Len(entries) \in Nat
      BY <2>1
    <2>3. k \in DOMAIN entries
      BY <2>1, <2>2
    <2>. QED
      BY <2>1, <2>3
  <1>e. PICK e \in EntryRecords : e = entries[k]
    BY <1>3
  <1>4. archive.stream[k] = MemberOf(e)
    BY <1>2, <1>e DEF PackInv, PackedSoFar
  <1>5. e.kind = "file" /\ archive.stream[k].data = ListedData(e)
    <2>1. MemberOf(e).kind = e.kind
      BY MembersAreTyped
    <2>2. e.kind = "file"
      BY <1>1, <1>4, <2>1
    <2>3. MemberOf(e).data = ListedData(e)
      BY <2>2, MembersAreTyped
    <2>. QED
      BY <1>4, <2>2, <2>3
  <1>6. Whole(archive.stream[k].data)
    BY <1>1, <1>2 DEF PackInv
  <1>. QED
    BY <1>5, <1>6, <1>e DEF Whole

\* The stream a listing is written as.
WrittenAs(s) == Len(s) = Len(entries) /\ \A k \in DOMAIN s : s[k] = MemberOf(entries[k])

LEMMA WrittenMembers ==
    ASSUME entries \in Seq(EntryRecords), ListingInv, NEW s \in Seq(StreamMembers), WrittenAs(s)
    PROVE  /\ DOMAIN s = DOMAIN entries
           /\ \A k \in DOMAIN s :
                /\ entries[k] \in EntryRecords
                /\ s[k].path = entries[k].path /\ s[k].kind = entries[k].kind
                /\ s[k].kind # "hardlink" => /\ s[k].data = ListedData(entries[k])
                                             /\ s[k].time = entries[k].time
                /\ s[k].kind = "hardlink" => s[k].link = entries[k].link
           /\ Apart(s)
  <1>1. DOMAIN s = DOMAIN entries /\ \A k \in DOMAIN entries : entries[k] \in EntryRecords
    BY DEF WrittenAs
  <1>2. ASSUME NEW k \in DOMAIN s
        PROVE  /\ s[k].path = entries[k].path /\ s[k].kind = entries[k].kind
               /\ s[k].kind # "hardlink" => /\ s[k].data = ListedData(entries[k])
                                            /\ s[k].time = entries[k].time
               /\ s[k].kind = "hardlink" => s[k].link = entries[k].link
    <2>e. PICK e \in EntryRecords : e = entries[k]
      BY <1>1
    <2>1. s[k] = MemberOf(e)
      BY <2>e DEF WrittenAs
    <2>2. MemberOf(e).kind = e.kind /\ MemberOf(e).path = e.path
      BY MembersAreTyped
    <2>3. e.kind # "hardlink" => MemberOf(e).data = ListedData(e) /\ MemberOf(e).time = e.time
      BY MembersAreTyped
    <2>4. e.kind = "hardlink" => MemberOf(e).link = e.link
      BY MembersAreTyped
    <2>. QED
      BY <2>e, <2>1, <2>2, <2>3, <2>4
  <1>3. ASSUME NEW i \in DOMAIN s, NEW j \in DOMAIN s, s[i].path = s[j].path PROVE i = j
    <2>1. entries[i].path = entries[j].path
      BY <1>2, <1>3
    <2>2. entries[i].path \in Nat
      BY <1>1 DEF EntryRecords, Paths
    <2>3. ~(i < j) /\ ~(j < i)
      BY <1>1, <2>1, <2>2 DEF ListingInv, IsListing
    <2>4. i \in Nat /\ j \in Nat
      BY <1>1
    <2>. QED
      BY <2>3, <2>4
  <1>. QED
    BY <1>1, <1>2, <1>3 DEF Apart

LEMMA WrittenParentsFirst ==
    ASSUME entries \in Seq(EntryRecords), ListingInv, entries # <<>>,
           NEW s \in Seq(StreamMembers), WrittenAs(s)
    PROVE  ParentsFirst(s)
  <1>1. DOMAIN s = DOMAIN entries
        /\ \A k \in DOMAIN s : s[k].path = entries[k].path /\ s[k].kind = entries[k].kind
    BY WrittenMembers
  <1>2. 1 \in DOMAIN s
    BY <1>1
  <1>3. s # <<>> /\ s[1].path = Root /\ s[1].kind = "directory"
    BY <1>1, <1>2 DEF ListingInv, IsListing
  <1>4. ASSUME NEW i \in 2..Len(s)
        PROVE  \E j \in 1..i - 1 : s[j].path = Parent[s[i].path] /\ s[j].kind = "directory"
    <2>1. i \in DOMAIN s /\ i # 1
      OBVIOUS
    <2>2. PICK j \in 1..i - 1 : entries[j].path = Parent[entries[i].path]
                               /\ entries[j].kind = "directory"
      BY <1>1, <2>1 DEF ListingInv, IsListing
    <2>3. j \in DOMAIN s
      BY <2>1, <2>2
    <2>. QED
      BY <1>1, <2>1, <2>2, <2>3
  <1>. QED
    BY <1>3, <1>4 DEF ParentsFirst

LEMMA WrittenLinks ==
    ASSUME entries \in Seq(EntryRecords), ListingInv, NEW s \in Seq(StreamMembers), WrittenAs(s),
           NEW k \in LinksOf(s)
    PROVE  /\ method # "v01" /\ entries[k].shared
           /\ \E j \in DOMAIN s : /\ SharedFile(entries[j], entries[k].node)
                                  /\ s[j].kind = "file" /\ s[k].link = s[j].path
                                  /\ KindAt(s, s[k].link) = "file"
                                  /\ EndOfChain(s, s[k].path) = s[j].path
  <1>1. k \in DOMAIN s /\ s[k].kind = "hardlink"
    BY DEF LinksOf
  <1>2. k \in DOMAIN entries /\ entries[k].kind = "hardlink" /\ s[k].link = entries[k].link
    BY <1>1, WrittenMembers
  <1>3. /\ method # "v01" /\ entries[k].shared
        /\ \E j \in 1..k - 1 : SharedFile(entries[j], entries[k].node)
                              /\ entries[k].link = entries[j].path
    BY <1>2 DEF ListingInv
  <1>j. PICK j \in 1..k - 1 : SharedFile(entries[j], entries[k].node)
                             /\ entries[k].link = entries[j].path
    BY <1>3
  <1>4. j \in DOMAIN s
    BY <1>1, <1>j
  <1>5. s[j].kind = "file" /\ s[k].link = s[j].path
    <2>1. s[j].path = entries[j].path /\ s[j].kind = entries[j].kind
      BY <1>4, WrittenMembers
    <2>2. entries[j].kind = "file"
      BY <1>j DEF SharedFile
    <2>. QED
      BY <1>2, <1>j, <2>1, <2>2
  <1>6. Apart(s)
    BY WrittenMembers
  <1>7. KindAt(s, s[k].link) = "file"
    BY <1>4, <1>5, <1>6, MembersFound
  <1>8. KindAt(s, s[k].path) = "hardlink" /\ MemberAt(s, s[k].path) = s[k]
    BY <1>1, <1>6, MembersFound
  <1>9. EndOfChain(s, s[k].path) = s[k].link
    <2>l. PICK l : l = s[k].link
      OBVIOUS
    <2>1. KindAt(s, l) # "hardlink" /\ l = MemberAt(s, s[k].path).link
      BY <1>7, <1>8, <2>l
    <2>. QED
      BY <1>8, <2>1, <2>l, EndOfOneLink
  <1>. QED
    BY <1>3, <1>4, <1>5, <1>7, <1>9, <1>j

LEMMA WrittenIsAccepted ==
    ASSUME entries \in Seq(EntryRecords), ListingInv, entries # <<>>, method \in Methods,
           NEW s \in Seq(StreamMembers), WrittenAs(s)
    PROVE  Accepts(Format(method), s)
  <1>1. Unique(s) /\ Apart(s)
    <2>1. Apart(s)
      BY WrittenMembers
    <2>. QED
      BY <2>1, UniqueMeansApart
  <1>2. ParentsFirst(s)
    BY WrittenParentsFirst
  <1>3. CASE method = "v01"
    <2>1. \A i \in DOMAIN s : s[i].kind \in {"directory", "file"}
      <3>1. SUFFICES ASSUME NEW i \in DOMAIN s PROVE s[i].kind \in {"directory", "file"}
        OBVIOUS
      <3>2. s[i].kind = entries[i].kind /\ i \in DOMAIN entries
        BY WrittenMembers
      <3>. QED
        BY <1>3, <3>2 DEF ListingInv
    <2>2. AcceptsV01(s)
      BY <1>1, <1>2, <2>1 DEF AcceptsV01
    <2>. QED
      BY <1>3, <2>2 DEF Accepts, Format
  <1>4. CASE method \in {"mypack", "snapshot"}
    <2>1. AcceptsMyPack(s)
      BY <1>1, <1>2, WrittenLinks DEF AcceptsMyPack
    <2>2. Format(method) = "mypack"
      BY <1>4 DEF Format
    <2>. QED
      BY <2>1, <2>2 DEF Accepts
  <1>5. CASE method = "ustar"
    <2>1. \A i \in LinksOf(s) : KindAt(s, EndOfChain(s, s[i].path)) = "file"
      <3>1. SUFFICES ASSUME NEW i \in LinksOf(s)
                     PROVE  KindAt(s, EndOfChain(s, s[i].path)) = "file"
        OBVIOUS
      <3>2. KindAt(s, s[i].link) = "file" /\ EndOfChain(s, s[i].path) = s[i].link
        BY WrittenLinks
      <3>. QED
        BY <3>2
    <2>2. \A p \in PathsOf(s) : \A q \in Ancestors[p] \ {Root} :
            KindAt(s, q) \in {"none", "directory"}
      <3>1. SUFFICES ASSUME NEW p \in PathsOf(s), NEW q \in Ancestors[p] \ {Root}
                     PROVE  KindAt(s, q) = "directory"
        OBVIOUS
      <3>i. PICK i \in DOMAIN s : p = s[i].path
        BY Zenon DEF PathsOf
      <3>0. q \in Ancestors[s[i].path]
        BY <3>i
      <3>2. PICK j \in DOMAIN s : s[j].path = q /\ s[j].kind = "directory"
        <4>1. \A r \in Ancestors[s[i].path] :
                \E j \in DOMAIN s : j < i /\ s[j].path = r /\ s[j].kind = "directory"
          BY <1>2, ParentsListed
        <4>. QED
          BY <3>0, <4>1
      <3>. QED
        BY <1>1, <3>2, MembersFound
    <2>3. AcceptsUstar(s)
      BY <1>1, <1>2, <2>1, <2>2 DEF AcceptsUstar, ParentsFirst
    <2>. QED
      BY <1>5, <2>3 DEF Accepts, Format
  <1>. QED
    BY <1>3, <1>4, <1>5 DEF Methods

\* The entries of one shared file, and the first of them.
SameFile(e) == {k \in DOMAIN entries :
                  /\ method # "v01" /\ e.shared /\ entries[k].shared
                  /\ entries[k].node = e.node}
FirstOf(e) == IF SameFile(e) = {} THEN e
              ELSE entries[CHOOSE k \in SameFile(e) : \A j \in SameFile(e) : k <= j]

\* The first name of a shared file is the one listed as a file.
LEMMA FirstOfASharedFile ==
    ASSUME entries \in Seq(EntryRecords), ListingInv, NEW e, e.shared, method # "v01",
           NEW j \in DOMAIN entries, SharedFile(entries[j], e.node)
    PROVE  FirstOf(e) = entries[j]
  <1>1. j \in SameFile(e)
    BY DEF SameFile, SharedFile
  <1>2. ASSUME NEW k \in SameFile(e) PROVE j <= k
    <2>1. /\ k \in DOMAIN entries /\ entries[k].shared /\ entries[k].node = e.node
          /\ k \in Nat /\ j \in Nat
      BY DEF SameFile
    <2>2. entries[k].kind \in {"file", "hardlink"}
      BY <2>1 DEF ListingInv
    <2>3. CASE entries[k].kind = "file"
      <3>1. SharedFile(entries[k], entries[j].node) /\ SharedFile(entries[j], entries[j].node)
        BY <2>1, <2>3 DEF SharedFile
      <3>2. k = j
        BY <2>1, <3>1 DEF ListingInv
      <3>. QED
        BY <2>1, <3>2
    <2>4. CASE entries[k].kind = "hardlink"
      <3>1. PICK i \in 1..k - 1 : SharedFile(entries[i], entries[k].node)
        BY <2>1, <2>4 DEF ListingInv
      <3>2. i \in DOMAIN entries /\ i < k /\ i \in Nat
        BY <2>1, <3>1
      <3>3. SharedFile(entries[i], entries[j].node) /\ SharedFile(entries[j], entries[j].node)
        BY <2>1, <3>1 DEF SharedFile
      <3>4. i = j
        BY <3>2, <3>3 DEF ListingInv
      <3>. QED
        BY <2>1, <3>2, <3>4
    <2>. QED
      BY <2>2, <2>3, <2>4
  <1>3. ASSUME NEW k \in SameFile(e), \A i \in SameFile(e) : k <= i PROVE k = j
    <2>1. k <= j /\ j <= k /\ k \in Nat /\ j \in Nat
      BY <1>1, <1>2, <1>3 DEF SameFile
    <2>. QED
      BY <2>1
  <1>4. (CHOOSE k \in SameFile(e) : \A i \in SameFile(e) : k <= i) = j
    BY <1>1, <1>2, <1>3
  <1>. QED
    BY <1>1, <1>4 DEF FirstOf

LEMMA ListedAt ==
    ASSUME entries \in Seq(EntryRecords), ListingInv
    PROVE  /\ \A k \in DOMAIN entries : entries[k].path \in Paths =>
                ListedTree[entries[k].path] =
                  [kind |-> IF entries[k].kind = "hardlink" THEN "file" ELSE entries[k].kind,
                   time |-> FirstOf(entries[k]).time,
                   data |-> ListedData(FirstOf(entries[k])),
                   ino |-> IF FirstOf(entries[k]).kind = "file"
                           THEN FirstOf(entries[k]).path ELSE Root]
           /\ \A p \in Paths : (\A k \in DOMAIN entries : entries[k].path # p) =>
                ListedTree[p] = NoNode
           /\ ListedTree = [p \in Paths |-> ListedTree[p]]
  <1>. DEFINE Choice(p) == CHOOSE k \in DOMAIN entries : entries[k].path = p
              EntryAt(p) == entries[Choice(p)]
              Node(p) == [kind |-> IF EntryAt(p).kind = "hardlink" THEN "file" ELSE EntryAt(p).kind,
                          time |-> FirstOf(EntryAt(p)).time,
                          data |-> ListedData(FirstOf(EntryAt(p))),
                          ino |-> IF FirstOf(EntryAt(p)).kind = "file"
                                  THEN FirstOf(EntryAt(p)).path ELSE Root]
  <1>t. PICK t : t = ListedTree
    OBVIOUS
  <1>1. t = [p \in Paths |-> IF \E k \in DOMAIN entries : entries[k].path = p
                             THEN Node(p) ELSE NoNode]
    BY <1>t, Zenon DEF ListedTree, FirstOf, SameFile
  <1>2. ASSUME NEW k \in DOMAIN entries PROVE Choice(entries[k].path) = k
    <2>1. ASSUME NEW j \in DOMAIN entries, entries[j].path = entries[k].path PROVE j = k
      <3>0. entries[j] \in EntryRecords
        OBVIOUS
      <3>1. entries[j].path \in Nat
        BY <3>0 DEF EntryRecords, Paths
      <3>2. ~(j < k) /\ ~(k < j)
        BY <2>1, <3>1 DEF ListingInv, IsListing
      <3>3. j \in Nat /\ k \in Nat
        OBVIOUS
      <3>. QED
        BY <3>2, <3>3
    <2>. QED
      BY <2>1
  <1>. HIDE DEF Choice
  <1>3. ASSUME NEW k \in DOMAIN entries, entries[k].path \in Paths
        PROVE  t[entries[k].path] =
                  [kind |-> IF entries[k].kind = "hardlink" THEN "file" ELSE entries[k].kind,
                   time |-> FirstOf(entries[k]).time,
                   data |-> ListedData(FirstOf(entries[k])),
                   ino |-> IF FirstOf(entries[k]).kind = "file"
                           THEN FirstOf(entries[k]).path ELSE Root]
    <2>p. PICK p \in Paths : p = entries[k].path
      BY <1>3
    <2>1. EntryAt(p) = entries[k]
      BY <1>2, <2>p
    <2>. HIDE DEF EntryAt
    <2>2. t[p] = Node(p)
      <3>1. \E j \in DOMAIN entries : entries[j].path = p
        BY <2>p
      <3>. HIDE DEF Node
      <3>. QED
        BY <1>1, <3>1
    <2>. QED
      BY <2>1, <2>2, <2>p
  <1>. HIDE DEF Node
  <1>4. \A p \in Paths : (\A k \in DOMAIN entries : entries[k].path # p) => t[p] = NoNode
    BY <1>1
  <1>5. t = [p \in Paths |-> t[p]]
    BY <1>1
  <1>. QED
    BY <1>3, <1>4, <1>5, <1>t

LEMMA WrittenMeansListed ==
    ASSUME entries \in Seq(EntryRecords), ListingInv, entries # <<>>,
           NEW s \in Seq(StreamMembers), WrittenAs(s)
    PROVE  Meaning(s) = ListedTree
  <1>0. Apart(s) /\ ParentsFirst(s) /\ DOMAIN s = DOMAIN entries
    BY WrittenMembers, WrittenParentsFirst
  <1>. DEFINE Of(p) ==
                CASE KindAt(s, p) = "hardlink" -> NodeOf(MemberAt(s, EndOfChain(s, p)))
                  [] KindAt(s, p) \notin {"hardlink", "none"} -> NodeOf(MemberAt(s, p))
                  [] KindAt(s, p) = "none" /\ p \in Implied(s) -> ImpliedDirectory
                  [] OTHER -> NoNode
  <1>m. PICK m : m = Meaning(s)
    OBVIOUS
  <1>1. m = [p \in Paths |-> Of(p)]
    BY <1>m DEF Meaning
  <1>t. PICK t : t = ListedTree
    OBVIOUS
  <1>2. ASSUME NEW p \in Paths PROVE Of(p) = t[p]
    <2>1. CASE p \notin PathsOf(s)
      <3>1. KindAt(s, p) = "none"
        BY <2>1 DEF KindAt
      <3>2. p \notin Implied(s)
        <4>1. Root \in PathsOf(s)
          BY <1>0 DEF ParentsFirst, PathsOf
        <4>2. ASSUME NEW r \in PathsOf(s), p \in Ancestors[r] PROVE FALSE
          <5>i. PICK i \in DOMAIN s : r = s[i].path
            BY Zenon DEF PathsOf
          <5>1. \A q \in Ancestors[s[i].path] :
                  \E j \in DOMAIN s : j < i /\ s[j].path = q /\ s[j].kind = "directory"
            BY <1>0, ParentsListed
          <5>2. PICK j \in DOMAIN s : s[j].path = p
            BY <4>2, <5>i, <5>1
          <5>. QED
            BY <2>1, <5>2 DEF PathsOf
        <4>. QED
          BY <2>1, <4>1, <4>2 DEF Implied
      <3>3. Of(p) = NoNode
        BY <3>1, <3>2
      <3>4. \A k \in DOMAIN entries : entries[k].path # p
        <4>1. ASSUME NEW k \in DOMAIN entries, entries[k].path = p PROVE FALSE
          <5>1. s[k].path = p /\ k \in DOMAIN s
            BY <1>0, <4>1, WrittenMembers
          <5>. QED
            BY <2>1, <5>1 DEF PathsOf
        <4>. QED
          BY <4>1
      <3>5. t[p] = NoNode
        BY <1>t, <3>4, ListedAt
      <3>. QED
        BY <3>3, <3>5
    <2>2. CASE p \in PathsOf(s)
      <3>k. PICK k \in DOMAIN s : s[k].path = p
        BY <2>2, Zenon DEF PathsOf
      <3>e. PICK e \in EntryRecords : e = entries[k]
        BY WrittenMembers
      <3>1. /\ e.path = p /\ s[k].kind = e.kind
            /\ e.kind # "hardlink" => s[k].data = ListedData(e) /\ s[k].time = e.time
        BY <3>k, <3>e, WrittenMembers
      <3>2. KindAt(s, p) = e.kind /\ MemberAt(s, p) = s[k]
        BY <1>0, <3>k, <3>1, MembersFound
      <3>f. PICK f : f = FirstOf(e)
        OBVIOUS
      <3>3. t[p] = [kind |-> IF e.kind = "hardlink" THEN "file" ELSE e.kind, time |-> f.time,
                    data |-> ListedData(f), ino |-> IF f.kind = "file" THEN f.path ELSE Root]
        <4>1. k \in DOMAIN entries /\ entries[k].path \in Paths
          BY <1>0, <3>e, <3>1
        <4>. QED
          BY <1>t, <3>e, <3>f, <3>1, <4>1, ListedAt
      <3>4. e.kind \in {"directory", "file", "symlink", "fifo", "hardlink"}
        BY DEF EntryRecords
      <3>5. CASE e.kind = "hardlink"
        <4>1. k \in LinksOf(s)
          BY <3>1, <3>5 DEF LinksOf
        <4>2. PICK j \in DOMAIN s : /\ SharedFile(entries[j], e.node)
                                    /\ s[j].kind = "file"
                                    /\ EndOfChain(s, s[k].path) = s[j].path
          BY <3>e, <4>1, WrittenLinks
        <4>3. method # "v01" /\ e.shared /\ j \in DOMAIN entries
          BY <1>0, <3>e, <4>1, WrittenLinks
        <4>4. f = entries[j]
          BY <3>f, <4>2, <4>3, FirstOfASharedFile
        <4>5. s[j].path = f.path /\ s[j].data = ListedData(f) /\ s[j].time = f.time
              /\ f.kind = "file"
          BY <4>2, <4>4, WrittenMembers
        <4>6. Of(p) = NodeOf(s[j])
          <5>1. MemberAt(s, s[j].path) = s[j]
            BY <1>0, MembersFound
          <5>. QED
            BY <3>2, <3>5, <3>k, <4>2, <5>1
        <4>7. Of(p) = [kind |-> "file", time |-> f.time, data |-> ListedData(f), ino |-> f.path]
          BY <4>2, <4>5, <4>6 DEF NodeOf
        <4>. QED
          BY <3>3, <3>5, <4>5, <4>7
      <3>6. CASE e.kind # "hardlink"
        <4>1. Of(p) = NodeOf(s[k])
          BY <3>2, <3>4, <3>6
        <4>2. Of(p) = [kind |-> e.kind, time |-> e.time, data |-> ListedData(e),
                       ino |-> IF e.kind = "file" THEN e.path ELSE Root]
          BY <3>1, <3>6, <3>k, <4>1 DEF NodeOf
        <4>3. f = e
          <5>1. CASE e.shared /\ method # "v01"
            <6>1. e.kind = "file"
              BY <1>0, <3>e, <3>6, <5>1 DEF ListingInv
            <6>2. SharedFile(entries[k], e.node) /\ k \in DOMAIN entries
              BY <1>0, <3>e, <5>1, <6>1 DEF SharedFile
            <6>. QED
              BY <3>e, <3>f, <5>1, <6>2, FirstOfASharedFile
          <5>2. CASE ~(e.shared /\ method # "v01")
            BY <3>f, <5>2 DEF FirstOf, SameFile
          <5>. QED
            BY <5>1, <5>2
        <4>. QED
          BY <3>3, <3>6, <4>2, <4>3
      <3>. QED
        BY <3>5, <3>6
    <2>. QED
      BY <2>1, <2>2
  <1>. HIDE DEF Of
  <1>3. t = [p \in Paths |-> t[p]]
    BY <1>t, ListedAt
  <1>4. m = [p \in Paths |-> t[p]]
    BY <1>1, <1>2
  <1>. QED
    BY <1>3, <1>4, <1>m, <1>t

LEMMA WrittenReadsBack == ASSUME ArchiveInv PROVE WhatIsWrittenIsAccepted
  <1>1. SUFFICES ASSUME Written, phase = "published"
                 PROVE  Readable(archive, TRUE) /\ Meaning(archive.stream) = ListedTree
    BY DEF WhatIsWrittenIsAccepted
  <1>2. ArchiveTypes /\ ListingInv /\ PublishedInv
    BY DEF ArchiveInv
  <1>3. entries \in Seq(EntryRecords) /\ method \in Methods /\ entries # <<>>
    BY <1>1, <1>2 DEF ArchiveTypes, Written, PublishedInv
  <1>s. PICK s \in Seq(StreamMembers) : s = archive.stream
    BY <1>2 DEF ArchiveTypes
  <1>4. WrittenAs(s) /\ IsSealed(archive) /\ archive.format = Format(method)
    BY <1>1, <1>2, <1>s DEF PublishedInv, Written, WrittenAs, PackedSoFar, Hurt
  <1>5. Accepts(archive.format, archive.stream)
    BY <1>2, <1>3, <1>4, <1>s, WrittenIsAccepted
  <1>6. Readable(archive, TRUE)
    BY <1>4, <1>5 DEF Readable, IsSealed
  <1>7. Meaning(archive.stream) = ListedTree
    BY <1>2, <1>3, <1>4, <1>s, WrittenMeansListed
  <1>. QED
    BY <1>6, <1>7

LEMMA NothingHappened == ASSUME ArchiveInv, UNCHANGED archiveVars PROVE ArchiveInv'
  <1>1. /\ UNCHANGED <<names, nodes, edits, method, excluded, unread, toVisit, phase, entries>>
        /\ UNCHANGED <<hashed, reader, archive, damaged, disk, at, links, directories, target>>
    BY DEF archiveVars, sourceVars, walkVars, backupVars, restoreVars
  <1>2. ArchiveTypes'
    BY <1>1 DEF ArchiveInv, ArchiveTypes, Backing
  <1>3. ListingInv'
    BY <1>1, ListingStays DEF ArchiveInv
  <1>4. PublishedInv' /\ TargetInv'
    <2>1. PublishedInv'
      BY <1>1 DEF ArchiveInv, PublishedInv, IsArchiveFile, Hurt, IsSealed, Seal, Written, Format,
         PackedSoFar, MemberOf, ListedData
    <2>2. TargetInv'
      BY <1>1 DEF ArchiveInv, TargetInv, DestinationIsAllOrNothing
    <2>. QED
      BY <2>1, <2>2
  <1>5. ReadingInv' /\ AcceptedMeansRestored'
    <2>1. AcceptedMeansRestored'
      BY <1>1 DEF ArchiveInv, AcceptedMeansRestored
    <2>2. ASSUME phase = "restore" PROVE DiskInv(archive.stream)' /\ ProgressInv(archive.stream)'
      <3>1. DiskInv(archive.stream) /\ ProgressInv(archive.stream)
        BY <2>2 DEF ArchiveInv, ReadingInv
      <3>2. DiskInv(archive.stream)'
        BY <1>1, <3>1 DEF DiskInv, DiskOf
      <3>3. ProgressInv(archive.stream)'
        BY <1>1, <3>1 DEF ProgressInv
      <3>. QED
        BY <3>2, <3>3
    <2>. QED
      BY <1>1, <2>1, <2>2 DEF ArchiveInv, ReadingInv
  <1>6. BackingInv'
    <2>1. SUFFICES ASSUME Backing
                   PROVE  SourceInv' /\ VisitInv' /\ EntriesInv' /\ ReaderInv' /\ PackInv'
      BY <1>1 DEF BackingInv, Backing
    <2>2. SourceInv /\ VisitInv /\ EntriesInv /\ ReaderInv /\ PackInv
      BY <2>1 DEF ArchiveInv, BackingInv
    <2>3. SourceInv'
      BY <1>1, <2>2 DEF SourceInv
    <2>4. VisitInv'
      BY <1>1, <2>2 DEF VisitInv
    <2>5. EntriesInv'
      BY <1>1, <2>2 DEF EntriesInv, SameAsListed, Settled, Whole, Lost
    <2>6. ReaderInv'
      BY <1>1, <2>2 DEF ReaderInv, FilesToHash, Packing, NextToPack, WithoutPayload, OpenNode,
         SameAsListed, Begins, Whole, Lost, Format
    <2>7. PackInv'
      BY <1>1, <2>2 DEF PackInv, PackedSoFar, MemberOf, ListedData, Packing, Whole, Format
    <2>. QED
      BY <2>3, <2>4, <2>5, <2>6, <2>7
  <1>. QED
    BY <1>2, <1>3, <1>4, <1>5, <1>6 DEF ArchiveInv

(***************************************************************************)
(* The inductive invariant of an archive and its restore.                  *)
(***************************************************************************)
THEOREM ArchiveInvariant == ArchiveSpec => []ArchiveInv
  <1>1. ArchiveInit => ArchiveInv
    BY ArchiveInvStart
  <1>2. ArchiveInv /\ [ArchiveNext]_archiveVars => ArchiveInv'
    BY EditKeepsInv, BackupKeepsInv, ReadBackKeepsInv, NothingHappened DEF ArchiveNext
  <1>. QED
    BY <1>1, <1>2, PTL DEF ArchiveSpec

(***************************************************************************)
(* A container is restored as a whole or the destination stays as it was,  *)
(* and what was damaged is not restored.                                   *)
(***************************************************************************)
THEOREM DestinationStaysWhole == ArchiveSpec => []DestinationIsAllOrNothing
  <1>1. ArchiveInv => DestinationIsAllOrNothing
    BY DEF ArchiveInv, TargetInv
  <1>. QED
    BY <1>1, ArchiveInvariant, PTL

(***************************************************************************)
(* Whatever the user does while a backup runs, the archive holds what was  *)
(* listed, is accepted as the tree that was listed, and is restored as     *)
(* what it means; so is every archive of another writer that is accepted.  *)
(***************************************************************************)
THEOREM BackupsAreReadBack == ArchiveSpec => []BackupsReadBack
  <1>1. ArchiveInv => BackupsReadBack
    BY HeldAsListed, WrittenReadsBack DEF ArchiveInv, BackupsReadBack
  <1>. QED
    BY <1>1, ArchiveInvariant, PTL
==============================================================================
