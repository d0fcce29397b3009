--------------------------- MODULE RestoreProofs ---------------------------
(***************************************************************************)
(* What is given back of a source: the tree a delta leads to, and the      *)
(* destination a chain of snapshots is restored into.  Each part has an    *)
(* inductive invariant: DeltaInv says what every path of the staging tree  *)
(* is while a payload is merged into it, RestoreInv which claims and       *)
(* records a restore that may die at any step accounts for.                *)
(***************************************************************************)
EXTENDS ChainRestore, DeltaTree, WellFoundedInduction, TLAPS

-----------------------------------------------------------------------------
(***************************************************************************)
(* The tree of a baseline and a delta: DeltaTree.                          *)
(***************************************************************************)
USE TreeAssumption

(***************************************************************************)
(* The paths the restore works on, and those of them it has merged or is   *)
(* merging.                                                                *)
(***************************************************************************)
ActivePaths == IF Changed = {} THEN {} ELSE Payload
EnteredPaths == ActivePaths \ todo

\* The path of the file that path p of the source is a name of.
Leader(tree, p) == IF tree[p].kind = "hardlink" THEN tree[p].leader ELSE p
IsFile(tree, p) == tree[p].kind \in {"file", "hardlink"}

\* The file every name of the group of leader is linked to.
Copy(leader) ==
  [File(current[leader].stamp) EXCEPT !.leader = NewInode(inodes[leader])]

AsInBaseline(p) ==
  IF previous[p].kind = "directory"
  THEN \E t \in Times : staging[p] = Directory(previous[p].stamp, t)
  ELSE staging[p] = OnDisk(previous)[p]

Fixed ==
  /\ previous \in OldManifests /\ current \in NewManifests
  /\ doomed \subseteq Tombstones /\ todo \subseteq ActivePaths \ {Root}
  /\ opened \subseteq EnteredPaths
  /\ inodes \in [Paths -> Paths]
  /\ staging = [p \in Paths |-> staging[p]]
  /\ doomed # {} => todo = ActivePaths \ {Root} /\ opened = {Root}
  /\ \A p \in doomed : Parent[p] \in Tombstones => Parent[p] \in doomed
\* What the source has not.
GoneInv ==
  \A p \in Paths : ~Present(current, p) =>
    IF p \in doomed THEN AsInBaseline(p) ELSE staging[p] = Nothing
\* What the restore has not come to.
KeptInv ==
  \A p \in Paths : Present(current, p) /\ p \notin EnteredPaths =>
    /\ AsInBaseline(p)
    /\ p \notin ActivePaths => staging[p] = OnDisk(previous)[p]
\* What the restore has come to.
NewInv ==
  \A p \in EnteredPaths :
    /\ Ancestors[p] \subseteq EnteredPaths
    /\ current[p].kind = "directory" =>
         IF p \in opened
         THEN \E s \in Stamps, t \in Times : staging[p] = Directory(s, t)
         ELSE staging[p] = current[p]
    /\ p \in opened => current[p].kind = "directory"
    /\ current[p].kind = "symlink" => staging[p] = current[p]
    /\ IsFile(current, p) =>
         /\ inodes[Leader(current, p)] # 0
         /\ staging[p] = Copy(Leader(current, p))
InodesInv ==
  \A l \in Paths : inodes[l] # 0 =>
    /\ inodes[l] \in EnteredPaths /\ IsFile(current, inodes[l])
    /\ Leader(current, inodes[l]) = l
DeltaInv == Fixed /\ GoneInv /\ KeptInv /\ NewInv /\ InodesInv
-----------------------------------------------------------------------------
(* Paths and their ancestors *)

LEMMA LeastNumber ==
    ASSUME NEW T \in SUBSET Nat, T # {}
    PROVE  \E x \in T : \A y \in T : x <= y
  <1>1. PICK x \in T : \A y \in T : ~(<<y, x>> \in OpToRel(<, Nat))
    BY NatLessThanWellFounded, WFMin
  <1>r. PICK R : R = {ss \in Nat \X Nat : ss[1] < ss[2]}
    OBVIOUS
  <1>2. R = OpToRel(<, Nat)
    BY <1>r DEF OpToRel
  <1>3. \A y \in T : ~(<<y, x>> \in R)
    BY <1>1, <1>2
  <1>4. \A y \in T : ~(y < x)
    BY <1>3, <1>r
  <1> QED
    BY <1>4

LEMMA NatInduct ==
    ASSUME NEW S, 0 \in S, \A k \in Nat : k \in S => k + 1 \in S
    PROVE  Nat \subseteq S
  <1> SUFFICES ASSUME Nat \ S # {} PROVE FALSE
    OBVIOUS
  <1>1. PICK x \in Nat \ S : \A y \in Nat \ S : x <= y
    <2>1. Nat \ S \in SUBSET Nat
      OBVIOUS
    <2> QED
      BY <2>1, LeastNumber
  <1>2. x # 0 /\ x - 1 \in Nat
    BY <1>1
  <1>3. x - 1 \in S
    BY <1>1, <1>2
  <1> QED
    BY <1>1, <1>2, <1>3


AncestorsTo(f, k) == f = [p \in 0..k |-> IF p = Root THEN {} ELSE {Parent[p]} \cup f[Parent[p]]]

LEMMA AncestorsExist ==
    ASSUME NEW n \in Nat, n <= Last
    PROVE  \E f : AncestorsTo(f, n)
  <1>s. PICK S : S = {k \in Nat : k <= Last => \E f : AncestorsTo(f, k)}
    OBVIOUS
  <1>1. 0 \in S
    <2>1. AncestorsTo([p \in 0..0 |-> {}], 0)
      BY DEF AncestorsTo, Root
    <2>. QED
      BY <1>s, <2>1
  <1>2. ASSUME NEW k \in Nat, k \in S PROVE k + 1 \in S
    <2>. SUFFICES ASSUME k + 1 <= Last PROVE \E f : AncestorsTo(f, k + 1)
      BY <1>s
    <2>f. PICK f : AncestorsTo(f, k)
      BY <1>s, <1>2
    <2>1. \A p \in 0..k : f[p] = IF p = Root THEN {} ELSE {Parent[p]} \cup f[Parent[p]]
      BY <2>f DEF AncestorsTo
    <2>2. \A p \in 1..k + 1 : Parent[p] \in 0..k
      BY DEF Paths
    <2>g. PICK g : g = [p \in 0..k + 1 |->
                          IF p <= k THEN f[p] ELSE {Parent[p]} \cup f[Parent[p]]]
      OBVIOUS
    <2>3. \A p \in 0..k : g[p] = f[p]
      BY <2>g
    <2>h. PICK h : h = [p \in 0..k + 1 |-> IF p = Root THEN {} ELSE {Parent[p]} \cup g[Parent[p]]]
      OBVIOUS
    <2>4. ASSUME NEW p \in 0..k + 1 PROVE g[p] = h[p]
      <3>1. CASE p = Root
        <4>1. p \in 0..k /\ h[p] = {}
          BY <2>h, <3>1 DEF Root
        <4>2. f[p] = {}
          BY <2>1, <3>1, <4>1
        <4>. QED
          BY <2>3, <4>1, <4>2
      <3>2. CASE p # Root
        <4>1. p \in 1..k + 1 /\ Parent[p] \in 0..k
          BY <2>2, <3>2 DEF Root
        <4>2. h[p] = {Parent[p]} \cup f[Parent[p]]
          BY <2>h, <2>3, <3>2, <4>1
        <4>3. CASE p <= k
          <5>1. p \in 0..k
            BY <4>1, <4>3
          <5>2. f[p] = {Parent[p]} \cup f[Parent[p]]
            BY <2>1, <3>2, <5>1
          <5>. QED
            BY <2>3, <4>2, <5>1, <5>2
        <4>4. CASE ~(p <= k)
          <5>1. g[p] = {Parent[p]} \cup f[Parent[p]]
            BY <2>g, <4>1, <4>4
          <5>. QED
            BY <4>2, <5>1
        <4>. QED
          BY <4>3, <4>4
      <3>. QED
        BY <3>1, <3>2
    <2>5. g = h
      BY <2>g, <2>h, <2>4
    <2>6. AncestorsTo(g, k + 1)
      BY <2>5, <2>h DEF AncestorsTo
    <2>. QED
      BY <2>6
  <1>. QED
    BY <1>1, <1>2, <1>s, NatInduct

LEMMA AncestorsUnfold ==
    /\ Ancestors[Root] = {}
    /\ \A p \in 1..Last : Ancestors[p] = {Parent[p]} \cup Ancestors[Parent[p]]
  <1>1. AncestorsTo(CHOOSE f : AncestorsTo(f, Last), Last)
    BY AncestorsExist
  <1>2. Ancestors = CHOOSE f : AncestorsTo(f, Last)
    BY Zenon DEF Ancestors, AncestorsTo, Paths
  <1>3. Ancestors = [p \in 0..Last |-> IF p = Root THEN {} ELSE {Parent[p]} \cup Ancestors[Parent[p]]]
    BY <1>1, <1>2 DEF AncestorsTo
  <1>4. \A p \in 0..Last : Ancestors[p] = IF p = Root THEN {} ELSE {Parent[p]} \cup Ancestors[Parent[p]]
    BY <1>3
  <1>5. Root \in 0..Last /\ \A p \in 1..Last : p \in 0..Last /\ p # Root
    BY DEF Root
  <1>. QED
    BY <1>4, <1>5
\* What holds of the root, and of a path when it holds of its directory.
LEMMA TreeInduct ==
    ASSUME NEW S, Root \in S, \A p \in 1..Last : Parent[p] \in S => p \in S
    PROVE  Paths \subseteq S
  <1>. SUFFICES ASSUME Paths \ S # {} PROVE FALSE
    OBVIOUS
  <1>1. PICK p \in Paths \ S : \A q \in Paths \ S : p <= q
    <2>1. Paths \ S \in SUBSET Nat
      BY DEF Paths
    <2>. QED
      BY <2>1, LeastNumber
  <1>2. p \in 1..Last
    BY <1>1 DEF Root, Paths
  <1>3. Parent[p] \in Paths /\ Parent[p] < p
    BY <1>2
  <1>4. Parent[p] \in S
    BY <1>1, <1>3 DEF Paths
  <1>. QED
    BY <1>1, <1>2, <1>4

LEMMA AncestorsAreBefore ==
    \A p \in Paths : /\ \A q \in Ancestors[p] : q \in Paths /\ q < p
                     /\ p # Root => Root \in Ancestors[p]
  <1> DEFINE Good(p) == /\ \A q \in Ancestors[p] : q \in Paths /\ q < p
                        /\ p # Root => Root \in Ancestors[p]
  <1>s. PICK S : S = {p \in Paths : Good(p)}
    OBVIOUS
  <1>1. Root \in S
    BY <1>s, AncestorsUnfold DEF Root, Paths
  <1>2. ASSUME NEW p \in 1..Last, Parent[p] \in S PROVE p \in S
    <2>1. Ancestors[p] = {Parent[p]} \cup Ancestors[Parent[p]]
      BY AncestorsUnfold
    <2>2. Parent[p] \in Paths /\ Parent[p] < p /\ p \in Paths
      BY DEF Paths
    <2>3. /\ \A q \in Ancestors[Parent[p]] : q \in Paths /\ q < Parent[p]
          /\ Parent[p] # Root => Root \in Ancestors[Parent[p]]
      <3>1. PICK a : a = Parent[p]
        OBVIOUS
      <3>2. a \in S
        BY <1>2, <3>1
      <3>3. Good(a)
        <4> HIDE DEF Good
        <4>. QED
          BY <1>s, <3>2
      <3>. QED
        BY <3>1, <3>3
    <2>4. ASSUME NEW q \in Ancestors[p] PROVE q \in Paths /\ q < p
      <3>1. CASE q = Parent[p]
        BY <2>2, <3>1
      <3>2. CASE q \in Ancestors[Parent[p]]
        BY <2>2, <2>3, <3>2 DEF Paths
      <3>. QED
        BY <2>1, <2>4, <3>1, <3>2
    <2>5. Root \in Ancestors[p]
      BY <2>1, <2>3
    <2>. QED
      BY <1>s, <2>2, <2>4, <2>5
  <1>3. Paths \subseteq S
    BY <1>1, <1>2, TreeInduct
  <1>4. \A p \in Paths : Good(p)
    <2> HIDE DEF Good
    <2>. QED
      BY <1>3, <1>s
  <1>. QED
    BY <1>4

-----------------------------------------------------------------------------
(* Manifests *)

Record(k, s, t, l) == [kind |-> k, stamp |-> s, time |-> t, leader |-> l]

LEMMA Shapes ==
    /\ Nothing = Record("none", Nothing.stamp, 0, 0)
    /\ \A s, t : Directory(s, t) = Record("directory", s, t, 0)
    /\ \A s : File(s) = Record("file", s, 0, 0)
    /\ \A s : Symlink(s) = Record("symlink", s, 0, 0)
    /\ \A p : HardLink(p) = Record("hardlink", Nothing.stamp, 0, p)
    /\ Nothing.stamp \in Stamps
  <1>0. PICK n : n = CHOOSE s \in Stamps : TRUE
    OBVIOUS
  <1>1. Nothing = Record("none", n, 0, 0)
    BY <1>0 DEF Nothing, Record
  <1>2. n \in Stamps
    BY <1>0, DeltaAssumption
  <1>3. Nothing.stamp = n
    BY <1>1 DEF Record
  <1>r. PICK r : r = [kind |-> "none", stamp |-> n, time |-> 0, leader |-> 0]
    OBVIOUS
  <1>n. Nothing = r
    BY <1>1, <1>r DEF Record
  <1>4. \A s, t : Directory(s, t) = Record("directory", s, t, 0)
    <2>. TAKE s, t
    <2>1. Directory(s, t) = [r EXCEPT !.kind = "directory", !.stamp = s, !.time = t]
      BY <1>n DEF Directory
    <2>2. PICK e : e = [r EXCEPT !.kind = "directory", !.stamp = s, !.time = t]
      OBVIOUS
    <2>3. /\ e.kind = "directory" /\ e.stamp = s /\ e.time = t /\ e.leader = 0
          /\ e = [kind |-> e.kind, stamp |-> e.stamp, time |-> e.time, leader |-> e.leader]
      BY ONLY <1>r, <2>2
    <2>. QED
      BY <2>1, <2>2, <2>3 DEF Record
  <1>5. \A s : File(s) = Record("file", s, 0, 0)
    <2>. TAKE s
    <2>1. File(s) = [r EXCEPT !.kind = "file", !.stamp = s]
      BY <1>n DEF File
    <2>2. PICK e : e = [r EXCEPT !.kind = "file", !.stamp = s]
      OBVIOUS
    <2>3. /\ e.kind = "file" /\ e.stamp = s /\ e.time = 0 /\ e.leader = 0
          /\ e = [kind |-> e.kind, stamp |-> e.stamp, time |-> e.time, leader |-> e.leader]
      BY ONLY <1>r, <2>2
    <2>. QED
      BY <2>1, <2>2, <2>3 DEF Record
  <1>6. \A s : Symlink(s) = Record("symlink", s, 0, 0)
    <2>. TAKE s
    <2>1. Symlink(s) = [r EXCEPT !.kind = "symlink", !.stamp = s]
      BY <1>n DEF Symlink
    <2>2. PICK e : e = [r EXCEPT !.kind = "symlink", !.stamp = s]
      OBVIOUS
    <2>3. /\ e.kind = "symlink" /\ e.stamp = s /\ e.time = 0 /\ e.leader = 0
          /\ e = [kind |-> e.kind, stamp |-> e.stamp, time |-> e.time, leader |-> e.leader]
      BY ONLY <1>r, <2>2
    <2>. QED
      BY <2>1, <2>2, <2>3 DEF Record
  <1>7. \A p : HardLink(p) = Record("hardlink", n, 0, p)
    <2>. TAKE p
    <2>1. HardLink(p) = [r EXCEPT !.kind = "hardlink", !.leader = p]
      BY <1>n DEF HardLink
    <2>2. PICK e : e = [r EXCEPT !.kind = "hardlink", !.leader = p]
      OBVIOUS
    <2>3. /\ e.kind = "hardlink" /\ e.stamp = n /\ e.time = 0 /\ e.leader = p
          /\ e = [kind |-> e.kind, stamp |-> e.stamp, time |-> e.time, leader |-> e.leader]
      BY ONLY <1>r, <2>2
    <2>. QED
      BY <2>1, <2>2, <2>3 DEF Record
  <1>. QED
    BY <1>1, <1>2, <1>3, <1>4, <1>5, <1>6, <1>7

IsListable(e, time) ==
  /\ e = Record(e.kind, e.stamp, e.time, e.leader)
  /\ e.stamp \in Stamps
  /\ e.kind \in {"none", "directory", "file", "symlink", "hardlink"}
  /\ e.kind = "none" => e = Nothing
  /\ e.kind = "directory" => e = Directory(e.stamp, time)
  /\ e.kind = "file" => e = File(e.stamp)
  /\ e.kind = "symlink" => e = Symlink(e.stamp)
  /\ e.kind = "hardlink" => e = HardLink(e.leader)

LEMMA EntriesAreListable ==
    ASSUME NEW time, NEW e \in Entries(time)
    PROVE  IsListable(e, time)
  <1>0. PICK n : n = Nothing.stamp /\ n \in Stamps
    BY Shapes
  <1>1. CASE e = Nothing
    <2>1. e = Record("none", n, 0, 0)
      BY <1>0, <1>1, Shapes
    <2>3. /\ e.kind = "none" /\ e.stamp = n /\ e.time = 0 /\ e.leader = 0
          /\ e = Record(e.kind, e.stamp, e.time, e.leader)
      BY <2>1 DEF Record
    <2>. QED
      BY <1>0, <1>1, <2>3 DEF IsListable
  <1>2. CASE \E s \in Stamps : e = Directory(s, time)
    <2>1. PICK s \in Stamps : e = Directory(s, time)
      BY <1>2
    <2>2. e = Record("directory", s, time, 0)
      BY <2>1, Shapes
    <2>3. /\ e.kind = "directory" /\ e.stamp = s /\ e.time = time /\ e.leader = 0
          /\ e = Record(e.kind, e.stamp, e.time, e.leader)
      BY <2>2 DEF Record
    <2>. QED
      BY <2>1, <2>3 DEF IsListable
  <1>3. CASE \E s \in Stamps : e = File(s)
    <2>1. PICK s \in Stamps : e = File(s)
      BY <1>3
    <2>2. e = Record("file", s, 0, 0)
      BY <2>1, Shapes
    <2>3. /\ e.kind = "file" /\ e.stamp = s /\ e.time = 0 /\ e.leader = 0
          /\ e = Record(e.kind, e.stamp, e.time, e.leader)
      BY <2>2 DEF Record
    <2>. QED
      BY <2>1, <2>3 DEF IsListable
  <1>4. CASE \E s \in Stamps : e = Symlink(s)
    <2>1. PICK s \in Stamps : e = Symlink(s)
      BY <1>4
    <2>2. e = Record("symlink", s, 0, 0)
      BY <2>1, Shapes
    <2>3. /\ e.kind = "symlink" /\ e.stamp = s /\ e.time = 0 /\ e.leader = 0
          /\ e = Record(e.kind, e.stamp, e.time, e.leader)
      BY <2>2 DEF Record
    <2>. QED
      BY <2>1, <2>3 DEF IsListable
  <1>5. CASE \E p \in 1..Last : e = HardLink(p)
    <2>1. PICK p \in 1..Last : e = HardLink(p)
      BY <1>5
    <2>2. e = Record("hardlink", n, 0, p)
      BY <1>0, <2>1, Shapes
    <2>3. /\ e.kind = "hardlink" /\ e.stamp = n /\ e.time = 0 /\ e.leader = p
          /\ e = Record(e.kind, e.stamp, e.time, e.leader)
      BY <2>2 DEF Record
    <2>. QED
      BY <1>0, <2>1, <2>3 DEF IsListable
  <1>. QED
    BY <1>1, <1>2, <1>3, <1>4, <1>5 DEF Entries

\* What a scan lists, of the source or of the baseline.
Manifest(tree, time) ==
  /\ \A p \in Paths : IsListable(tree[p], time)
  /\ tree = [p \in Paths |-> tree[p]]
  /\ tree[Root] = Directory(Nothing.stamp, time)
  /\ \A p \in 1..Last : Present(tree, p) => tree[Parent[p]].kind = "directory"
  /\ \A p \in Paths : tree[p].kind = "hardlink" =>
       /\ tree[p].leader \in Paths /\ tree[p].leader < p
       /\ tree[tree[p].leader].kind = "file"

LEMMA ManifestsAreListable ==
    ASSUME NEW time, NEW tree \in Rooted(time), WellFormed(tree)
    PROVE  Manifest(tree, time)
  <1>1. PICK below \in [1..Last -> Entries(time)] :
          tree = [p \in Paths |-> IF p = Root THEN Directory(Nothing.stamp, time) ELSE below[p]]
    BY DEF Rooted
  <1>2. \A p \in Paths : tree[p] = IF p = Root THEN Directory(Nothing.stamp, time) ELSE below[p]
    BY <1>1
  <1>3. tree = [p \in Paths |-> tree[p]]
    BY <1>1
  <1>4. Root \in Paths /\ tree[Root] = Directory(Nothing.stamp, time)
    BY <1>2 DEF Paths, Root
  <1>5. Directory(Nothing.stamp, time) \in Entries(time)
    BY Shapes DEF Entries
  <1>6. ASSUME NEW p \in Paths PROVE tree[p] \in Entries(time)
    <2>1. CASE p = Root
      BY <1>4, <1>5, <2>1
    <2>2. CASE p # Root
      BY <1>2, <2>2 DEF Paths, Root
    <2>. QED
      BY <2>1, <2>2
  <1>7. \A p \in Paths : IsListable(tree[p], time)
    BY <1>6, EntriesAreListable
  <1>8. ASSUME NEW p \in Paths, tree[p].kind = "hardlink"
        PROVE  tree[p].leader \in Paths
    <2>0. tree[p] \in Entries(time)
      BY <1>6
    <2>1. PICK q \in 1..Last : tree[p] = HardLink(q)
      <3>1. tree[p] # Nothing
        BY <1>8, Shapes DEF Record
      <3>2. \A s \in Stamps : tree[p] # Directory(s, time)
        BY <1>8, Shapes DEF Record
      <3>3. \A s \in Stamps : tree[p] # File(s) /\ tree[p] # Symlink(s)
        BY <1>8, Shapes DEF Record
      <3>. QED
        BY <2>0, <3>1, <3>2, <3>3 DEF Entries
    <2>2. tree[p].leader = q
      BY <2>1, Shapes DEF Record
    <2>. QED
      BY <2>2 DEF Paths
  <1>. QED
    BY <1>3, <1>4, <1>7, <1>8 DEF Manifest, WellFormed

\* Above what is there are directories only.
LEMMA AncestorsAreDirectories ==
    ASSUME NEW tree, NEW time, Manifest(tree, time)
    PROVE  \A p \in Paths : Present(tree, p) =>
             \A q \in Ancestors[p] : tree[q].kind = "directory"
  <1>s. PICK S : S = {p \in Paths : Present(tree, p) =>
                        \A q \in Ancestors[p] : tree[q].kind = "directory"}
    OBVIOUS
  <1>1. Root \in S
    BY <1>s, AncestorsUnfold DEF Root, Paths
  <1>2. ASSUME NEW p \in 1..Last, Parent[p] \in S PROVE p \in S
    <2>1. Ancestors[p] = {Parent[p]} \cup Ancestors[Parent[p]] /\ p \in Paths
      BY AncestorsUnfold DEF Paths
    <2>2. SUFFICES ASSUME Present(tree, p)
                   PROVE  \A q \in Ancestors[p] : tree[q].kind = "directory"
      BY <1>s, <2>1
    <2>3. tree[Parent[p]].kind = "directory"
      BY <2>2 DEF Manifest
    <2>4. Present(tree, Parent[p])
      BY <2>3 DEF Present
    <2>. QED
      BY <1>s, <1>2, <2>1, <2>3, <2>4
  <1>3. Paths \subseteq S
    BY <1>1, <1>2, TreeInduct
  <1>. QED
    BY <1>3, <1>s
LEMMA AncestorsAreTransitive ==
    \A p \in Paths : \A q \in Ancestors[p] : Ancestors[q] \subseteq Ancestors[p]
  <1>s. PICK S : S = {p \in Paths : \A q \in Ancestors[p] : Ancestors[q] \subseteq Ancestors[p]}
    OBVIOUS
  <1>1. Root \in S
    BY <1>s, AncestorsUnfold DEF Root, Paths
  <1>2. ASSUME NEW p \in 1..Last, Parent[p] \in S PROVE p \in S
    <2>1. Ancestors[p] = {Parent[p]} \cup Ancestors[Parent[p]] /\ p \in Paths
      BY AncestorsUnfold DEF Paths
    <2>. QED
      BY <1>s, <1>2, <2>1
  <1>3. Paths \subseteq S
    BY <1>1, <1>2, TreeInduct
  <1>. QED
    BY <1>3, <1>s

\* A file of the tree, or another name of one, on disk.
LEMMA DiskOfManifest ==
    ASSUME NEW tree, NEW time, Manifest(tree, time), NEW p \in Paths
    PROVE  /\ ~IsFile(tree, p) => OnDisk(tree)[p] = tree[p]
           /\ IsFile(tree, p) =>
                /\ Leader(tree, p) \in Paths /\ Leader(tree, p) <= p
                /\ tree[Leader(tree, p)].kind = "file"
                /\ OnDisk(tree)[p] = Record("file", tree[Leader(tree, p)].stamp, 0, Leader(tree, p))
  <1>0. OnDisk(tree)[p] = CASE tree[p].kind = "hardlink" ->
                               [tree[tree[p].leader] EXCEPT !.leader = tree[p].leader]
                          [] tree[p].kind = "file" -> [tree[p] EXCEPT !.leader = p]
                          [] OTHER -> tree[p]
    BY DEF OnDisk
  <1>1. CASE tree[p].kind = "hardlink"
    <2>0. PICK l \in Paths : l = tree[p].leader /\ l < p /\ tree[l].kind = "file"
      BY <1>1 DEF Manifest
    <2>1. tree[l] = Record("file", tree[l].stamp, 0, 0)
      BY <2>0, Shapes DEF Manifest, IsListable
    <2>2. OnDisk(tree)[p] = [tree[l] EXCEPT !.leader = l]
      BY <1>0, <1>1, <2>0
    <2>3. OnDisk(tree)[p] = Record("file", tree[l].stamp, 0, l)
      BY <2>1, <2>2 DEF Record
    <2>4. Leader(tree, p) = l /\ l <= p
      BY <1>1, <2>0 DEF Leader, Paths
    <2>. QED
      BY <1>1, <2>0, <2>3, <2>4 DEF IsFile
  <1>2. CASE tree[p].kind = "file"
    <2>1. tree[p] = Record("file", tree[p].stamp, 0, 0)
      BY <1>2, Shapes DEF Manifest, IsListable
    <2>2. OnDisk(tree)[p] = [tree[p] EXCEPT !.leader = p]
      BY <1>0, <1>2
    <2>3. OnDisk(tree)[p] = Record("file", tree[p].stamp, 0, p)
      BY <2>1, <2>2 DEF Record
    <2>4. Leader(tree, p) = p /\ p <= p
      BY <1>2 DEF Leader, Paths
    <2>. QED
      BY <1>2, <2>3, <2>4 DEF IsFile
  <1>3. CASE ~IsFile(tree, p)
    BY <1>0, <1>3 DEF IsFile
  <1>. QED
    BY <1>1, <1>2, <1>3 DEF IsFile

-----------------------------------------------------------------------------
(* The delta *)

LEMMA UnchangedAgree ==
    ASSUME Manifest(previous, 0), Manifest(current, 1), NEW p \in Paths
    PROVE  /\ p \in Tombstones => p \in Changed /\ p # Root
           /\ p \notin Changed =>
                /\ previous[p].kind = current[p].kind
                /\ current[p].kind # "hardlink" => previous[p].stamp = current[p].stamp
                /\ current[p].kind = "hardlink" => previous[p].leader = current[p].leader
  <1>1. p \in Tombstones => p \in Changed
    BY DEF Tombstones, Present, Changed, Modified
  <1>2. current[Root].kind = "directory"
    BY Shapes DEF Manifest, Record
  <1>3. p \in Tombstones => p # Root
    BY <1>2 DEF Tombstones, Present
  <1>4. p \notin Changed =>
           /\ previous[p].kind = current[p].kind
           /\ current[p].kind # "hardlink" => previous[p].stamp = current[p].stamp
           /\ current[p].kind = "hardlink" => previous[p].leader = current[p].leader
    BY DEF Changed, Modified, MetadataChanged
  <1>. QED
    BY <1>1, <1>3, <1>4

LEMMA ExpandedArePaths ==
    ASSUME Manifest(current, 1)
    PROVE  Expanded \subseteq Paths
  <1>1. ASSUME NEW p \in Paths PROVE Group(current, p) \subseteq Paths
    BY DEF Group, Links, Manifest
  <1>. QED
    BY <1>1 DEF Expanded, Changed

LEMMA WantedIsUpwardClosed ==
    ASSUME Manifest(current, 1), NEW p \in Wanted
    PROVE  p \in Paths /\ Ancestors[p] \subseteq Wanted
  <1>0. p \in Paths
    BY ExpandedArePaths, AncestorsAreBefore DEF Wanted, Root, Paths
  <1>1. CASE p = Root
    BY <1>0, <1>1, AncestorsUnfold
  <1>2. CASE p \in Expanded
    BY <1>0, <1>2 DEF Wanted
  <1>3. CASE \E q \in Expanded : p \in Ancestors[q]
    <2>1. PICK q \in Expanded : p \in Ancestors[q]
      BY <1>3
    <2>2. q \in Paths
      BY ExpandedArePaths
    <2>3. Ancestors[p] \subseteq Ancestors[q]
      BY <2>1, <2>2, AncestorsAreTransitive
    <2>. QED
      BY <1>0, <2>1, <2>3 DEF Wanted
  <1>. QED
    BY <1>0, <1>1, <1>2, <1>3 DEF Wanted

LEMMA SourceFilesGoThemselves ==
    ASSUME Manifest(previous, 0), Manifest(current, 1),
           NEW p \in Wanted, IsFile(current, p)
    PROVE  p \in Expanded
  <1>1. p \in Paths /\ p # Root
    <2>1. current[Root].kind = "directory"
      BY Shapes DEF Manifest, Record
    <2>. QED
      BY <2>1, WantedIsUpwardClosed DEF IsFile
  <1>2. CASE \E q \in Expanded : p \in Ancestors[q]
    <2>1. PICK q \in Expanded : p \in Ancestors[q]
      BY <1>2
    <2>2. q \in Paths
      BY ExpandedArePaths
    <2>3. ~Present(current, q)
      BY <2>1, <2>2, AncestorsAreDirectories DEF IsFile
    <2>4. q \in Changed
      <3>1. ASSUME NEW r \in Changed, Present(current, r), q \in Group(current, r)
            PROVE  Present(current, q)
        BY <3>1 DEF Group, Links, Manifest, Present, Changed
      <3>. QED
        BY <2>3, <3>1 DEF Expanded
    <2>5. Present(previous, q)
      <3>. SUFFICES ASSUME ~Present(previous, q) PROVE FALSE
        OBVIOUS
      <3>1. previous[q] = Nothing /\ current[q] = Nothing
        BY <2>2, <2>3 DEF Manifest, IsListable, Present
      <3>2. Nothing.kind = "none"
        BY Shapes DEF Record
      <3>3. Links(previous, q) = {} /\ Links(current, q) = {}
        BY <3>1, <3>2 DEF Links, Manifest
      <3>. QED
        BY <2>4, <3>1, <3>2, <3>3 DEF Changed, Modified, MetadataChanged
    <2>6. previous[p].kind = "directory"
      BY <2>1, <2>2, <2>5, AncestorsAreDirectories
    <2>. QED
      BY <1>1, <2>6, UnchangedAgree DEF IsFile, Expanded
  <1>. QED
    BY <1>1, <1>2 DEF Wanted

LEMMA GroupsGoWhole ==
    ASSUME Manifest(previous, 0), Manifest(current, 1),
           NEW p \in ActivePaths, NEW q \in Paths, IsFile(current, p), IsFile(current, q),
           Leader(current, p) = Leader(current, q)
    PROVE  q \in ActivePaths
  <1>1. p \in Wanted /\ p \in Expanded /\ p \in Paths
    BY SourceFilesGoThemselves, WantedIsUpwardClosed DEF ActivePaths, Payload
  <1>2. Present(current, p) /\ Present(current, q)
    BY DEF IsFile, Present
  <1>3. \A r \in Paths : IsFile(current, r) =>
          Group(current, r) = {Leader(current, r)} \cup Links(current, Leader(current, r))
    BY DEF Group, Leader
  <1>4. \A r \in Paths : IsFile(current, r) =>
          r \in {Leader(current, r)} \cup Links(current, Leader(current, r))
    BY DEF Leader, Links
  <1>5. CASE p \in Changed
    BY <1>1, <1>2, <1>3, <1>4, <1>5 DEF Expanded, Wanted, Payload, ActivePaths
  <1>6. CASE p \notin Changed
    <2>1. PICK r \in Changed : Present(current, r) /\ p \in Group(current, r)
      BY <1>1, <1>6 DEF Expanded
    <2>2. r \in Paths
      BY DEF Changed
    <2>3. CASE IsFile(current, r)
      <3>1. current[Leader(current, r)].kind = "file"
        BY <2>2, <2>3, DiskOfManifest
      <3>2. Leader(current, p) = Leader(current, r)
        BY <1>3, <2>1, <2>2, <2>3, <3>1 DEF Leader, Links
      <3>3. q \in Group(current, r)
        BY <1>3, <1>4, <2>2, <2>3, <3>2
      <3>. QED
        BY <1>1, <1>2, <2>1, <3>3 DEF Expanded, Wanted, Payload, ActivePaths
    <2>4. CASE ~IsFile(current, r)
      <3>1. Group(current, r) = {r} \cup Links(current, r)
        BY <2>4 DEF Group, IsFile
      <3>2. p \in Links(current, r)
        BY <2>1, <2>4, <3>1
      <3>. QED
        BY <2>4, <3>2 DEF Links, Manifest, IsFile
    <2>. QED
      BY <2>3, <2>4
  <1>. QED
    BY <1>5, <1>6

\* The directories above what goes, or is gone, go too.
LEMMA ParentsGo ==
    ASSUME Manifest(previous, 0), Manifest(current, 1), Changed # {},
           NEW p \in ActivePaths \cup Tombstones, p # Root
    PROVE  /\ p \in 1..Last
           /\ Parent[p] \in Wanted
           /\ Present(current, Parent[p]) => Parent[p] \in ActivePaths
  <1>1. p \in Wanted
    <2>1. ASSUME p \in Tombstones PROVE p \in Changed
      BY <2>1, UnchangedAgree DEF Tombstones
    <2>. QED
      BY <2>1 DEF Wanted, Expanded, ActivePaths, Payload
  <1>2. p \in Paths /\ Ancestors[p] \subseteq Wanted
    BY <1>1, WantedIsUpwardClosed
  <1>3. p \in 1..Last
    BY <1>2 DEF Paths, Root
  <1>4. Parent[p] \in Wanted
    BY <1>2, <1>3, AncestorsUnfold
  <1>. QED
    BY <1>3, <1>4 DEF ActivePaths, Payload

-----------------------------------------------------------------------------
(* The restore begins *)

LEMMA ManifestsOfTheDelta ==
    ASSUME Fixed
    PROVE  Manifest(previous, 0) /\ Manifest(current, 1)
  BY ManifestsAreListable DEF Fixed, OldManifests, NewManifests

\* The baseline, as the restore of it leaves it.
LEMMA DiskIsAsInBaseline ==
    ASSUME Manifest(previous, 0), NEW p \in Paths, staging[p] = OnDisk(previous)[p]
    PROVE  AsInBaseline(p)
  <1>1. CASE previous[p].kind = "directory"
    <2>1. OnDisk(previous)[p] = previous[p]
      BY <1>1, DiskOfManifest DEF IsFile
    <2>2. previous[p] = Directory(previous[p].stamp, 0)
      BY <1>1 DEF Manifest, IsListable
    <2>. QED
      BY <1>1, <2>1, <2>2 DEF AsInBaseline, Times
  <1>2. CASE previous[p].kind # "directory"
    BY <1>2 DEF AsInBaseline
  <1>. QED
    BY <1>1, <1>2

LEMMA DeltaInvStart == DeltaInit => DeltaInv
  <1>. SUFFICES ASSUME DeltaInit PROVE DeltaInv
    OBVIOUS
  <1>m. Manifest(previous, 0) /\ Manifest(current, 1)
    BY ManifestsAreListable DEF DeltaInit, OldManifests, NewManifests
  <1>t. Tombstones \subseteq Changed /\ Tombstones \subseteq Paths /\ Root \notin Tombstones
    BY <1>m, UnchangedAgree DEF Tombstones
  <1>a. Changed # {} => Root \in ActivePaths
    <2>1. Present(current, Root)
      BY <1>m, Shapes DEF Manifest, Record, Present
    <2>. QED
      BY <2>1 DEF ActivePaths, Payload, Wanted
  <1>o. todo = ActivePaths \ {Root} /\ (opened = IF Changed = {} THEN {} ELSE {Root})
    BY DEF DeltaInit, ActivePaths
  <1>e. EnteredPaths = IF Changed = {} THEN {} ELSE {Root}
    BY <1>a, <1>o DEF EnteredPaths, ActivePaths
  <1>s. \A p \in Paths : staging[p] = OnDisk(previous)[p] /\ AsInBaseline(p)
    BY <1>m, DiskIsAsInBaseline DEF DeltaInit
  <1>1. Fixed
    <2>1. previous \in OldManifests /\ current \in NewManifests /\ doomed = Tombstones
      BY DEF DeltaInit
    <2>2. todo \subseteq ActivePaths \ {Root} /\ opened \subseteq EnteredPaths
      BY <1>o, <1>e
    <2>3. inodes \in [Paths -> Paths]
      BY DEF DeltaInit, Paths
    <2>4. staging = [p \in Paths |-> staging[p]]
      <3>1. staging = OnDisk(previous)
        BY DEF DeltaInit
      <3>2. OnDisk(previous) = [p \in Paths |-> OnDisk(previous)[p]]
        BY DEF OnDisk
      <3>. QED
        BY <3>1, <3>2
    <2>5. doomed # {} => todo = ActivePaths \ {Root} /\ opened = {Root}
      BY <1>t, <1>o, <2>1
    <2>. QED
      BY <2>1, <2>2, <2>3, <2>4, <2>5 DEF Fixed
  <1>2. GoneInv
    <2>1. ASSUME NEW p \in Paths, ~Present(current, p), p \notin doomed
          PROVE  staging[p] = Nothing
      <3>1. ~Present(previous, p)
        BY <2>1 DEF DeltaInit, Tombstones
      <3>2. previous[p] = Nothing
        BY <1>m, <3>1 DEF Manifest, IsListable, Present
      <3>3. ~IsFile(previous, p)
        BY <3>1 DEF IsFile, Present
      <3>. QED
        BY <1>m, <1>s, <3>2, <3>3, DiskOfManifest
    <2>. QED
      BY <1>s, <2>1 DEF GoneInv
  <1>3. KeptInv
    BY <1>s DEF KeptInv
  <1>4. NewInv
    <2>1. CASE Changed = {}
      BY <1>e, <2>1 DEF NewInv
    <2>2. CASE Changed # {}
      <3>1. Ancestors[Root] = {} /\ current[Root].kind = "directory" /\ Root \in Paths
        BY <1>m, AncestorsUnfold, Shapes DEF Manifest, Record, Root, Paths
      <3>2. previous[Root] = Directory(Nothing.stamp, 0) /\ previous[Root].kind = "directory"
        BY <1>m, Shapes DEF Manifest, Record
      <3>3. \E s \in Stamps, t \in Times : staging[Root] = Directory(s, t)
        BY <1>m, <1>s, <3>1, <3>2, DiskOfManifest, Shapes DEF IsFile, Times
      <3>. QED
        BY <1>e, <1>o, <2>2, <3>1, <3>3 DEF NewInv, IsFile
    <2>. QED
      BY <2>1, <2>2
  <1>5. InodesInv
    BY DEF DeltaInit, InodesInv
  <1>. QED
    BY <1>1, <1>2, <1>3, <1>4, <1>5 DEF DeltaInv

-----------------------------------------------------------------------------
(* What a step writes *)

\* Path p is node now; only the time of its directory may have changed with it.
Overwritten(p, node) ==
  /\ staging' = [q \in Paths |-> staging'[q]]
  /\ staging'[p] = node
  /\ \A q \in Paths \ {p} :
       \/ staging'[q] = staging[q]
       \/ q = Parent[p] /\ \E s \in Stamps, t \in Times :
            staging[q] = Directory(s, t) /\ staging'[q] = Directory(s, Now)

LEMMA TouchedParent ==
    ASSUME NEW tree, tree = [q \in Paths |-> tree[q]], NEW p \in 1..Last,
           NEW s, NEW t, tree[Parent[p]] = Directory(s, t)
    PROVE  /\ Touched(tree, p) = [q \in Paths |-> Touched(tree, p)[q]]
           /\ Touched(tree, p)[Parent[p]] = Directory(s, Now)
           /\ \A q \in Paths \ {Parent[p]} : Touched(tree, p)[q] = tree[q]
  <1>1. Parent[p] \in Paths
    OBVIOUS
  <1>2. PICK r : r = [tree[Parent[p]] EXCEPT !.time = Now]
    OBVIOUS
  <1>3. PICK touched : touched = Touched(tree, p)
    OBVIOUS
  <1>4. touched = [q \in Paths |-> IF q = Parent[p] THEN r ELSE tree[q]]
    <2>1. touched = [tree EXCEPT ![Parent[p]] = r]
      BY <1>2, <1>3 DEF Touched
    <2>. QED
      BY <1>1, <2>1
  <1>5. r = Directory(s, Now)
    <2>1. tree[Parent[p]] = [kind |-> "directory", stamp |-> s, time |-> t, leader |-> 0]
      BY Shapes DEF Record
    <2>2. PICK n : n = Now
      OBVIOUS
    <2>3. /\ r.kind = "directory" /\ r.stamp = s /\ r.time = n /\ r.leader = 0
          /\ r = [kind |-> r.kind, stamp |-> r.stamp, time |-> r.time, leader |-> r.leader]
      BY ONLY <1>2, <2>1, <2>2
    <2>. QED
      BY <2>2, <2>3, Shapes DEF Record
  <1>. QED
    BY <1>1, <1>3, <1>4, <1>5

LEMMA RemovalIsWritten ==
    ASSUME NEW p \in 1..Last, staging = [q \in Paths |-> staging[q]],
           NEW s \in Stamps, NEW t \in Times, staging[Parent[p]] = Directory(s, t),
           \A q \in Below(p) : staging[q] = Nothing,
           staging' = RemoveTree(staging, p)
    PROVE  Overwritten(p, Nothing)
  <1>0. p \in Paths /\ Parent[p] \in Paths /\ Parent[p] # p
    BY DEF Paths
  <1>1. PICK tree : tree = [q \in Paths |-> IF q = p \/ q \in Below(p) THEN Nothing ELSE staging[q]]
    OBVIOUS
  <1>2. \A q \in Paths : tree[q] = IF q = p THEN Nothing ELSE staging[q]
    BY <1>1
  <1>3. tree[Parent[p]] = Directory(s, t) /\ tree = [q \in Paths |-> tree[q]]
    BY <1>0, <1>1, <1>2
  <1>4. staging' = Touched(tree, p)
    BY <1>1 DEF RemoveTree
  <1>5. /\ staging' = [q \in Paths |-> staging'[q]]
        /\ staging'[Parent[p]] = Directory(s, Now)
        /\ \A q \in Paths \ {Parent[p]} : staging'[q] = tree[q]
    <2>1. PICK x : x = Touched(tree, p)
      OBVIOUS
    <2>2. x = [q \in Paths |-> x[q]] /\ x[Parent[p]] = Directory(s, Now)
          /\ \A q \in Paths \ {Parent[p]} : x[q] = tree[q]
      BY <1>3, <2>1, TouchedParent
    <2>. QED
      BY <1>4, <2>1, <2>2
  <1>. QED
    BY <1>0, <1>2, <1>5 DEF Overwritten

LEMMA EntryIsWritten ==
    ASSUME NEW p \in 1..Last, staging = [q \in Paths |-> staging[q]],
           NEW s \in Stamps, NEW t \in Times, staging[Parent[p]] = Directory(s, t),
           \A q \in Below(p) : staging[q] = Nothing, NEW node,
           staging' = Touched([EnsureRemoved(p) EXCEPT ![p] = node], p)
    PROVE  Overwritten(p, node)
  <1>0. p \in Paths /\ Parent[p] \in Paths /\ Parent[p] # p
    BY DEF Paths
  <1>1. PICK tree : tree = EnsureRemoved(p)
    OBVIOUS
  <1>2. /\ tree = [q \in Paths |-> tree[q]]
        /\ \E u \in Times : tree[Parent[p]] = Directory(s, u)
        /\ \A q \in Paths \ {p, Parent[p]} : tree[q] = staging[q]
    <2>1. CASE ~Present(staging, p)
      BY <1>0, <1>1, <2>1 DEF EnsureRemoved
    <2>2. CASE Present(staging, p)
      <3>1. PICK rest : rest = [q \in Paths |-> IF q = p \/ q \in Below(p) THEN Nothing ELSE staging[q]]
        OBVIOUS
      <3>2. \A q \in Paths : rest[q] = IF q = p THEN Nothing ELSE staging[q]
        BY <3>1
      <3>3. rest[Parent[p]] = Directory(s, t) /\ rest = [q \in Paths |-> rest[q]]
        BY <1>0, <3>1, <3>2
      <3>4. tree = Touched(rest, p)
        BY <1>1, <2>2, <3>1 DEF RemoveTree, EnsureRemoved
      <3>5. /\ tree = [q \in Paths |-> tree[q]]
            /\ tree[Parent[p]] = Directory(s, Now)
            /\ \A q \in Paths \ {Parent[p]} : tree[q] = rest[q]
        BY <3>3, <3>4, TouchedParent
      <3>. QED
        BY <3>2, <3>5 DEF Times
    <2>. QED
      BY <2>1, <2>2
  <1>3. PICK u \in Times : tree[Parent[p]] = Directory(s, u)
    BY <1>2
  <1>4. PICK new : new = [tree EXCEPT ![p] = node]
    OBVIOUS
  <1>5. \A q \in Paths : new[q] = IF q = p THEN node ELSE tree[q]
    BY <1>2, <1>4
  <1>6. new = [q \in Paths |-> new[q]] /\ new[Parent[p]] = Directory(s, u)
    BY <1>0, <1>2, <1>3, <1>4, <1>5
  <1>7. staging' = Touched(new, p)
    BY <1>1, <1>4
  <1>8. /\ staging' = [q \in Paths |-> staging'[q]]
        /\ staging'[Parent[p]] = Directory(s, Now)
        /\ \A q \in Paths \ {Parent[p]} : staging'[q] = new[q]
    <2>1. PICK x : x = Touched(new, p)
      OBVIOUS
    <2>2. x = [q \in Paths |-> x[q]] /\ x[Parent[p]] = Directory(s, Now)
          /\ \A q \in Paths \ {Parent[p]} : x[q] = new[q]
      BY <1>6, <2>1, TouchedParent
    <2>. QED
      BY <1>7, <2>1, <2>2
  <1>. QED
    BY <1>0, <1>2, <1>5, <1>8 DEF Overwritten

LEMMA PlanIsFixed ==
    ASSUME UNCHANGED <<previous, current>>
    PROVE  /\ ActivePaths' = ActivePaths /\ Tombstones' = Tombstones /\ Changed' = Changed
           /\ OnDisk(previous)' = OnDisk(previous)
           /\ \A p \in Paths : /\ Present(current, p)' <=> Present(current, p)
                               /\ IsFile(current, p)' <=> IsFile(current, p)
                               /\ Leader(current, p)' = Leader(current, p)
  <1>1. Changed' = Changed /\ Tombstones' = Tombstones
    BY DEF Changed, Tombstones, Present, Modified, MetadataChanged
  <1>2. Expanded' = Expanded
    BY <1>1 DEF Expanded, Present
  <1>3. Wanted' = Wanted
    BY <1>2 DEF Wanted
  <1>4. ActivePaths' = ActivePaths
    BY <1>1, <1>3 DEF ActivePaths, Payload, Present
  <1>5. OnDisk(previous)' = OnDisk(previous)
    OBVIOUS
  <1>6. \A p \in Paths : /\ Present(current, p)' <=> Present(current, p)
                         /\ IsFile(current, p)' <=> IsFile(current, p)
                         /\ Leader(current, p)' = Leader(current, p)
    BY DEF Present, IsFile, Leader
  <1>. QED
    BY <1>1, <1>4, <1>5, <1>6

\* A directory not merged yet can be written to, and stays what it was but for its time.
LEMMA WritingKeepsTheBaseline ==
    ASSUME Manifest(previous, 0), UNCHANGED <<previous, current>>,
           NEW p \in 1..Last, NEW node, Overwritten(p, node), NEW q \in Paths, q # p, AsInBaseline(q)
    PROVE  AsInBaseline(q)'
  <1>1. CASE staging'[q] = staging[q]
    BY <1>1, PlanIsFixed DEF AsInBaseline
  <1>2. CASE \E s \in Stamps, t \in Times :
               staging[q] = Directory(s, t) /\ staging'[q] = Directory(s, Now)
    <2>1. PICK s \in Stamps, t \in Times :
                 staging[q] = Directory(s, t) /\ staging'[q] = Directory(s, Now)
      BY <1>2
    <2>2. staging[q].kind = "directory" /\ staging[q].stamp = s
      BY <2>1, Shapes DEF Record
    <2>3. previous[q].kind = "directory"
      <3>1. SUFFICES ASSUME previous[q].kind # "directory" PROVE FALSE
        OBVIOUS
      <3>2. staging[q] = OnDisk(previous)[q]
        BY <3>1 DEF AsInBaseline
      <3>3. OnDisk(previous)[q].kind # "directory"
        <4>1. CASE IsFile(previous, q)
          <5>1. PICK r, l : OnDisk(previous)[q] = Record("file", r, 0, l)
            BY <4>1, DiskOfManifest
          <5>. QED
            BY <5>1 DEF Record
        <4>2. CASE ~IsFile(previous, q)
          BY <3>1, <4>2, DiskOfManifest
        <4>. QED
          BY <4>1, <4>2
      <3>. QED
        BY <2>2, <3>2, <3>3
    <2>4. previous[q].stamp = s
      BY <2>2, <2>3, Shapes DEF AsInBaseline, Record
    <2>. QED
      BY <2>1, <2>3, <2>4 DEF AsInBaseline, Times
  <1>. QED
    BY <1>1, <1>2 DEF Overwritten

LEMMA CopyIsAFile ==
    \A l : Copy(l) = Record("file", current[l].stamp, 0, NewInode(inodes[l]))
  <1>. TAKE l
  <1>1. PICK f : f = File(current[l].stamp)
    OBVIOUS
  <1>2. PICK n : n = NewInode(inodes[l])
    OBVIOUS
  <1>3. PICK s : s = current[l].stamp
    OBVIOUS
  <1>4. f = [kind |-> "file", stamp |-> s, time |-> 0, leader |-> 0]
    BY <1>1, <1>3, Shapes DEF Record
  <1>5. PICK e : e = [f EXCEPT !.leader = n]
    OBVIOUS
  <1>6. /\ e.kind = "file" /\ e.stamp = s /\ e.time = 0 /\ e.leader = n
        /\ e = [kind |-> e.kind, stamp |-> e.stamp, time |-> e.time, leader |-> e.leader]
    BY ONLY <1>4, <1>5
  <1>7. Copy(l) = e
    BY <1>1, <1>2, <1>5 DEF Copy
  <1>. QED
    BY <1>2, <1>3, <1>6, <1>7 DEF Record

\* What is no directory is left alone by what is written to another path.
LEMMA OthersAreNotWritten ==
    ASSUME NEW p, NEW node, Overwritten(p, node), NEW q \in Paths, q # p,
           \A s \in Stamps, t \in Times : staging[q] # Directory(s, t)
    PROVE  staging'[q] = staging[q]
  BY DEF Overwritten

LEMMA TombstoneKeepsInv ==
    ASSUME DeltaInv, NEW p \in Paths, ApplyTombstone(p)
    PROVE  DeltaInv'
  <1>m. Manifest(previous, 0) /\ Manifest(current, 1) /\ Fixed
    BY ManifestsOfTheDelta DEF DeltaInv
  <1>u. /\ UNCHANGED <<previous, current>> /\ UNCHANGED <<todo, opened, inodes>>
        /\ doomed' = doomed \ {p} /\ p \in doomed /\ Below(p) \cap doomed = {}
    BY DEF ApplyTombstone
  <1>0. /\ p \in Tombstones /\ p # Root /\ p \in Changed /\ Changed # {}
        /\ Present(previous, p) /\ ~Present(current, p)
    BY <1>m, <1>u, UnchangedAgree DEF Fixed, Tombstones
  <1>p. p \in 1..Last /\ (Present(current, Parent[p]) => Parent[p] \in ActivePaths)
    BY <1>m, <1>0, ParentsGo
  <1>e. EnteredPaths = {Root} /\ opened = {Root} /\ todo = ActivePaths \ {Root} /\ Root \in ActivePaths
    <2>1. todo = ActivePaths \ {Root} /\ opened = {Root} /\ opened \subseteq EnteredPaths
      BY <1>m, <1>u DEF Fixed
    <2>. QED
      BY <2>1 DEF EnteredPaths
  <1>d. PICK s \in Stamps, t \in Times : staging[Parent[p]] = Directory(s, t)
    <2>1. Parent[p] \in Paths /\ previous[Parent[p]].kind = "directory"
          /\ previous[Parent[p]].stamp \in Stamps
      BY <1>m, <1>0, <1>p DEF Manifest, IsListable
    <2>2. AsInBaseline(Parent[p]) => \E s \in Stamps, t \in Times : staging[Parent[p]] = Directory(s, t)
      BY <2>1 DEF AsInBaseline
    <2>3. CASE Parent[p] = Root
      <3>1. current[Root].kind = "directory"
        BY <1>m, Shapes DEF Manifest, Record
      <3>. QED
        BY <1>e, <2>3, <3>1 DEF DeltaInv, NewInv
    <2>4. CASE Parent[p] # Root /\ Present(current, Parent[p])
      BY <1>e, <2>1, <2>2, <2>4 DEF DeltaInv, KeptInv
    <2>5. CASE ~Present(current, Parent[p])
      <3>1. Parent[p] \in Tombstones
        BY <2>1, <2>5 DEF Tombstones, Present
      <3>2. Parent[p] \in doomed
        BY <1>m, <1>u, <3>1 DEF Fixed
      <3>. QED
        BY <2>1, <2>2, <2>5, <3>2 DEF DeltaInv, GoneInv
    <2>. QED
      BY <2>3, <2>4, <2>5
  <1>b. \A q \in Below(p) : staging[q] = Nothing
    <2>1. SUFFICES ASSUME NEW q \in Below(p) PROVE staging[q] = Nothing
      OBVIOUS
    <2>2. q \in Paths /\ p \in Ancestors[q]
      BY DEF Below
    <2>3. ~Present(current, q)
      BY <1>m, <1>0, <2>2, AncestorsAreDirectories DEF Present
    <2>. QED
      BY <1>u, <2>2, <2>3 DEF DeltaInv, GoneInv
  <1>n. Nothing.kind = "none"
    BY Shapes DEF Record
  <1>w. Overwritten(p, Nothing)
    <2>1. AsInBaseline(p)
      BY <1>0, <1>u DEF DeltaInv, GoneInv
    <2>2. Present(staging, p)
      <3>1. CASE previous[p].kind = "directory"
        BY <2>1, <3>1, Shapes DEF AsInBaseline, Record, Present
      <3>2. CASE previous[p].kind # "directory" /\ ~IsFile(previous, p)
        BY <1>m, <1>0, <2>1, <3>2, DiskOfManifest DEF AsInBaseline, Present
      <3>3. CASE IsFile(previous, p)
        <4>1. PICK r, l : OnDisk(previous)[p] = Record("file", r, 0, l)
          BY <1>m, <3>3, DiskOfManifest
        <4>. QED
          BY <2>1, <3>3, <4>1 DEF AsInBaseline, Record, Present, IsFile
      <3>. QED
        BY <3>1, <3>2, <3>3
    <2>3. staging' = RemoveTree(staging, p)
      BY <2>2 DEF ApplyTombstone
    <2>. QED
      BY <1>m, <1>p, <1>d, <1>b, <2>3, RemovalIsWritten DEF Fixed
  <1>f. ActivePaths' = ActivePaths /\ Tombstones' = Tombstones /\ EnteredPaths' = EnteredPaths
    BY <1>u, PlanIsFixed DEF EnteredPaths
  <1>1. Fixed'
    <2>1. \A q \in doomed' : Parent[q] \in Tombstones => Parent[q] \in doomed'
      <3>1. SUFFICES ASSUME NEW q \in doomed', Parent[q] \in Tombstones PROVE Parent[q] \in doomed'
        OBVIOUS
      <3>2. q \in doomed /\ q \in Tombstones
        BY <1>m, <1>u DEF Fixed
      <3>3. q \in 1..Last
        BY <1>m, <3>2, UnchangedAgree DEF Tombstones, Paths, Root
      <3>4. Parent[q] # p
        BY <1>u, <3>2, <3>3, AncestorsUnfold DEF Below, Paths
      <3>. QED
        BY <1>m, <1>u, <3>1, <3>2, <3>4 DEF Fixed
    <2>2. staging' = [q \in Paths |-> staging'[q]]
      BY <1>w DEF Overwritten
    <2>3. doomed' \subseteq Tombstones' /\ todo' \subseteq ActivePaths' \ {Root} /\ opened' \subseteq EnteredPaths'
      BY <1>m, <1>u, <1>f DEF Fixed
    <2>4. doomed' # {} => todo' = ActivePaths' \ {Root} /\ opened' = {Root}
      BY <1>e, <1>u, <1>f
    <2>. QED
      BY <1>m, <1>u, <1>f, <2>1, <2>2, <2>3, <2>4 DEF Fixed
  <1>2. GoneInv'
    <2>1. ASSUME NEW q \in Paths, ~Present(current, q), q \in doomed'
          PROVE  AsInBaseline(q)'
      BY <1>m, <1>u, <1>p, <1>w, <2>1, WritingKeepsTheBaseline DEF DeltaInv, GoneInv
    <2>2. ASSUME NEW q \in Paths, ~Present(current, q), q \notin doomed'
          PROVE  staging'[q] = Nothing
      <3>1. CASE q = p
        BY <1>w, <3>1 DEF Overwritten
      <3>2. CASE q # p
        <4>1. staging[q] = Nothing
          BY <1>u, <2>2, <3>2 DEF DeltaInv, GoneInv
        <4>2. \A r \in Stamps, u \in Times : staging[q] # Directory(r, u)
          BY <1>n, <4>1, Shapes DEF Record
        <4>. QED
          BY <1>w, <3>2, <4>1, <4>2, OthersAreNotWritten
      <3>. QED
        BY <3>1, <3>2
    <2>. QED
      BY <1>u, <2>1, <2>2, PlanIsFixed DEF GoneInv
  <1>3. KeptInv'
    <2>1. SUFFICES ASSUME NEW q \in Paths, Present(current, q), q \notin EnteredPaths
                   PROVE  AsInBaseline(q)' /\ (q \notin ActivePaths => staging'[q] = OnDisk(previous)[q])
      BY <1>u, <1>f, PlanIsFixed DEF KeptInv
    <2>2. q # p /\ AsInBaseline(q) /\ (q \notin ActivePaths => staging[q] = OnDisk(previous)[q])
      BY <1>0, <2>1 DEF DeltaInv, KeptInv
    <2>3. AsInBaseline(q)'
      BY <1>m, <1>u, <1>p, <1>w, <2>2, WritingKeepsTheBaseline
    <2>4. q \notin ActivePaths => staging'[q] = staging[q]
      BY <1>p, <1>w, <2>1, <2>2 DEF Overwritten
    <2>. QED
      BY <2>2, <2>3, <2>4
  <1>4. NewInv'
    <2>1. current[Root].kind = "directory" /\ Root \in Paths
      BY <1>m, Shapes DEF Manifest, Record, Root, Paths
    <2>2. \E r \in Stamps, u \in Times : staging[Root] = Directory(r, u)
      BY <1>e, <2>1 DEF DeltaInv, NewInv
    <2>3. \E r \in Stamps, u \in Times : staging'[Root] = Directory(r, u)
      BY <1>0, <1>w, <2>1, <2>2 DEF Overwritten, Times
    <2>4. Ancestors[Root] = {}
      BY AncestorsUnfold
    <2>. QED
      BY <1>e, <1>f, <1>u, <2>1, <2>3, <2>4 DEF NewInv, IsFile
  <1>5. InodesInv'
    <2>1. \A l \in Paths : inodes[l] # 0 =>
            /\ inodes[l] \in EnteredPaths /\ inodes[l] \in Paths /\ IsFile(current, inodes[l])
            /\ Leader(current, inodes[l]) = l
      BY <1>m DEF DeltaInv, InodesInv, Fixed
    <2>. QED
      BY <1>u, <1>f, <2>1, PlanIsFixed DEF InodesInv
  <1>. QED
    BY <1>1, <1>2, <1>3, <1>4, <1>5 DEF DeltaInv

-----------------------------------------------------------------------------
(* Merging *)

LEMMA MergeIsBelowOpened ==
    ASSUME DeltaInv, NEW p \in Paths, Mergeable(p)
    PROVE  /\ p \in 1..Last /\ p \in ActivePaths /\ p \notin EnteredPaths /\ Present(current, p)
           /\ Ancestors[p] = opened /\ Changed # {}
           /\ Parent[p] \in opened /\ current[Parent[p]].kind = "directory"
           /\ \E s \in Stamps, t \in Times : staging[Parent[p]] = Directory(s, t)
  <1>1. p \in ActivePaths /\ p # Root /\ p \notin EnteredPaths
    BY DEF DeltaInv, Fixed, Mergeable, EnteredPaths
  <1>2. p \in 1..Last
    BY <1>1 DEF Paths, Root
  <1>3. Present(current, p) /\ Changed # {}
    BY <1>1 DEF ActivePaths, Payload
  <1>4. Ancestors[p] = opened /\ Parent[p] \in opened
    BY <1>2, AncestorsUnfold DEF Mergeable
  <1>5. Parent[p] \in EnteredPaths
    BY <1>4 DEF DeltaInv, Fixed
  <1>. QED
    BY <1>1, <1>2, <1>3, <1>4, <1>5 DEF DeltaInv, NewInv

\* Where the source has no directory, or the disk has none yet, nothing is below.
LEMMA NothingIsBelow ==
    ASSUME DeltaInv, NEW p \in Paths, Mergeable(p),
           current[p].kind # "directory" \/ staging[p].kind # "directory"
    PROVE  \A q \in Below(p) : staging[q] = Nothing
  <1>. SUFFICES ASSUME NEW q \in Below(p) PROVE staging[q] = Nothing
    OBVIOUS
  <1>m. Manifest(previous, 0) /\ Manifest(current, 1) /\ Fixed
    BY ManifestsOfTheDelta DEF DeltaInv
  <1>q. q \in Paths /\ p \in Ancestors[q]
    BY DEF Below
  <1>p. p \notin EnteredPaths /\ Present(current, p) /\ doomed = {}
    BY MergeIsBelowOpened DEF Mergeable
  <1>1. CASE ~Present(current, q)
    BY <1>p, <1>q, <1>1 DEF DeltaInv, GoneInv
  <1>2. CASE Present(current, q)
    <2>1. current[p].kind = "directory" /\ staging[p].kind # "directory"
      BY <1>m, <1>q, <1>2, AncestorsAreDirectories
    <2>2. q \notin EnteredPaths
      BY <1>p, <1>q DEF DeltaInv, NewInv
    <2>3. AsInBaseline(p) /\ AsInBaseline(q)
      BY <1>p, <1>q, <1>2, <2>2 DEF DeltaInv, KeptInv
    <2>4. previous[p].kind # "directory"
      BY <2>1, <2>3, Shapes DEF AsInBaseline, Record
    <2>5. ~Present(previous, q)
      BY <1>m, <1>q, <2>4, AncestorsAreDirectories
    <2>6. previous[q] = Nothing /\ ~IsFile(previous, q) /\ previous[q].kind # "directory"
      BY <1>m, <1>q, <2>5 DEF Manifest, IsListable, Present, IsFile
    <2>. QED
      BY <1>m, <1>q, <2>3, <2>6, DiskOfManifest DEF AsInBaseline
  <1>. QED
    BY <1>1, <1>2

\* The merge of one entry, whatever its kind.
LEMMA MergeKeepsInv ==
    ASSUME DeltaInv, NEW p \in Paths, Mergeable(p),
           UNCHANGED <<previous, current, doomed>>, todo' = todo \ {p},
           opened' = opened \cup (IF current[p].kind = "directory" THEN {p} ELSE {}),
           NEW node, Overwritten(p, node),
           current[p].kind = "directory" => \E s \in Stamps, t \in Times : node = Directory(s, t),
           current[p].kind = "symlink" => node = current[p],
           IsFile(current, p) => /\ inodes'[Leader(current, p)] # 0
                                 /\ node = Copy(Leader(current, p))',
           inodes' \in [Paths -> Paths],
           \A l \in Paths : inodes[l] # 0 => inodes'[l] = inodes[l],
           InodesInv'
    PROVE  DeltaInv'
  <1>m. Manifest(previous, 0) /\ Manifest(current, 1) /\ Fixed
    BY ManifestsOfTheDelta DEF DeltaInv
  <1>p. /\ p \in 1..Last /\ p \in ActivePaths /\ p \notin EnteredPaths /\ Present(current, p)
        /\ Ancestors[p] = opened /\ Changed # {}
        /\ Parent[p] \in opened /\ current[Parent[p]].kind = "directory"
    BY MergeIsBelowOpened
  <1>a. p \in todo /\ doomed = {}
    BY DEF Mergeable
  <1>f. ActivePaths' = ActivePaths /\ Tombstones' = Tombstones /\ EnteredPaths' = EnteredPaths \cup {p}
    BY <1>p, <1>a, PlanIsFixed DEF EnteredPaths
  <1>k. Parent[p] \in ActivePaths /\ Parent[p] \in EnteredPaths
    BY <1>m, <1>p DEF Fixed, EnteredPaths
  <1>1. Fixed'
    <2>1. staging' = [q \in Paths |-> staging'[q]]
      BY DEF Overwritten
    <2>2. opened' \subseteq EnteredPaths' /\ todo' \subseteq ActivePaths' \ {Root}
      BY <1>m, <1>f DEF Fixed
    <2>. QED
      BY <1>m, <1>a, <1>f, <2>1, <2>2 DEF Fixed
  <1>2. GoneInv'
    <2>1. SUFFICES ASSUME NEW q \in Paths, ~Present(current, q) PROVE staging'[q] = Nothing
      BY <1>a, PlanIsFixed DEF GoneInv
    <2>2. staging[q] = Nothing /\ q # p
      BY <1>a, <1>p, <2>1 DEF DeltaInv, GoneInv
    <2>3. \A r \in Stamps, u \in Times : staging[q] # Directory(r, u)
      BY <2>2, Shapes DEF Record
    <2>. QED
      BY <2>2, <2>3, OthersAreNotWritten
  <1>3. KeptInv'
    <2>1. SUFFICES ASSUME NEW q \in Paths, Present(current, q), q \notin EnteredPaths, q # p
                   PROVE  AsInBaseline(q)' /\ (q \notin ActivePaths => staging'[q] = OnDisk(previous)[q])
      BY <1>f, PlanIsFixed DEF KeptInv
    <2>2. AsInBaseline(q) /\ (q \notin ActivePaths => staging[q] = OnDisk(previous)[q])
      BY <2>1 DEF DeltaInv, KeptInv
    <2>3. AsInBaseline(q)'
      BY <1>m, <1>p, <2>1, <2>2, WritingKeepsTheBaseline
    <2>4. q \notin ActivePaths => staging'[q] = staging[q]
      BY <1>k, <2>1 DEF Overwritten
    <2>. QED
      BY <2>2, <2>3, <2>4
  <1>4. NewInv'
    <2>1. SUFFICES ASSUME NEW q \in EnteredPaths \cup {p}
          PROVE /\ Ancestors[q] \subseteq EnteredPaths \cup {p}
                /\ current[q].kind = "directory" =>
                     IF q \in opened'
                     THEN \E s \in Stamps, t \in Times : staging'[q] = Directory(s, t)
                     ELSE staging'[q] = current[q]
                /\ q \in opened' => current[q].kind = "directory"
                /\ current[q].kind = "symlink" => staging'[q] = current[q]
                /\ IsFile(current, q) =>
                     /\ inodes'[Leader(current, q)] # 0
                     /\ staging'[q] = Copy(Leader(current, q))'
      <3>1. \A q \in EnteredPaths \cup {p} : q \in Paths
        BY <1>p, WantedIsUpwardClosed, <1>m DEF EnteredPaths, ActivePaths, Payload
      <3>. QED
        BY <1>f, <2>1, <3>1, PlanIsFixed DEF NewInv
    <2>2. CASE q = p
      <3>1. staging'[p] = node
        BY DEF Overwritten
      <3>2. Ancestors[p] \subseteq EnteredPaths
        BY <1>m, <1>p DEF Fixed
      <3>3. p \notin opened
        BY <1>m, <1>p DEF Fixed
      <3>. QED
        BY <2>2, <3>1, <3>2, <3>3
    <2>3. CASE q # p
      <3>0. q \in EnteredPaths /\ q \in Paths
        BY <1>m, <2>3, WantedIsUpwardClosed DEF EnteredPaths, ActivePaths, Payload
      <3>1. Ancestors[q] \subseteq EnteredPaths /\ (q \in opened' <=> q \in opened)
        BY <2>3, <3>0 DEF DeltaInv, NewInv
      <3>2. CASE current[q].kind = "directory" /\ q \in opened
        <4>1. \E s \in Stamps, t \in Times : staging[q] = Directory(s, t)
          BY <3>0, <3>2 DEF DeltaInv, NewInv
        <4>2. \E s \in Stamps, t \in Times : staging'[q] = Directory(s, t)
          BY <2>3, <3>0, <4>1 DEF Overwritten, Times
        <4>. QED
          BY <3>1, <3>2, <4>2 DEF IsFile
      <3>3. CASE current[q].kind = "directory" /\ q \notin opened
        <4>1. staging[q] = current[q]
          BY <3>0, <3>3 DEF DeltaInv, NewInv
        <4>2. q # Parent[p]
          BY <1>p, <3>3
        <4>3. staging'[q] = staging[q]
          BY <2>3, <3>0, <4>2 DEF Overwritten
        <4>. QED
          BY <3>1, <3>3, <4>1, <4>3 DEF IsFile
      <3>4. CASE current[q].kind = "symlink"
        <4>1. staging[q] = current[q] /\ q \notin opened
          BY <3>0, <3>4 DEF DeltaInv, NewInv
        <4>2. \A r \in Stamps, u \in Times : staging[q] # Directory(r, u)
          BY <3>4, <4>1, Shapes DEF Record
        <4>3. staging'[q] = staging[q]
          BY <2>3, <3>0, <4>2, OthersAreNotWritten
        <4>. QED
          BY <3>1, <3>4, <4>1, <4>3 DEF IsFile
      <3>5. CASE IsFile(current, q)
        <4>0. PICK l : l = Leader(current, q)
          OBVIOUS
        <4>1. staging[q] = Copy(l) /\ q \notin opened /\ inodes[l] # 0
          BY <3>0, <3>5, <4>0 DEF DeltaInv, NewInv, IsFile
        <4>2. \A r \in Stamps, u \in Times : staging[q] # Directory(r, u)
          BY <4>1, CopyIsAFile, Shapes DEF Record
        <4>3. staging'[q] = staging[q]
          BY <2>3, <3>0, <4>2, OthersAreNotWritten
        <4>4. l \in Paths
          BY <1>m, <3>0, <3>5, <4>0, DiskOfManifest
        <4>5. inodes'[l] = inodes[l]
          BY <4>1, <4>4
        <4>6. Copy(l)' = Copy(l)
          BY <4>5 DEF Copy
        <4>7. Leader(current, q)' = l
          BY <4>0, <3>0, PlanIsFixed
        <4>8. Copy(Leader(current, q))' = Copy(l)
          BY <4>0, <4>5 DEF Copy, Leader
        <4>. QED
          BY <3>1, <3>5, <4>0, <4>1, <4>3, <4>5, <4>8 DEF IsFile
      <3>6. CASE current[q].kind \notin {"directory", "symlink", "file", "hardlink"}
        <4>1. q \notin opened
          BY <3>0, <3>6 DEF DeltaInv, NewInv
        <4>. QED
          BY <3>1, <3>6, <4>1 DEF IsFile
      <3>. QED
        BY <3>2, <3>3, <3>4, <3>5, <3>6 DEF IsFile
    <2>. QED
      BY <2>1, <2>2, <2>3
  <1>. QED
    BY <1>1, <1>2, <1>3, <1>4 DEF DeltaInv

LEMMA DirectoryKeepsInv ==
    ASSUME DeltaInv, NEW p \in Paths, MergeDirectory(p)
    PROVE  DeltaInv'
  <1>m. Fixed
    BY DEF DeltaInv
  <1>u. /\ Mergeable(p) /\ current[p].kind = "directory"
        /\ UNCHANGED <<previous, current, doomed>> /\ UNCHANGED inodes /\ todo' = todo \ {p}
        /\ opened' = opened \cup {p}
    BY DEF MergeDirectory
  <1>p. /\ p \in 1..Last /\ p \notin EnteredPaths /\ Present(current, p)
        /\ \E s \in Stamps, t \in Times : staging[Parent[p]] = Directory(s, t)
    BY <1>u, MergeIsBelowOpened
  <1>i. InodesInv'
    <2>1. \A l \in Paths : inodes[l] # 0 =>
            /\ inodes[l] \in EnteredPaths /\ inodes[l] \in Paths /\ IsFile(current, inodes[l])
            /\ Leader(current, inodes[l]) = l
      BY <1>m DEF DeltaInv, InodesInv, Fixed
    <2>2. EnteredPaths \subseteq EnteredPaths'
      BY <1>u, PlanIsFixed DEF EnteredPaths
    <2>. QED
      BY <1>u, <2>1, <2>2, PlanIsFixed DEF InodesInv
  <1>n. \E node : /\ Overwritten(p, node)
                  /\ \E s \in Stamps, t \in Times : node = Directory(s, t)
    <2>1. CASE staging[p].kind = "directory"
      <3>1. staging' = staging
        BY <2>1 DEF MergeDirectory
      <3>2. Overwritten(p, staging[p])
        BY <1>m, <3>1 DEF Overwritten, Fixed
      <3>3. AsInBaseline(p)
        BY <1>p DEF DeltaInv, KeptInv
      <3>4. Manifest(previous, 0)
        BY <1>m, ManifestsOfTheDelta
      <3>5. previous[p].kind = "directory"
        <4>1. SUFFICES ASSUME previous[p].kind # "directory" PROVE FALSE
          OBVIOUS
        <4>2. CASE IsFile(previous, p)
          <5>1. PICK r, l : OnDisk(previous)[p] = Record("file", r, 0, l)
            BY <3>4, <4>2, DiskOfManifest
          <5>. QED
            BY <2>1, <3>3, <4>1, <5>1 DEF AsInBaseline, Record
        <4>3. CASE ~IsFile(previous, p)
          BY <2>1, <3>3, <3>4, <4>1, <4>3, DiskOfManifest DEF AsInBaseline
        <4>. QED
          BY <4>2, <4>3
      <3>6. previous[p].stamp \in Stamps
        BY <3>4 DEF Manifest, IsListable
      <3>. QED
        BY <3>2, <3>3, <3>5, <3>6 DEF AsInBaseline
    <2>2. CASE staging[p].kind # "directory"
      <3>1. staging' = Touched([EnsureRemoved(p) EXCEPT ![p] = Directory(Nothing.stamp, Now)], p)
        BY <2>2 DEF MergeDirectory
      <3>2. \A q \in Below(p) : staging[q] = Nothing
        BY <1>u, <2>2, NothingIsBelow
      <3>3. Overwritten(p, Directory(Nothing.stamp, Now))
        BY <1>m, <1>p, <3>1, <3>2, EntryIsWritten DEF Fixed
      <3>4. Nothing.stamp \in Stamps /\ Now \in Times
        BY Shapes DEF Times
      <3>. QED
        BY <3>3, <3>4
    <2>. QED
      BY <2>1, <2>2
  <1>k. PICK node : /\ Overwritten(p, node)
                    /\ \E s \in Stamps, t \in Times : node = Directory(s, t)
    BY <1>n
  <1>. QED
    BY <1>m, <1>u, <1>k, <1>i, MergeKeepsInv DEF Fixed, IsFile

LEMMA SymlinkKeepsInv ==
    ASSUME DeltaInv, NEW p \in Paths, MergeSymlink(p)
    PROVE  DeltaInv'
  <1>m. Fixed
    BY DEF DeltaInv
  <1>u. /\ Mergeable(p) /\ current[p].kind = "symlink"
        /\ UNCHANGED <<previous, current, doomed>> /\ UNCHANGED <<inodes, opened>>
        /\ todo' = todo \ {p}
        /\ staging' = Touched([EnsureRemoved(p) EXCEPT ![p] = current[p]], p)
    BY DEF MergeSymlink
  <1>p. /\ p \in 1..Last
        /\ \E s \in Stamps, t \in Times : staging[Parent[p]] = Directory(s, t)
    BY <1>u, MergeIsBelowOpened
  <1>i. InodesInv'
    <2>1. \A l \in Paths : inodes[l] # 0 =>
            /\ inodes[l] \in EnteredPaths /\ inodes[l] \in Paths /\ IsFile(current, inodes[l])
            /\ Leader(current, inodes[l]) = l
      BY <1>m DEF DeltaInv, InodesInv, Fixed
    <2>2. EnteredPaths \subseteq EnteredPaths'
      BY <1>u, PlanIsFixed DEF EnteredPaths
    <2>. QED
      BY <1>u, <2>1, <2>2, PlanIsFixed DEF InodesInv
  <1>k. Overwritten(p, current[p])
    <2>1. \A q \in Below(p) : staging[q] = Nothing
      BY <1>u, NothingIsBelow
    <2>2. PICK node : node = current[p]
      OBVIOUS
    <2>3. staging' = Touched([EnsureRemoved(p) EXCEPT ![p] = node], p)
      BY <1>u, <2>2
    <2>4. Overwritten(p, node)
      BY <1>m, <1>p, <2>1, <2>3, EntryIsWritten DEF Fixed
    <2>. QED
      BY <2>2, <2>4
  <1>. QED
    BY <1>m, <1>u, <1>k, <1>i, MergeKeepsInv DEF Fixed, IsFile

LEMMA FileKeepsInv ==
    ASSUME DeltaInv, NEW p \in Paths, MergeFile(p)
    PROVE  DeltaInv'
  <1>m. Fixed /\ Manifest(current, 1)
    BY ManifestsOfTheDelta DEF DeltaInv
  <1>l. PICK l : l = Leader(current, p)
    OBVIOUS
  <1>n. PICK node : node = IF inodes[l] # 0 THEN staging[inodes[l]]
                           ELSE [File(current[l].stamp) EXCEPT !.leader = NewInode(p)]
    OBVIOUS
  <1>u. /\ Mergeable(p) /\ IsFile(current, p)
        /\ UNCHANGED <<previous, current, doomed>> /\ UNCHANGED opened
        /\ todo' = todo \ {p}
    BY DEF MergeFile, IsFile
  <1>v. (IF current[p].kind = "file" THEN p ELSE current[p].leader) = l
    BY <1>l, <1>u DEF IsFile, Leader
  <1>w. /\ staging' = Touched([EnsureRemoved(p) EXCEPT ![p] = node], p)
        /\ inodes' = IF inodes[l] # 0 THEN inodes ELSE [inodes EXCEPT ![l] = p]
    BY <1>n, <1>v DEF MergeFile
  <1>p. /\ p \in 1..Last /\ p \in ActivePaths
        /\ \E s \in Stamps, t \in Times : staging[Parent[p]] = Directory(s, t)
    BY <1>u, MergeIsBelowOpened
  <1>q. l \in Paths
    BY <1>m, <1>l, <1>u, DiskOfManifest
  <1>j. /\ inodes' \in [Paths -> Paths] /\ inodes'[l] # 0
        /\ \A k \in Paths : inodes[k] # 0 => inodes'[k] = inodes[k]
    BY <1>m, <1>p, <1>q, <1>w DEF Fixed
  <1>i. InodesInv'
    <2>1. \A k \in Paths : inodes[k] # 0 =>
            /\ inodes[k] \in EnteredPaths /\ inodes[k] \in Paths /\ IsFile(current, inodes[k])
            /\ Leader(current, inodes[k]) = k
      BY <1>m DEF DeltaInv, InodesInv, Fixed
    <2>2. EnteredPaths \subseteq EnteredPaths' /\ p \in EnteredPaths'
      BY <1>u, <1>p, PlanIsFixed DEF EnteredPaths
    <2>3. SUFFICES ASSUME NEW CONSTANT k \in Paths, inodes'[k] # 0
                   PROVE  /\ inodes'[k] \in EnteredPaths' /\ inodes'[k] \in Paths
                          /\ IsFile(current, inodes'[k]) /\ Leader(current, inodes'[k]) = k
      <3>1. \A k \in Paths : inodes'[k] # 0 => inodes'[k] \in Paths
        BY <1>j
      <3>. QED
        BY <1>u, <2>3, <3>1, PlanIsFixed DEF InodesInv, IsFile, Leader
    <2>4. CASE inodes[k] # 0
      BY <1>j, <2>1, <2>2, <2>4
    <2>5. CASE inodes[k] = 0
      <3>1. k = l /\ inodes'[k] = p
        BY <1>m, <1>q, <1>w, <2>3, <2>5 DEF Fixed
      <3>. QED
        BY <1>l, <1>u, <2>2, <3>1
    <2>. QED
      BY <2>4, <2>5
  <1>k. Overwritten(p, node)
    <2>1. \A q \in Below(p) : staging[q] = Nothing
      BY <1>u, NothingIsBelow DEF IsFile
    <2>. QED
      BY <1>m, <1>p, <1>w, <2>1, EntryIsWritten DEF Fixed
  <1>c. node = Copy(l)'
    <2>1. CASE inodes[l] # 0
      <3>1. inodes[l] \in EnteredPaths /\ IsFile(current, inodes[l]) /\ Leader(current, inodes[l]) = l
        BY <1>q, <2>1 DEF DeltaInv, InodesInv
      <3>2. staging[inodes[l]] = Copy(l)
        BY <3>1 DEF DeltaInv, NewInv
      <3>3. inodes'[l] = inodes[l]
        BY <1>j, <1>q, <2>1
      <3>. QED
        BY <1>n, <1>u, <2>1, <3>2, <3>3 DEF Copy
    <2>2. CASE inodes[l] = 0
      <3>1. inodes'[l] = p
        BY <1>m, <1>q, <1>w, <2>2 DEF Fixed
      <3>. QED
        BY <1>n, <1>u, <2>2, <3>1 DEF Copy
    <2>. QED
      BY <2>1, <2>2
  <1>d. node = Copy(Leader(current, p))'
    BY <1>c, <1>l, <1>u DEF Copy, Leader
  <1>e. inodes'[Leader(current, p)] # 0
    BY <1>j, <1>l
  <1>f. current[p].kind # "directory" /\ current[p].kind # "symlink"
    BY <1>u DEF IsFile
  <1>. QED
    BY <1>u, <1>k, <1>d, <1>e, <1>f, <1>i, <1>j, MergeKeepsInv

LEMMA LeavingKeepsInv ==
    ASSUME DeltaInv, NEW p \in Paths, LeaveDirectory(p)
    PROVE  DeltaInv'
  <1>m. Fixed
    BY DEF DeltaInv
  <1>u. /\ doomed = {} /\ p \in opened /\ opened' = opened \ {p}
        /\ UNCHANGED <<previous, current, doomed, todo, inodes>>
        /\ staging' = [staging EXCEPT ![p] = current[p]]
    BY DEF LeaveDirectory
  <1>s. /\ staging' = [q \in Paths |-> staging'[q]]
        /\ \A q \in Paths : staging'[q] = IF q = p THEN current[p] ELSE staging[q]
    BY <1>m, <1>u DEF Fixed
  <1>e. p \in EnteredPaths /\ current[p].kind = "directory"
    BY <1>m, <1>u DEF Fixed, DeltaInv, NewInv
  <1>f. ActivePaths' = ActivePaths /\ Tombstones' = Tombstones /\ EnteredPaths' = EnteredPaths
    BY <1>u, PlanIsFixed DEF EnteredPaths
  <1>1. Fixed'
    BY <1>m, <1>u, <1>s, <1>f DEF Fixed
  <1>2. GoneInv'
    <2>1. SUFFICES ASSUME NEW q \in Paths, ~Present(current, q) PROVE staging'[q] = Nothing
      BY <1>u, PlanIsFixed DEF GoneInv
    <2>2. staging[q] = Nothing /\ q # p
      BY <1>u, <1>e, <2>1 DEF DeltaInv, GoneInv, Present
    <2>. QED
      BY <1>s, <2>2
  <1>3. KeptInv'
    <2>1. SUFFICES ASSUME NEW q \in Paths, Present(current, q), q \notin EnteredPaths
                   PROVE  AsInBaseline(q)' /\ (q \notin ActivePaths => staging'[q] = OnDisk(previous)[q])
      BY <1>u, <1>f, PlanIsFixed DEF KeptInv
    <2>2. staging'[q] = staging[q]
      BY <1>s, <1>e, <2>1
    <2>. QED
      BY <1>u, <2>1, <2>2, PlanIsFixed DEF DeltaInv, KeptInv, AsInBaseline
  <1>4. NewInv'
    <2>1. SUFFICES ASSUME NEW q \in EnteredPaths
          PROVE /\ Ancestors[q] \subseteq EnteredPaths
                /\ current[q].kind = "directory" =>
                     IF q \in opened'
                     THEN \E s \in Stamps, t \in Times : staging'[q] = Directory(s, t)
                     ELSE staging'[q] = current[q]
                /\ q \in opened' => current[q].kind = "directory"
                /\ current[q].kind = "symlink" => staging'[q] = current[q]
                /\ IsFile(current, q) =>
                     /\ inodes[Leader(current, q)] # 0
                     /\ staging'[q] = Copy(Leader(current, q))
      <3>1. \A q \in EnteredPaths : q \in Paths
        BY <1>m, ManifestsOfTheDelta, WantedIsUpwardClosed DEF EnteredPaths, ActivePaths, Payload
      <3>2. \A q \in Paths : Copy(Leader(current, q))' = Copy(Leader(current, q))
        BY <1>u DEF Copy, Leader
      <3>3. \A q \in Paths : inodes[Leader(current, q)]' = inodes[Leader(current, q)]
        BY <1>u DEF Leader
      <3>. QED
        BY <1>f, <1>u, <2>1, <3>1, <3>2, <3>3, PlanIsFixed DEF NewInv
    <2>0. q \in Paths
      BY <1>m, ManifestsOfTheDelta, WantedIsUpwardClosed DEF EnteredPaths, ActivePaths, Payload
    <2>2. CASE q = p
      BY <1>e, <1>s, <1>u, <2>0, <2>2 DEF DeltaInv, NewInv, IsFile
    <2>3. CASE q # p
      <3>1. staging'[q] = staging[q] /\ (q \in opened' <=> q \in opened)
        BY <1>s, <1>u, <2>0, <2>3
      <3>. QED
        BY <2>1, <3>1 DEF DeltaInv, NewInv
    <2>. QED
      BY <2>2, <2>3
  <1>5. InodesInv'
    <2>1. \A l \in Paths : inodes[l] # 0 =>
            /\ inodes[l] \in EnteredPaths /\ inodes[l] \in Paths /\ IsFile(current, inodes[l])
            /\ Leader(current, inodes[l]) = l
      BY <1>m DEF DeltaInv, InodesInv, Fixed
    <2>. QED
      BY <1>u, <1>f, <2>1, PlanIsFixed DEF InodesInv
  <1>. QED
    BY <1>1, <1>2, <1>3, <1>4, <1>5 DEF DeltaInv

-----------------------------------------------------------------------------
(* The restored tree *)

\* An entry of the restored tree, when all is merged.
LEMMA RestoredEntry ==
    ASSUME DeltaInv, Restored, NEW p \in Paths
    PROVE  /\ current[p].kind = "none" => staging[p] = Nothing
           /\ current[p].kind = "symlink" => staging[p] = current[p]
           /\ current[p].kind = "directory" =>
                IF p \in ActivePaths THEN staging[p] = current[p]
                ELSE staging[p] = previous[p] /\ p \notin Changed
                     /\ previous[p].kind = "directory" /\ previous[p].stamp = current[p].stamp
           /\ IsFile(current, p) =>
                LET l == Leader(current, p)
                IN  staging[p] = Record("file", current[l].stamp, 0,
                                        IF p \in ActivePaths THEN NewInode(inodes[l]) ELSE l)
  <1>m. Manifest(previous, 0) /\ Manifest(current, 1) /\ Fixed
    BY ManifestsOfTheDelta DEF DeltaInv
  <1>r. doomed = {} /\ EnteredPaths = ActivePaths /\ opened = {}
    BY DEF Restored, EnteredPaths
  <1>1. CASE current[p].kind = "none"
    BY <1>r, <1>1 DEF DeltaInv, GoneInv, Present, IsFile
  <1>2. CASE p \in ActivePaths
    <2>1. /\ current[p].kind = "directory" => staging[p] = current[p]
          /\ current[p].kind = "symlink" => staging[p] = current[p]
          /\ IsFile(current, p) => staging[p] = Copy(Leader(current, p))
      BY <1>r, <1>2 DEF DeltaInv, NewInv
    <2>2. current[p].kind # "none"
      BY <1>2 DEF ActivePaths, Payload, Present
    <2>. QED
      BY <1>2, <2>1, <2>2, CopyIsAFile
  <1>3. CASE p \notin ActivePaths /\ current[p].kind # "none"
    <2>1. staging[p] = OnDisk(previous)[p]
      BY <1>r, <1>3 DEF DeltaInv, KeptInv, Present
    <2>2. p \notin Changed
      BY <1>3 DEF ActivePaths, Payload, Wanted, Expanded, Present
    <2>3. /\ previous[p].kind = current[p].kind
          /\ current[p].kind # "hardlink" => previous[p].stamp = current[p].stamp
          /\ current[p].kind = "hardlink" => previous[p].leader = current[p].leader
      BY <1>m, <2>2, UnchangedAgree
    <2>4. CASE current[p].kind = "directory"
      BY <1>m, <1>3, <2>1, <2>2, <2>3, <2>4, DiskOfManifest DEF IsFile
    <2>5. CASE current[p].kind = "symlink"
      <3>1. previous[p] = current[p]
        BY <1>m, <2>3, <2>5 DEF Manifest, IsListable
      <3>. QED
        BY <1>m, <2>1, <2>3, <2>5, <3>1, DiskOfManifest DEF IsFile
    <2>6. CASE IsFile(current, p)
      <3>1. PICK l : l = Leader(current, p)
        OBVIOUS
      <3>2. Leader(previous, p) = l /\ IsFile(previous, p)
        BY <2>3, <2>6, <3>1 DEF Leader, IsFile
      <3>3. staging[p] = Record("file", previous[l].stamp, 0, l)
        BY <1>m, <2>1, <3>2, DiskOfManifest
      <3>4. l \in Paths /\ current[l].kind = "file"
        BY <1>m, <2>6, <3>1, DiskOfManifest
      <3>5. IsFile(current, l) /\ Leader(current, l) = l
        BY <3>4 DEF IsFile, Leader
      <3>6. l \notin ActivePaths
        BY <1>m, <1>3, <2>6, <3>1, <3>5, GroupsGoWhole
      <3>7. l \notin Changed
        BY <3>4, <3>6 DEF ActivePaths, Payload, Wanted, Expanded, Present
      <3>8. previous[l].stamp = current[l].stamp
        BY <1>m, <3>4, <3>7, UnchangedAgree
      <3>. QED
        BY <1>3, <2>6, <3>1, <3>3, <3>8 DEF IsFile
    <2>7. current[p].kind \in {"directory", "symlink", "file", "hardlink"}
      BY <1>m, <1>3 DEF Manifest, IsListable
    <2>. QED
      BY <2>4, <2>5, <2>6, <2>7 DEF IsFile
  <1>. QED
    BY <1>1, <1>2, <1>3 DEF IsFile

LEMMA RestoredFile ==
    ASSUME DeltaInv, Restored, NEW p \in Paths, IsFile(current, p),
           NEW l, l = Leader(current, p)
    PROVE  /\ staging[p].kind = "file" /\ staging[p].stamp = current[l].stamp
           /\ staging[p].leader = IF p \in ActivePaths THEN NewInode(inodes[l]) ELSE l
  <1>1. PICK node : node = IF p \in ActivePaths THEN NewInode(inodes[l]) ELSE l
    OBVIOUS
  <1>2. staging[p] = Record("file", current[l].stamp, 0, node)
    BY <1>1, RestoredEntry
  <1>. QED
    BY <1>1, <1>2 DEF Record

\* Two paths share an inode when they are names of one file in the source.
LEMMA InodesAreGroups ==
    ASSUME DeltaInv, Restored, NEW p \in Paths, IsFile(current, p), NEW q \in Paths
    PROVE  staging[q].kind = "file" /\ staging[q].leader = staging[p].leader
             <=> IsFile(current, q) /\ Leader(current, q) = Leader(current, p)
  <1>m. Manifest(previous, 0) /\ Manifest(current, 1) /\ Fixed
    BY ManifestsOfTheDelta DEF DeltaInv
  <1>1. staging[q].kind = "file" <=> IsFile(current, q)
    <2>1. current[q].kind \in {"none", "directory", "symlink", "file", "hardlink"}
      BY <1>m DEF Manifest, IsListable
    <2>2. IsFile(current, q) => staging[q].kind = "file"
      BY RestoredFile
    <2>3. ~IsFile(current, q) => staging[q].kind = current[q].kind
      <3>1. Nothing.kind = "none"
        BY Shapes DEF Record
      <3>2. /\ current[q].kind = "none" => staging[q] = Nothing
            /\ current[q].kind = "symlink" => staging[q] = current[q]
            /\ current[q].kind = "directory" =>
                 \/ staging[q] = current[q]
                 \/ staging[q] = previous[q] /\ previous[q].kind = "directory"
        BY RestoredEntry
      <3>. QED
        BY <2>1, <3>1, <3>2 DEF IsFile
    <2>. QED
      BY <2>2, <2>3 DEF IsFile
  <1>2. SUFFICES ASSUME IsFile(current, q)
                 PROVE  staging[q].leader = staging[p].leader
                          <=> Leader(current, q) = Leader(current, p)
    BY <1>1
  <1>3. PICK l, k : l = Leader(current, p) /\ k = Leader(current, q)
    OBVIOUS
  <1>4. l \in Paths /\ k \in Paths
    BY <1>m, <1>2, <1>3, DiskOfManifest
  <1>5. /\ staging[p].leader = IF p \in ActivePaths THEN NewInode(inodes[l]) ELSE l
        /\ staging[q].leader = IF q \in ActivePaths THEN NewInode(inodes[k]) ELSE k
    BY <1>2, <1>3, RestoredFile
  <1>6. l = k => (p \in ActivePaths <=> q \in ActivePaths)
    BY <1>m, <1>2, <1>3, GroupsGoWhole
  <1>7. inodes[l] \in Nat /\ inodes[k] \in Nat /\ l \in 0..Last /\ k \in 0..Last
    BY <1>m, <1>4 DEF Fixed, Paths
  <1>8. ActivePaths = EnteredPaths
    BY DEF Restored, EnteredPaths
  <1>9. CASE p \in ActivePaths /\ q \in ActivePaths
    <2>1. inodes[l] # 0 /\ inodes[k] # 0
      BY <1>2, <1>3, <1>8, <1>9 DEF DeltaInv, NewInv
    <2>2. Leader(current, inodes[l]) = l /\ Leader(current, inodes[k]) = k
      BY <1>4, <2>1 DEF DeltaInv, InodesInv
    <2>3. NewInode(inodes[l]) = NewInode(inodes[k]) <=> inodes[l] = inodes[k]
      BY <1>7 DEF NewInode
    <2>. QED
      BY <1>3, <1>5, <1>9, <2>2, <2>3
  <1>10. CASE p \notin ActivePaths /\ q \notin ActivePaths
    BY <1>3, <1>5, <1>10
  <1>11. CASE p \in ActivePaths /\ q \notin ActivePaths
    <2>1. NewInode(inodes[l]) > Last
      BY <1>7 DEF NewInode
    <2>. QED
      BY <1>3, <1>5, <1>6, <1>7, <1>11, <2>1
  <1>12. CASE p \notin ActivePaths /\ q \in ActivePaths
    <2>1. NewInode(inodes[k]) > Last
      BY <1>7 DEF NewInode
    <2>. QED
      BY <1>3, <1>5, <1>6, <1>7, <1>12, <2>1
  <1>. QED
    BY <1>9, <1>10, <1>11, <1>12

LEMMA RestoredIsListedAsTheSource ==
    ASSUME DeltaInv, Restored, NEW p \in Paths
    PROVE  Timeless(Listed(staging))[p] = Timeless(current)[p]
  <1>m. Manifest(previous, 0) /\ Manifest(current, 1) /\ Fixed
    BY ManifestsOfTheDelta DEF DeltaInv
  <1>r. /\ current[p].kind = "none" => staging[p] = Nothing
        /\ current[p].kind = "symlink" => staging[p] = current[p]
        /\ current[p].kind = "directory" =>
             IF p \in ActivePaths THEN staging[p] = current[p]
             ELSE staging[p] = previous[p] /\ p \notin Changed
                  /\ previous[p].kind = "directory" /\ previous[p].stamp = current[p].stamp
    BY RestoredEntry
  <1>t. \A tree : Timeless(tree)[p] = IF tree[p].kind = "directory"
                                       THEN [tree[p] EXCEPT !.time = 0] ELSE tree[p]
    BY DEF Timeless
  <1>1. CASE IsFile(current, p)
    <2>1. PICK l : l = Leader(current, p)
      OBVIOUS
    <2>2. l \in Paths /\ current[l].kind = "file" /\ IsFile(current, l) /\ Leader(current, l) = l
      BY <1>m, <1>1, <2>1, DiskOfManifest DEF IsFile, Leader
    <2>3. PICK same : same = {q \in Paths : staging[q].kind = "file"
                                             /\ staging[q].leader = staging[p].leader}
      OBVIOUS
    <2>4. same = {q \in Paths : IsFile(current, q) /\ Leader(current, q) = l}
      BY <1>1, <2>1, <2>3, InodesAreGroups
    <2>5. \A q \in same : l <= q
      BY <1>m, <2>4, DiskOfManifest
    <2>6. l \in same /\ same \subseteq Paths
      BY <2>2, <2>4
    <2>7. (CHOOSE q \in same : \A r \in same : q <= r) = l
      <3>1. PICK f : f = CHOOSE q \in same : \A r \in same : q <= r
        OBVIOUS
      <3>2. f \in same /\ \A r \in same : f <= r
        BY <2>5, <2>6, <3>1
      <3>3. f <= l /\ l <= f /\ f \in Nat /\ l \in Nat
        BY <2>5, <2>6, <3>2 DEF Paths
      <3>. QED
        BY <3>1, <3>3
    <2>8. staging[p].kind = "file" /\ staging[p].stamp = current[l].stamp
      BY <1>1, <2>1, RestoredFile
    <2>9. Listed(staging)[p] = IF p = l THEN File(staging[p].stamp) ELSE HardLink(l)
      <3>1. Listed(staging)[p] =
              IF p = (CHOOSE q \in same : \A r \in same : q <= r) THEN File(staging[p].stamp)
              ELSE HardLink(CHOOSE q \in same : \A r \in same : q <= r)
        BY <2>3, <2>8 DEF Listed
      <3>. QED
        BY <2>7, <3>1
    <2>10. current[p] = IF p = l THEN File(current[p].stamp) ELSE HardLink(l)
      <3>1. CASE current[p].kind = "file"
        BY <1>m, <2>1, <3>1 DEF Leader, Manifest, IsListable
      <3>2. CASE current[p].kind = "hardlink"
        BY <1>m, <2>1, <2>2, <3>2 DEF Leader, Manifest, IsListable
      <3>. QED
        BY <1>1, <3>1, <3>2 DEF IsFile
    <2>11. Listed(staging)[p] = current[p]
      BY <2>8, <2>9, <2>10
    <2>. QED
      BY <1>1, <1>t, <2>11 DEF IsFile
  <1>2. CASE ~IsFile(current, p)
    <2>1. current[p].kind \in {"none", "directory", "symlink"}
      BY <1>m, <1>2 DEF Manifest, IsListable, IsFile
    <2>2. staging[p].kind = current[p].kind
      BY <1>r, <2>1, Shapes DEF Record
    <2>3. Listed(staging)[p] = staging[p]
      BY <1>2, <2>2 DEF Listed, IsFile
    <2>4. CASE current[p].kind = "directory"
      <3>1. current[p] = Directory(current[p].stamp, 1)
        BY <1>m, <2>4 DEF Manifest, IsListable
      <3>2. CASE p \in ActivePaths
        BY <1>r, <1>t, <2>3, <2>4, <3>2
      <3>3. CASE p \notin ActivePaths
        <4>0. PICK s : s = current[p].stamp
          OBVIOUS
        <4>1. staging[p] = Directory(s, 0)
          BY <1>m, <1>r, <2>4, <3>3, <4>0 DEF Manifest, IsListable
        <4>2. PICK a : a = [staging[p] EXCEPT !.time = 0]
          OBVIOUS
        <4>3. PICK b : b = [current[p] EXCEPT !.time = 0]
          OBVIOUS
        <4>4. /\ staging[p] = [kind |-> "directory", stamp |-> s, time |-> 0, leader |-> 0]
              /\ current[p] = [kind |-> "directory", stamp |-> s, time |-> 1, leader |-> 0]
          BY <3>1, <4>0, <4>1, Shapes DEF Record
        <4>5. /\ a.kind = "directory" /\ a.stamp = s /\ a.time = 0 /\ a.leader = 0
              /\ a = [kind |-> a.kind, stamp |-> a.stamp, time |-> a.time, leader |-> a.leader]
          BY ONLY <4>2, <4>4
        <4>6. /\ b.kind = "directory" /\ b.stamp = s /\ b.time = 0 /\ b.leader = 0
              /\ b = [kind |-> b.kind, stamp |-> b.stamp, time |-> b.time, leader |-> b.leader]
          BY ONLY <4>3, <4>4
        <4>. QED
          BY <1>t, <2>2, <2>3, <2>4, <4>2, <4>3, <4>5, <4>6
      <3>. QED
        BY <3>2, <3>3
    <2>5. CASE current[p].kind = "none"
      <3>1. current[p] = Nothing
        BY <1>m, <2>5 DEF Manifest, IsListable
      <3>. QED
        BY <1>r, <1>t, <2>3, <2>5, <3>1
    <2>6. CASE current[p].kind = "symlink"
      BY <1>r, <1>t, <2>3, <2>6
    <2>. QED
      BY <2>1, <2>4, <2>5, <2>6
  <1>. QED
    BY <1>1, <1>2

LEMMA RestoredTimes ==
    ASSUME DeltaInv, Restored
    PROVE  TimesAreRestored
  <1>1. SUFFICES ASSUME NEW p \in Paths, current[p].kind = "directory"
                 PROVE  \/ staging[p].time = current[p].time
                        \/ /\ Changed \cap ({p} \cup Below(p)) = {}
                           /\ staging[p].time = previous[p].time
    BY DEF TimesAreRestored
  <1>2. CASE p \in ActivePaths
    BY <1>1, <1>2, RestoredEntry
  <1>3. CASE p \notin ActivePaths
    <2>1. staging[p] = previous[p] /\ p \notin Changed
      BY <1>1, <1>3, RestoredEntry
    <2>2. ASSUME NEW q \in Changed, q \in Below(p) PROVE FALSE
      <3>1. p \in Ancestors[q] /\ q \in Expanded
        BY <2>2 DEF Below, Expanded
      <3>2. p \in Wanted
        BY <3>1 DEF Wanted
      <3>. QED
        BY <1>1, <1>3, <2>2, <3>2 DEF ActivePaths, Payload, Present
    <2>. QED
      BY <2>1, <2>2
  <1>. QED
    BY <1>2, <1>3

LEMMA DeltaInvStep == DeltaInv /\ [DeltaNext]_deltaVars => DeltaInv'
  <1>. SUFFICES ASSUME DeltaInv, [DeltaNext]_deltaVars PROVE DeltaInv'
    OBVIOUS
  <1>1. CASE DeltaNext
    <2>1. PICK p \in Paths : \/ ApplyTombstone(p) \/ MergeDirectory(p) \/ LeaveDirectory(p)
                             \/ MergeFile(p) \/ MergeSymlink(p)
      BY <1>1 DEF DeltaNext
    <2>. QED
      BY <2>1, TombstoneKeepsInv, DirectoryKeepsInv, LeavingKeepsInv, FileKeepsInv, SymlinkKeepsInv
  <1>2. CASE UNCHANGED deltaVars
    <2>1. UNCHANGED <<previous, current>> /\ UNCHANGED <<staging, doomed, todo, opened, inodes>>
      BY <1>2 DEF deltaVars
    <2>2. EnteredPaths' = EnteredPaths
      BY <2>1, PlanIsFixed DEF EnteredPaths
    <2>3. Fixed' /\ GoneInv'
      BY <2>1, <2>2, PlanIsFixed DEF DeltaInv, Fixed, GoneInv, AsInBaseline
    <2>4. KeptInv'
      BY <2>1, <2>2, PlanIsFixed DEF DeltaInv, KeptInv, AsInBaseline
    <2>5. NewInv' /\ InodesInv'
      BY <2>1, <2>2 DEF DeltaInv, NewInv, InodesInv, IsFile, Leader, Copy
    <2>. QED
      BY <2>3, <2>4, <2>5 DEF DeltaInv
  <1>. QED
    BY <1>1, <1>2

(***************************************************************************)
(* MergeTree: the tree restored from any baseline and the delta to any     *)
(* source is the source: whatever the trees hold, whichever paths share an *)
(* inode in either, and in whatever order readdir lists the payload.       *)
(***************************************************************************)
THEOREM DeltasRestoreTheSource == DeltaSpec => []RestoredTreeIsTheSource
  <1>1. DeltaInv => RestoredTreeIsTheSource
    <2>. SUFFICES ASSUME DeltaInv, Restored
                  PROVE  Timeless(Listed(staging)) = Timeless(current) /\ TimesAreRestored
      BY DEF RestoredTreeIsTheSource
    <2>1. \A p \in Paths : Timeless(Listed(staging))[p] = Timeless(current)[p]
      BY RestoredIsListedAsTheSource
    <2>2. \A tree : Timeless(tree) = [p \in Paths |-> Timeless(tree)[p]]
      BY DEF Timeless
    <2>. QED
      BY <2>1, <2>2, RestoredTimes
  <1>. QED
    BY <1>1, DeltaInvStart, DeltaInvStep, PTL DEF DeltaSpec

LEMMA ManifestsAreTyped ==
    ASSUME NEW time, NEW tree \in Rooted(time)
    PROVE  tree \in [Paths -> Entries(time)]
  <1>1. PICK below \in [1..Last -> Entries(time)] :
          tree = [p \in Paths |-> IF p = Root THEN Directory(Nothing.stamp, time) ELSE below[p]]
    BY DEF Rooted
  <1>2. Directory(Nothing.stamp, time) \in Entries(time)
    BY Shapes DEF Entries
  <1>3. \A p \in Paths : p # Root => p \in 1..Last
    BY DEF Paths, Root
  <1>. QED
    BY <1>1, <1>2, <1>3

(***************************************************************************)
(* The type invariant of the delta and of the restore of it.               *)
(***************************************************************************)
THEOREM DeltaTypes == DeltaSpec => []DeltaTypeOK
  <1>1. DeltaInv => DeltaTypeOK
    <2>. SUFFICES ASSUME DeltaInv PROVE DeltaTypeOK
      OBVIOUS
    <2>m. Manifest(previous, 0) /\ Manifest(current, 1) /\ Fixed
      BY ManifestsOfTheDelta DEF DeltaInv
    <2>1. previous \in [Paths -> Entries(0)] /\ current \in [Paths -> Entries(1)]
      BY <2>m, ManifestsAreTyped DEF Fixed, OldManifests, NewManifests
    <2>2. ActivePaths \subseteq Paths
      BY <2>m, WantedIsUpwardClosed DEF ActivePaths, Payload
    <2>3. /\ doomed \subseteq Paths /\ todo \subseteq Paths /\ opened \subseteq Paths
          /\ inodes \in [Paths -> Paths]
      BY <2>m, <2>2 DEF Fixed, EnteredPaths, Tombstones
    <2>4. ASSUME NEW p \in Paths
          PROVE  /\ staging[p].kind \in {"none", "directory", "file", "symlink"}
                 /\ staging[p].time \in Times
      <3> DEFINE Fits(e) == /\ e.kind \in {"none", "directory", "file", "symlink"}
                            /\ e.time \in Times
      <3>. SUFFICES Fits(staging[p])
        OBVIOUS
      <3>1. /\ Fits(Nothing) /\ \A s, t : t \in Times => Fits(Directory(s, t))
            /\ \A s : Fits(File(s)) /\ Fits(Symlink(s))
            /\ \A s, l : Fits(Record("file", s, 0, l))
        BY Shapes DEF Record, Times
      <3>2. ASSUME AsInBaseline(p) PROVE Fits(staging[p])
        <4>1. CASE previous[p].kind = "directory"
          BY <3>1, <3>2, <4>1 DEF AsInBaseline
        <4>2. CASE IsFile(previous, p)
          <5>1. PICK r, l : OnDisk(previous)[p] = Record("file", r, 0, l)
            BY <2>m, <4>2, DiskOfManifest
          <5>2. staging[p] = Record("file", r, 0, l)
            BY <3>2, <4>2, <5>1 DEF AsInBaseline, IsFile
          <5>. QED
            BY <3>1, <5>2
        <4>3. CASE previous[p].kind # "directory" /\ ~IsFile(previous, p)
          <5>1. staging[p] = previous[p]
            BY <2>m, <3>2, <4>3, DiskOfManifest DEF AsInBaseline
          <5>2. previous[p] = Nothing \/ previous[p] = Symlink(previous[p].stamp)
            BY <2>m, <4>3 DEF Manifest, IsListable, IsFile
          <5>. QED
            BY <3>1, <5>1, <5>2
        <4>. QED
          BY <4>1, <4>2, <4>3
      <3>3. CASE ~Present(current, p)
        <4> HIDE DEF Fits
        <4>. QED
          BY <3>1, <3>2, <3>3 DEF DeltaInv, GoneInv
      <3>4. CASE Present(current, p) /\ p \notin EnteredPaths
        <4> HIDE DEF Fits
        <4>. QED
          BY <3>2, <3>4 DEF DeltaInv, KeptInv
      <3>5. CASE p \in EnteredPaths
        <4>1. CASE current[p].kind = "directory"
          <5>1. current[p] = Directory(current[p].stamp, 1) /\ 1 \in Times
            BY <2>m, <4>1 DEF Manifest, IsListable, Times
          <5> HIDE DEF Fits
          <5>. QED
            BY <3>1, <3>5, <4>1, <5>1 DEF DeltaInv, NewInv
        <4>2. CASE current[p].kind = "symlink"
          <5>1. current[p] = Symlink(current[p].stamp)
            BY <2>m, <4>2 DEF Manifest, IsListable
          <5> HIDE DEF Fits
          <5>. QED
            BY <3>1, <3>5, <4>2, <5>1 DEF DeltaInv, NewInv
        <4>3. CASE IsFile(current, p)
          <5>1. PICK l : staging[p] = Copy(l)
            BY <3>5, <4>3 DEF DeltaInv, NewInv
          <5>2. staging[p] = Record("file", current[l].stamp, 0, NewInode(inodes[l]))
            BY <5>1, CopyIsAFile
          <5> HIDE DEF Fits
          <5>. QED
            BY <3>1, <5>2
        <4>4. current[p].kind # "none"
          BY <3>5 DEF EnteredPaths, ActivePaths, Payload, Present
        <4>. QED
          BY <2>m, <4>1, <4>2, <4>3, <4>4 DEF Manifest, IsListable, IsFile
      <3>. QED
        BY <3>3, <3>4, <3>5
    <2>. QED
      BY <2>1, <2>3, <2>4 DEF DeltaTypeOK
  <1>. QED
    BY <1>1, DeltaInvStart, DeltaInvStep, PTL DEF DeltaSpec

-----------------------------------------------------------------------------
(***************************************************************************)
(* The destination and the staging names: ChainRestore.                    *)
(***************************************************************************)
HIDE TreeAssumption

USE RestoreAssumption DEF At, Running, Goto, DeltaFails, Kinds, Trees, Partial

(***************************************************************************)
(* The steps of a restore, in the order it goes through them, and those of *)
(* the loop over the deltas.  From its first claim on, a restore has the   *)
(* staging directory.                                                      *)
(***************************************************************************)
Preparing == {"scan", "reclaim", "check", "claimStaging"}
Applying == {"extract", "renewOverlay", "claimDelta", "unpack", "merge"}
Publishing == {"publish", "rename"}
Cleaning == {"cleanStaging", "cleanOverlay", "cleanContainer", "unmark"}
Claiming == {"claimOverlay", "base", "dropOverlay"} \cup Applying \cup Publishing
            \cup Cleaning
Steps == {"none", "mark"} \cup Preparing \cup Claiming

Runs == [pid : Pids \cup {"nobody"}, busy : SUBSET Pids, step : Steps,
         index : 0 .. Deltas, todo : SUBSET (Pids \X Kinds), proofs : SUBSET Pids,
         markerOwned : BOOLEAN, markerCreated : BOOLEAN,
         staging : {"none", "claimed"},
         overlay : {"none", "claimed", "unverifiable"},
         container : BOOLEAN, residue : BOOLEAN]

Typed ==
  /\ destination \in Objects
  /\ entry \in [Pids -> [Kinds -> Objects]]
  /\ marker \in [Pids -> {"none", "ours", "foreign"}]
  /\ run \in Runs
  /\ run.pid \in (Pids \ run.busy) \cup {"nobody"} /\ (Running => run.pid \in Pids)
  /\ runs \in 0 .. MaxRuns /\ acts \in 0 .. MaxUser

(***************************************************************************)
(* Where a restore is says how much of the chain its staging tree holds.   *)
(***************************************************************************)
StagingInv ==
  /\ run.step \in Applying => run.index < Deltas
  /\ run.step \in Publishing => run.index = Deltas
  /\ run.step \in {"claimOverlay", "base"} => run.index = 0
  /\ run.step \in Preparing \cup {"mark"} => run.index = 0
  /\ run.step \in Applying \cup Publishing \cup {"dropOverlay"}
     /\ entry[run.pid]["staging"].by = "restore" =>
       entry[run.pid]["staging"].tree = run.index

Proved(p, k) == entry[p][k].by = "restore" /\ entry[p][k].proved

(***************************************************************************)
(* Who has the marker of the running restore, and which of its names it    *)
(* has to account for: none before its first claim, if the marker is its   *)
(* own, and later those it claimed.                                        *)
(***************************************************************************)
MarkerInv ==
  /\ run.step \in {"none", "mark"} => ~run.markerOwned
  /\ run.markerCreated => run.markerOwned
  /\ run.markerOwned => marker[run.pid] = "ours"
  /\ run.step \in Preparing /\ run.markerCreated =>
       \A k \in Kinds : ~Proved(run.pid, k)
  /\ run.step = "claimStaging" => \A k \in Kinds : ~Proved(run.pid, k)

ClaimsInv ==
  /\ run.step \in Claiming <=> run.staging = "claimed"
  /\ run.step \in {"mark", "claimOverlay"} \cup Preparing => run.overlay = "none" /\ ~run.container
  /\ run.step \in Claiming =>
       /\ Proved(run.pid, "overlay") =>
            run.overlay # "none" \/ (run.residue /\ run.step \in Cleaning)
       /\ Proved(run.pid, "container") => run.container
  /\ run.step \in {"cleanOverlay", "cleanContainer", "unmark"}
     /\ Proved(run.pid, "staging") => run.residue
  /\ run.step \in {"cleanContainer", "unmark"} /\ Proved(run.pid, "overlay") =>
       run.residue
  /\ run.step = "unmark" /\ Proved(run.pid, "container") => run.residue

(***************************************************************************)
(* What a restore found of dead ones, it removes under their markers.      *)
(***************************************************************************)
ReclaimInv ==
  /\ At("reclaim") =>
       /\ run.proofs \subseteq DeadPids
       /\ \A p \in run.proofs : marker[p] = "ours"
       /\ \A pk \in run.todo : pk[1] \in run.proofs
       /\ \A p \in DeadPids, k \in Kinds : Proved(p, k) => <<p, k>> \in run.todo
  /\ LeftoversAreReclaimed

RestoreInv ==
  /\ Typed /\ StagingInv /\ MarkerInv /\ ClaimsInv /\ ReclaimInv
  /\ PublishedIsWhole /\ ResidueKeepsItsProof

-----------------------------------------------------------------------------
(* One name of this restore changes *)

Becomes(k, object) ==
  /\ entry' \in [Pids -> [Kinds -> Objects]]
  /\ \A p \in Pids, j \in Kinds :
       entry'[p][j] = IF p = run.pid /\ j = k THEN object ELSE entry[p][j]

LEMMA PutAt ==
    ASSUME Typed, Running, NEW k \in Kinds, NEW object \in Objects, Put(k, object)
    PROVE  Becomes(k, object)
  BY DEF Typed, Put, Becomes

LEMMA OursIs ==
    ASSUME Typed, NEW tree \in Trees
    PROVE  /\ Ours(tree) \in Objects
           /\ Ours(tree).by = "restore" /\ Ours(tree).tree = tree
           /\ Ours(tree).proved <=> run.markerOwned
  BY DEF Typed, Ours, Objects, Runs

LEMMA AbsentIs == Absent \in Objects /\ Absent.by = "nobody" /\ ~Absent.proved
  BY DEF Absent, Objects

-----------------------------------------------------------------------------
(* How a restore goes on and how it ends *)

(***************************************************************************)
(* Once it has its staging directory, a restore only works on its own      *)
(* names and leaves the marker where it is, until it ends.                 *)
(***************************************************************************)
Continues ==
  /\ run.step \in Claiming /\ run'.step \in Claiming /\ run' \in Runs
  /\ \A field \in {"pid", "busy", "markerOwned", "markerCreated"} : run'[field] = run[field]
  /\ UNCHANGED <<marker, runs, acts>>

LEMMA Onward ==
    ASSUME RestoreInv, Continues, destination' \in Objects, PublishedIsWhole',
           \/ UNCHANGED entry
           \/ \E k \in Kinds, object \in Objects :
                Becomes(k, object) /\ (object.proved => run.markerOwned),
           StagingInv', ClaimsInv'
    PROVE  RestoreInv'
<1>1. /\ run'.pid = run.pid /\ run'.busy = run.busy
      /\ run'.markerOwned <=> run.markerOwned
      /\ run'.markerCreated <=> run.markerCreated
      /\ run'.step \notin Preparing \cup {"none", "mark"}
      /\ run.step \notin Preparing \cup {"none", "mark"}
  BY DEF Continues, Claiming, Applying, Publishing, Cleaning, Preparing, RestoreInv, Typed, Runs
<1>2. Typed'
  BY <1>1 DEF RestoreInv, Typed, Continues, Becomes
<1>3. MarkerInv'
  BY <1>1 DEF RestoreInv, MarkerInv, Continues, Preparing
<1>4. ReclaimInv'
  BY <1>1 DEF ReclaimInv, LeftoversAreReclaimed, Preparing
<1>5. ResidueKeepsItsProof'
  <2>1. \A p \in Pids, k \in Kinds :
          entry'[p][k] = entry[p][k]
            \/ (p = run.pid /\ (entry'[p][k].proved => run.markerOwned))
    BY DEF Becomes
  <2>. QED
    BY <1>1, <2>1 DEF RestoreInv, ResidueKeepsItsProof, MarkerInv, Continues
<1>. QED
  BY <1>2, <1>3, <1>4, <1>5 DEF RestoreInv

LEMMA CleansUp ==
    ASSUME RestoreInv, run.step \in Claiming \ Cleaning, Goto("cleanStaging"),
           UNCHANGED <<destination, entry, marker, runs, acts>>
    PROVE  RestoreInv'
<1>1. Continues /\ run'.step = "cleanStaging"
  BY DEF Continues, RestoreInv, Typed, Runs, Steps, Claiming, Cleaning
<1>2. StagingInv'
  BY <1>1 DEF StagingInv, Applying, Publishing, Preparing
<1>3. ClaimsInv'
  BY DEF RestoreInv, ClaimsInv, Typed, Runs, Claiming, Applying, Publishing, Cleaning,
         Preparing, Proved
<1>. QED
  BY <1>1, <1>2, <1>3, Onward DEF RestoreInv, Typed, PublishedIsWhole

LEMMA Ended ==
    ASSUME RestoreInv, run' = NoRun, UNCHANGED <<destination, runs, acts>>,
           entry' \in [Pids -> [Kinds -> Objects]],
           marker' \in [Pids -> {"none", "ours", "foreign"}], ResidueKeepsItsProof'
    PROVE  RestoreInv'
<1>1. run' \in Runs /\ run'.step = "none" /\ run'.pid = "nobody"
  BY DEF NoRun, Runs, Steps
<1>2. Typed'
  BY <1>1 DEF RestoreInv, Typed
<1>3. StagingInv' /\ MarkerInv' /\ ClaimsInv' /\ ReclaimInv'
  BY <1>1 DEF StagingInv, MarkerInv, ClaimsInv, ReclaimInv, LeftoversAreReclaimed, NoRun,
     Preparing, Applying, Publishing, Claiming, Cleaning
<1>4. PublishedIsWhole'
  BY DEF RestoreInv, PublishedIsWhole
<1>. QED
  BY <1>2, <1>3, <1>4 DEF RestoreInv

LEMMA EndsAsItWas ==
    ASSUME RestoreInv, run' = NoRun, UNCHANGED <<destination, entry, marker, runs, acts>>
    PROVE  RestoreInv'
  BY Ended DEF RestoreInv, Typed, ResidueKeepsItsProof

LEMMA Refuses ==
    ASSUME RestoreInv, run.step \in {"check", "claimStaging"}, Refuse,
           UNCHANGED <<destination, entry, runs, acts>>
    PROVE  RestoreInv'
<1>1. run' = NoRun /\ marker' \in [Pids -> {"none", "ours", "foreign"}]
  BY DEF RestoreInv, Typed, Refuse
<1>2. ResidueKeepsItsProof'
  BY DEF RestoreInv, Typed, Refuse, ResidueKeepsItsProof, MarkerInv, Proved, Preparing
<1>. QED
  BY <1>1, <1>2, Ended DEF RestoreInv, Typed

-----------------------------------------------------------------------------
(* Before the first claim *)

LEMMA CreateMarkerKeeps ==
    ASSUME RestoreInv, CreateMarker
    PROVE  RestoreInv'
<1>1. CASE /\ marker[run.pid] = "none"
         /\ marker' = [marker EXCEPT ![run.pid] = "ours"]
         /\ run' = [run EXCEPT !.step = "scan", !.markerOwned = TRUE,
                              !.markerCreated = TRUE]
  <2>1. Typed'
    BY <1>1 DEF RestoreInv, Typed, Runs, CreateMarker, Steps, Preparing, Applying, Publishing, Claiming, Cleaning
  <2>2. StagingInv'
    BY <1>1 DEF RestoreInv, Typed, Runs, CreateMarker, StagingInv, Steps, Preparing, Applying, Publishing, Claiming, Cleaning
  <2>3. MarkerInv'
    BY <1>1 DEF RestoreInv, Typed, Runs, CreateMarker, MarkerInv, Preparing, Proved, ResidueKeepsItsProof
  <2>4. ClaimsInv'
    BY <1>1 DEF RestoreInv, Typed, Runs, CreateMarker, ClaimsInv, Steps, Preparing, Applying, Publishing, Claiming, Cleaning, Proved
  <2>5. ReclaimInv'
    BY <1>1 DEF RestoreInv, Typed, Runs, CreateMarker, ReclaimInv, LeftoversAreReclaimed, DeadPids, Proved
  <2>6. PublishedIsWhole'
    BY <1>1 DEF RestoreInv, Typed, Runs, CreateMarker, PublishedIsWhole
  <2>7. ResidueKeepsItsProof'
    BY <1>1 DEF RestoreInv, Typed, Runs, CreateMarker, ResidueKeepsItsProof, MarkerInv, Proved
  <2>. QED
    BY <2>1, <2>2, <2>3, <2>4, <2>5, <2>6, <2>7 DEF RestoreInv
<1>2. CASE marker[run.pid] = "none" /\ Goto("scan") /\ UNCHANGED marker
  <2>1. Typed'
    BY <1>2 DEF RestoreInv, Typed, Runs, CreateMarker, Steps, Preparing, Applying, Publishing, Claiming, Cleaning
  <2>2. StagingInv'
    BY <1>2 DEF RestoreInv, Typed, Runs, CreateMarker, StagingInv, Steps, Preparing, Applying, Publishing, Claiming, Cleaning
  <2>3. MarkerInv'
    BY <1>2 DEF RestoreInv, Typed, Runs, CreateMarker, MarkerInv, Preparing, Proved
  <2>4. ClaimsInv'
    BY <1>2 DEF RestoreInv, Typed, Runs, CreateMarker, ClaimsInv, Steps, Preparing, Applying, Publishing, Claiming, Cleaning, Proved
  <2>5. ReclaimInv'
    BY <1>2 DEF RestoreInv, Typed, Runs, CreateMarker, ReclaimInv, LeftoversAreReclaimed, DeadPids, Proved
  <2>6. PublishedIsWhole'
    BY <1>2 DEF RestoreInv, Typed, Runs, CreateMarker, PublishedIsWhole
  <2>7. ResidueKeepsItsProof'
    BY <1>2 DEF RestoreInv, Typed, Runs, CreateMarker, ResidueKeepsItsProof, MarkerInv, Proved
  <2>. QED
    BY <2>1, <2>2, <2>3, <2>4, <2>5, <2>6, <2>7 DEF RestoreInv
<1>3. CASE /\ marker[run.pid] = "ours" /\ UNCHANGED marker
         /\ run' = [run EXCEPT !.step = "scan", !.markerOwned = TRUE]
  <2>1. Typed'
    BY <1>3 DEF RestoreInv, Typed, Runs, CreateMarker, Steps, Preparing, Applying, Publishing, Claiming, Cleaning
  <2>2. StagingInv'
    BY <1>3 DEF RestoreInv, Typed, Runs, CreateMarker, StagingInv, Steps, Preparing, Applying, Publishing, Claiming, Cleaning
  <2>3. MarkerInv'
    BY <1>3 DEF RestoreInv, Typed, Runs, CreateMarker, MarkerInv, Preparing, Proved
  <2>4. ClaimsInv'
    BY <1>3 DEF RestoreInv, Typed, Runs, CreateMarker, ClaimsInv, Steps, Preparing, Applying, Publishing, Claiming, Cleaning, Proved
  <2>5. ReclaimInv'
    BY <1>3 DEF RestoreInv, Typed, Runs, CreateMarker, ReclaimInv, LeftoversAreReclaimed, DeadPids, Proved
  <2>6. PublishedIsWhole'
    BY <1>3 DEF RestoreInv, Typed, Runs, CreateMarker, PublishedIsWhole
  <2>7. ResidueKeepsItsProof'
    BY <1>3 DEF RestoreInv, Typed, Runs, CreateMarker, ResidueKeepsItsProof, MarkerInv, Proved
  <2>. QED
    BY <2>1, <2>2, <2>3, <2>4, <2>5, <2>6, <2>7 DEF RestoreInv
<1>4. CASE marker[run.pid] = "foreign" /\ run' = NoRun /\ UNCHANGED marker
  BY <1>4, Ended, EndsAsItWas DEF RestoreInv, CreateMarker
<1>. QED
  BY <1>1, <1>2, <1>3, <1>4 DEF CreateMarker, CreateMarker

LEMMA ScanStaleKeeps ==
    ASSUME RestoreInv, ScanStale
    PROVE  RestoreInv'
<1>1. \A p \in DeadPids, k \in Kinds : Proved(p, k) =>
        <<p, k>> \in Leftovers /\ marker[p] = "ours"
  BY DEF RestoreInv, Typed, Leftovers, Free, Absent, Proved, DeadPids, ResidueKeepsItsProof
<1>2. PICK proofs, left :
        /\ proofs = {pk[1] : pk \in {x \in Leftovers : marker[x[1]] = "ours"}}
        /\ left = {pk \in Leftovers : pk[1] \in proofs}
  OBVIOUS
<1>3. /\ run.step = "scan" /\ UNCHANGED <<destination, entry, marker, runs, acts>>
      /\ run' = [run EXCEPT !.step = "reclaim", !.proofs = proofs, !.todo = left]
  BY <1>2 DEF ScanStale
<1>4. Leftovers \subseteq DeadPids \X Kinds /\ DeadPids \subseteq Pids
  BY DEF Leftovers, DeadPids
<1>5. proofs \subseteq DeadPids /\ \A p \in proofs : marker[p] = "ours"
  BY <1>2, <1>4
<1>6. \A p \in DeadPids, k \in Kinds : Proved(p, k) => p \in proofs
  <2>1. ASSUME NEW p \in DeadPids, NEW k \in Kinds, Proved(p, k)
        PROVE  p \in proofs
    <3>1. <<p, k>> \in {x \in Leftovers : marker[x[1]] = "ours"} /\ <<p, k>>[1] = p
      BY <1>1, <2>1
    <3>. QED
      BY <1>2, <3>1
  <2>. QED
    BY <2>1
<1>7. /\ left \subseteq Pids \X Kinds /\ proofs \subseteq Pids
      /\ \A pk \in left : pk[1] \in proofs
      /\ \A p \in DeadPids, k \in Kinds : Proved(p, k) => <<p, k>> \in left
  BY <1>1, <1>2, <1>4, <1>5, <1>6
<1>8. Typed'
  BY <1>3, <1>4, <1>5, <1>7 DEF RestoreInv, Typed, Runs, Steps, Preparing, Applying, Publishing, Claiming, Cleaning
<1>9. StagingInv'
  BY <1>3, <1>4, <1>5, <1>7 DEF RestoreInv, Typed, Runs, StagingInv, Steps, Preparing, Applying, Publishing, Claiming, Cleaning
<1>10. MarkerInv'
  BY <1>3, <1>4, <1>5, <1>7 DEF RestoreInv, Typed, Runs, MarkerInv, Preparing, Proved
<1>11. ClaimsInv'
  BY <1>3, <1>4, <1>5, <1>7 DEF RestoreInv, Typed, Runs, ClaimsInv, Steps, Preparing, Applying, Publishing, Claiming, Cleaning, Proved
<1>12. ReclaimInv'
  BY <1>3, <1>4, <1>5, <1>7 DEF RestoreInv, Typed, Runs, ReclaimInv, LeftoversAreReclaimed, DeadPids, Proved
<1>13. PublishedIsWhole'
  BY <1>3, <1>4, <1>5, <1>7 DEF RestoreInv, Typed, Runs, PublishedIsWhole
<1>14. ResidueKeepsItsProof'
  BY <1>3, <1>4, <1>5, <1>7 DEF RestoreInv, Typed, Runs, ResidueKeepsItsProof, MarkerInv, Proved
<1>. QED
  BY <1>8, <1>9, <1>10, <1>11, <1>12, <1>13, <1>14 DEF RestoreInv

LEMMA RemoveStaleKeeps ==
    ASSUME RestoreInv, RemoveStale
    PROVE  RestoreInv'
<1>1. PICK pk \in run.todo :
        /\ \/ entry' = [entry EXCEPT ![pk[1]][pk[2]] = Absent]
           \/ entry' = [entry EXCEPT ![pk[1]][pk[2]].proved = FALSE]
        /\ run' = [run EXCEPT !.todo = @ \ {pk}]
  BY DEF RemoveStale
<1>2. PICK p \in Pids, k \in Kinds :
        pk = <<p, k>> /\ pk[1] = p /\ pk[2] = k /\ p # run.pid
  BY <1>1 DEF RestoreInv, Typed, Runs, ReclaimInv, DeadPids, RemoveStale
<1>3. PICK object \in Objects :
        /\ entry' = [entry EXCEPT ![p][k] = object]
        /\ object.by = "restore" => ~object.proved
  <2>1. CASE entry' = [entry EXCEPT ![p][k] = Absent]
    BY <2>1, AbsentIs
  <2>2. CASE entry' = [entry EXCEPT ![p][k].proved = FALSE]
    <3>1. entry[p][k] \in Objects
      BY DEF RestoreInv, Typed
    <3>2. PICK object : object = [entry[p][k] EXCEPT !.proved = FALSE]
      OBVIOUS
    <3>3. object \in Objects /\ ~object.proved
      BY <3>1, <3>2 DEF Objects
    <3>4. entry' = [entry EXCEPT ![p][k] = object]
      BY <2>2, <3>2
    <3>. QED
      BY <3>3, <3>4
  <2>3. \/ entry' = [entry EXCEPT ![p][k] = Absent]
        \/ entry' = [entry EXCEPT ![p][k].proved = FALSE]
    <3>1. p = pk[1] /\ k = pk[2]
      BY <1>2
    <3>. QED
      BY ONLY <1>1, <3>1
  <2>. QED
    BY <2>1, <2>2, <2>3
<1>5. /\ entry' \in [Pids -> [Kinds -> Objects]]
      /\ \A q \in Pids, j \in Kinds : <<q, j>> # pk => entry'[q][j] = entry[q][j]
      /\ entry'[p][k].by = "restore" => ~entry'[p][k].proved
  BY <1>2, <1>3 DEF RestoreInv, Typed
<1>6. /\ \A q \in Pids, j \in Kinds :
           Proved(q, j)' => entry'[q][j] = entry[q][j] /\ <<q, j>> # pk /\ Proved(q, j)
      /\ \A j \in Kinds : entry'[run.pid][j] = entry[run.pid][j]
  BY <1>2, <1>5 DEF Proved, RestoreInv, Typed, RemoveStale
<1>7. Typed'
  BY <1>1, <1>2, <1>5, <1>6 DEF RestoreInv, Typed, Runs, RemoveStale, Steps, Preparing, Applying, Publishing, Claiming, Cleaning
<1>8. StagingInv'
  BY <1>1, <1>2, <1>5, <1>6 DEF RestoreInv, Typed, Runs, RemoveStale, StagingInv, Steps, Preparing, Applying, Publishing, Claiming, Cleaning
<1>9. MarkerInv'
  BY <1>1, <1>2, <1>5, <1>6 DEF RestoreInv, Typed, Runs, RemoveStale, MarkerInv, Preparing, Proved
<1>10. ClaimsInv'
  BY <1>1, <1>2, <1>5, <1>6 DEF RestoreInv, Typed, Runs, RemoveStale, ClaimsInv, Steps, Preparing, Applying, Publishing, Claiming, Cleaning, Proved
<1>11. ReclaimInv'
  BY <1>1, <1>2, <1>5, <1>6 DEF RestoreInv, Typed, Runs, RemoveStale, ReclaimInv, LeftoversAreReclaimed, DeadPids, Proved
<1>12. PublishedIsWhole'
  BY <1>1, <1>2, <1>5, <1>6 DEF RestoreInv, Typed, Runs, RemoveStale, PublishedIsWhole
<1>13. ResidueKeepsItsProof'
  BY <1>1, <1>2, <1>5, <1>6 DEF RestoreInv, Typed, Runs, RemoveStale, ResidueKeepsItsProof, MarkerInv, Proved
<1>. QED
  BY <1>7, <1>8, <1>9, <1>10, <1>11, <1>12, <1>13 DEF RestoreInv

LEMMA RemoveStaleMarkersKeeps ==
    ASSUME RestoreInv, RemoveStaleMarkers
    PROVE  RestoreInv'
<1>1. \/ \E p \in run.proofs \cap DeadPids :
           /\ marker' = [marker EXCEPT ![p] = "none"]
           /\ run' = [run EXCEPT !.proofs = @ \ {p}]
      \/ run' = [run EXCEPT !.step = "check"] /\ UNCHANGED marker
  BY DEF RestoreInv, ReclaimInv, RemoveStaleMarkers
<1>2. \A p \in DeadPids, k \in Kinds : ~Proved(p, k)
  BY DEF RestoreInv, ReclaimInv, RemoveStaleMarkers
<1>3. Typed'
  BY <1>1, <1>2 DEF RestoreInv, Typed, Runs, RemoveStaleMarkers, Steps, Preparing, Applying, Publishing, Claiming, Cleaning
<1>4. StagingInv'
  BY <1>1, <1>2 DEF RestoreInv, Typed, Runs, RemoveStaleMarkers, StagingInv, Steps, Preparing, Applying, Publishing, Claiming, Cleaning
<1>5. MarkerInv'
  BY <1>1, <1>2 DEF RestoreInv, Typed, Runs, RemoveStaleMarkers, MarkerInv, Preparing, Proved, DeadPids
<1>6. ClaimsInv'
  BY <1>1, <1>2 DEF RestoreInv, Typed, Runs, RemoveStaleMarkers, ClaimsInv, Steps, Preparing, Applying, Publishing, Claiming, Cleaning, Proved
<1>7. ReclaimInv'
  BY <1>1, <1>2 DEF RestoreInv, Typed, Runs, RemoveStaleMarkers, ReclaimInv, LeftoversAreReclaimed, DeadPids, Proved
<1>8. PublishedIsWhole'
  BY <1>1, <1>2 DEF RestoreInv, Typed, Runs, RemoveStaleMarkers, PublishedIsWhole
<1>9. ResidueKeepsItsProof'
  BY <1>1, <1>2 DEF RestoreInv, Typed, Runs, RemoveStaleMarkers, ResidueKeepsItsProof, MarkerInv, Proved, DeadPids
<1>. QED
  BY <1>3, <1>4, <1>5, <1>6, <1>7, <1>8, <1>9 DEF RestoreInv

LEMMA CheckNamesKeeps ==
    ASSUME RestoreInv, CheckNames
    PROVE  RestoreInv'
<1>1. CASE (\A k \in Kinds : Free(run.pid, k)) /\ Goto("claimStaging") /\ UNCHANGED marker
  <2>1. Typed'
    BY <1>1 DEF RestoreInv, Typed, Runs, CheckNames, Free, Steps, Preparing, Applying, Publishing, Claiming, Cleaning
  <2>2. StagingInv'
    BY <1>1 DEF RestoreInv, Typed, Runs, CheckNames, Free, StagingInv, Steps, Preparing, Applying, Publishing, Claiming, Cleaning
  <2>3. MarkerInv'
    BY <1>1 DEF RestoreInv, Typed, Runs, CheckNames, Free, MarkerInv, Preparing, Proved, Absent
  <2>4. ClaimsInv'
    BY <1>1 DEF RestoreInv, Typed, Runs, CheckNames, Free, ClaimsInv, Steps, Preparing, Applying, Publishing, Claiming, Cleaning, Proved
  <2>5. ReclaimInv'
    BY <1>1 DEF RestoreInv, Typed, Runs, CheckNames, Free, ReclaimInv, LeftoversAreReclaimed, DeadPids, Proved
  <2>6. PublishedIsWhole'
    BY <1>1 DEF RestoreInv, Typed, Runs, CheckNames, Free, PublishedIsWhole
  <2>7. ResidueKeepsItsProof'
    BY <1>1 DEF RestoreInv, Typed, Runs, CheckNames, Free, ResidueKeepsItsProof, MarkerInv, Proved
  <2>. QED
    BY <2>1, <2>2, <2>3, <2>4, <2>5, <2>6, <2>7 DEF RestoreInv
<1>2. CASE Refuse
  BY <1>2, Refuses DEF RestoreInv, CheckNames, Free
<1>. QED
  BY <1>1, <1>2 DEF CheckNames, CheckNames, Free

LEMMA ClaimStagingKeeps ==
    ASSUME RestoreInv, ClaimStaging
    PROVE  RestoreInv'
<1>1. CASE /\ Put("staging", Ours(Partial)) /\ UNCHANGED marker
         /\ run' = [run EXCEPT !.staging = "claimed", !.step = "claimOverlay"]
  <2>1. /\ entry' \in [Pids -> [Kinds -> Objects]]
        /\ \A p \in Pids, j \in Kinds :
             entry'[p][j] = IF p = run.pid /\ j = "staging" THEN Ours(Partial) ELSE entry[p][j]
    BY <1>1, PutAt, OursIs DEF RestoreInv, ClaimStaging, Becomes
  <2>2. Typed'
    BY <1>1, <2>1, OursIs DEF RestoreInv, Typed, Runs, ClaimStaging, Steps, Preparing, Applying, Publishing, Claiming, Cleaning
  <2>3. StagingInv'
    BY <1>1, <2>1, OursIs DEF RestoreInv, Typed, Runs, ClaimStaging, StagingInv, Steps, Preparing, Applying, Publishing, Claiming, Cleaning
  <2>4. MarkerInv'
    BY <1>1, <2>1, OursIs DEF RestoreInv, Typed, Runs, ClaimStaging, MarkerInv, Preparing, Proved
  <2>5. ClaimsInv'
    BY <1>1, <2>1, OursIs DEF RestoreInv, Typed, Runs, ClaimStaging, ClaimsInv, Steps, Preparing, Applying, Publishing, Claiming, Cleaning, Proved, MarkerInv
  <2>6. ReclaimInv'
    BY <1>1, <2>1, OursIs DEF RestoreInv, Typed, Runs, ClaimStaging, ReclaimInv, LeftoversAreReclaimed, DeadPids, Proved
  <2>7. PublishedIsWhole'
    BY <1>1, <2>1, OursIs DEF RestoreInv, Typed, Runs, ClaimStaging, PublishedIsWhole
  <2>8. ResidueKeepsItsProof'
    BY <1>1, <2>1, OursIs DEF RestoreInv, Typed, Runs, ClaimStaging, ResidueKeepsItsProof, MarkerInv, Proved
  <2>. QED
    BY <2>2, <2>3, <2>4, <2>5, <2>6, <2>7, <2>8 DEF RestoreInv
<1>2. CASE Put("staging", Ours(Partial)) /\ run' = NoRun /\ UNCHANGED marker
  <2>1. /\ entry' \in [Pids -> [Kinds -> Objects]]
        /\ \A p \in Pids, j \in Kinds :
             entry'[p][j] = IF p = run.pid /\ j = "staging" THEN Ours(Partial) ELSE entry[p][j]
    BY <1>2, PutAt, OursIs DEF RestoreInv, ClaimStaging, Becomes
  <2>2. Ours(Partial).proved => marker[run.pid] = "ours"
    BY OursIs DEF RestoreInv, MarkerInv
  <2>3. ResidueKeepsItsProof'
    BY <1>2, <2>1, <2>2 DEF RestoreInv, ResidueKeepsItsProof
  <2>. QED
    BY <1>2, <2>1, <2>3, Ended DEF RestoreInv, Typed, ClaimStaging
<1>3. CASE Refuse /\ UNCHANGED entry
  BY <1>3, Refuses DEF RestoreInv, ClaimStaging
<1>. QED
  BY <1>1, <1>2, <1>3 DEF ClaimStaging, ClaimStaging

-----------------------------------------------------------------------------
(* From the first claim on *)

LEMMA ClaimOverlayKeeps ==
    ASSUME RestoreInv, ClaimOverlay
    PROVE  RestoreInv'
<1>1. CASE /\ Put("overlay", Ours(Partial)) /\ UNCHANGED marker
         /\ run' = [run EXCEPT !.overlay = "claimed", !.step = "base"]
  <2>1. Becomes("overlay", Ours(Partial)) /\ Ours(Partial) \in Objects
    BY <1>1, PutAt, OursIs DEF RestoreInv, ClaimOverlay
  <2>2. Continues
    BY <1>1 DEF Continues, RestoreInv, Typed, Runs, ClaimOverlay, Steps, Claiming, Applying, Publishing, Cleaning, Preparing
  <2>3. StagingInv'
    BY <1>1, <2>1, OursIs DEF Becomes, RestoreInv, StagingInv, Typed, Runs, ClaimOverlay, Applying, Publishing, Cleaning, Preparing
  <2>4. ClaimsInv'
    BY <1>1, <2>1, OursIs DEF Becomes, RestoreInv, ClaimsInv, Typed, Runs, ClaimOverlay, Claiming, Applying, Publishing, Cleaning, Preparing, Proved
  <2>. QED
    BY <2>1, <2>2, <2>3, <2>4, OursIs, Onward DEF RestoreInv, Typed, PublishedIsWhole, ClaimOverlay
<1>2. PICK claimed \in Objects :
        /\ claimed = Ours(Partial)
        /\ claimed.proved => marker[run.pid] = "ours"
  BY OursIs DEF RestoreInv, Typed, MarkerInv
<1>3. /\ run.pid \in Pids /\ UNCHANGED <<destination, runs, acts>>
      /\ entry \in [Pids -> [Kinds -> Objects]]
      /\ \A k \in Kinds : Proved(run.pid, k) => k = "staging"
  BY DEF RestoreInv, Typed, ClaimOverlay, ClaimsInv, Claiming, Cleaning
<1>4. ASSUME NEW unverifiable \in BOOLEAN, RollBack(unverifiable)
      PROVE  RestoreInv'
  <2>1. PICK left \in [Pids -> [Kinds -> Objects]], gone \in [Pids -> [Kinds -> Objects]] :
          /\ left = [entry EXCEPT ![run.pid]["overlay"] =
                       IF unverifiable THEN claimed ELSE @]
          /\ gone = [left EXCEPT ![run.pid]["staging"] = Absent]
    BY <1>3, AbsentIs
  <2>2. /\ \A p \in Pids, k \in Kinds :
             left[p][k] = IF p = run.pid /\ k = "overlay" /\ unverifiable
                          THEN claimed ELSE entry[p][k]
        /\ \A p \in Pids, k \in Kinds :
             gone[p][k] = IF p = run.pid /\ k = "staging" THEN Absent ELSE left[p][k]
    BY <1>3, <2>1
  <2>3. \/ /\ entry' = gone
           /\ IF unverifiable THEN run' = NoRun /\ UNCHANGED marker ELSE Refuse
        \/ entry' = left /\ run' = NoRun /\ UNCHANGED marker
    BY <1>2, <1>4, <2>1, Zenon DEF RollBack
  <2>4. /\ run' = NoRun /\ marker' \in [Pids -> {"none", "ours", "foreign"}]
        /\ \A p \in Pids : p # run.pid => marker'[p] = marker[p]
        /\ marker' = marker \/ (~unverifiable /\ entry' = gone)
    <3>1. marker \in [Pids -> {"none", "ours", "foreign"}]
      BY DEF RestoreInv, Typed
    <3>2. CASE run' = NoRun /\ UNCHANGED marker
      BY <3>1, <3>2
    <3>3. CASE ~unverifiable /\ entry' = gone /\ Refuse
      BY <1>3, <3>1, <3>3 DEF Refuse
    <3>. QED
      BY <2>3, <3>2, <3>3
  <2>. HIDE DEF Kinds
  <2>5. \A p \in Pids, k \in Kinds :
          entry[p][k].by = "restore" /\ entry[p][k].proved => marker[p] = "ours"
    BY DEF RestoreInv, ResidueKeepsItsProof
  <2>6. ASSUME NEW p \in Pids, NEW k \in Kinds,
               entry'[p][k].by = "restore", entry'[p][k].proved
        PROVE  marker'[p] = "ours"
    <3>1. entry'[p][k] # Absent
      BY <2>6, AbsentIs
    <3>2. entry'[p][k] = left[p][k]
      BY <2>2, <2>3, <3>1
    <3>3. left[p][k] = entry[p][k] \/ (left[p][k] = claimed /\ p = run.pid /\ unverifiable)
      BY <2>2
    <3>4. marker[p] = "ours"
      BY <1>2, <2>5, <2>6, <3>2, <3>3
    <3>5. CASE p # run.pid \/ marker' = marker
      BY <2>4, <3>4, <3>5
    <3>6. CASE p = run.pid /\ ~unverifiable /\ entry' = gone
      <4>1. k # "staging"
        BY <2>2, <3>1, <3>6
      <4>. QED
        BY <1>3, <2>6, <3>2, <3>3, <3>6, <4>1 DEF Proved
    <3>. QED
      BY <2>4, <3>5, <3>6
  <2>. QED
    BY <1>3, <2>1, <2>3, <2>4, <2>6, Ended DEF ResidueKeepsItsProof
<1>. QED
  BY <1>1, <1>4 DEF ClaimOverlay

LEMMA RestoreBaseKeeps ==
    ASSUME RestoreInv, RestoreBase
    PROVE  RestoreInv'
<1>1. CASE /\ Put("staging", Ours(0))
         /\ run' = [run EXCEPT !.step = AfterDelta(0)]
  <2>1. Becomes("staging", Ours(0)) /\ Ours(0) \in Objects
    BY <1>1, PutAt, OursIs DEF RestoreInv, RestoreBase
  <2>2. Continues
    BY <1>1 DEF Continues, RestoreInv, Typed, Runs, RestoreBase, Steps, Claiming, Applying, Publishing, Cleaning, Preparing, AfterDelta
  <2>3. StagingInv'
    BY <1>1, <2>1, OursIs DEF Becomes, RestoreInv, StagingInv, Typed, Runs, RestoreBase, Applying, Publishing, Cleaning, Preparing, AfterDelta
  <2>4. ClaimsInv'
    BY <1>1, <2>1, OursIs DEF Becomes, RestoreInv, ClaimsInv, Typed, Runs, RestoreBase, Claiming, Applying, Publishing, Cleaning, Preparing, Proved, AfterDelta
  <2>. QED
    BY <2>1, <2>2, <2>3, <2>4, OursIs, Onward DEF RestoreInv, Typed, PublishedIsWhole, RestoreBase
<1>2. CASE Goto("cleanStaging") /\ UNCHANGED entry
  BY <1>2, CleansUp DEF RestoreBase, Claiming, Applying, Publishing, Cleaning
<1>. QED
  BY <1>1, <1>2 DEF RestoreBase

LEMMA ExtractKeeps ==
    ASSUME RestoreInv, Extract
    PROVE  RestoreInv'
<1>1. CASE /\ Put("container", Ours(Partial))
         /\ run' = [run EXCEPT !.container = TRUE, !.step = "renewOverlay"]
  <2>1. Becomes("container", Ours(Partial)) /\ Ours(Partial) \in Objects
    BY <1>1, PutAt, OursIs DEF RestoreInv, Extract
  <2>2. Continues
    BY <1>1 DEF Continues, RestoreInv, Typed, Runs, Extract, Steps, Claiming, Applying, Publishing, Cleaning, Preparing
  <2>3. StagingInv'
    BY <1>1, <2>1, OursIs DEF Becomes, RestoreInv, StagingInv, Typed, Runs, Extract, Applying, Publishing, Cleaning, Preparing
  <2>4. ClaimsInv'
    BY <1>1, <2>1, OursIs DEF Becomes, RestoreInv, ClaimsInv, Typed, Runs, Extract, Claiming, Applying, Publishing, Cleaning, Preparing, Proved
  <2>. QED
    BY <2>1, <2>2, <2>3, <2>4, OursIs, Onward DEF RestoreInv, Typed, PublishedIsWhole, Extract
<1>2. CASE DeltaFails /\ UNCHANGED entry
  BY <1>2, CleansUp DEF Extract, Claiming, Applying, Publishing, Cleaning
<1>. QED
  BY <1>1, <1>2 DEF Extract

LEMMA RenewOverlayKeeps ==
    ASSUME RestoreInv, RenewOverlay
    PROVE  RestoreInv'
<1>1. CASE /\ run.overlay = "claimed" /\ Put("overlay", Absent)
         /\ run' = [run EXCEPT !.overlay = "none", !.step = "claimDelta"]
  <2>1. Becomes("overlay", Absent) /\ Absent \in Objects
    BY <1>1, PutAt, AbsentIs DEF RestoreInv, RenewOverlay, ReclaimOverlay
  <2>2. Continues
    BY <1>1 DEF Continues, RestoreInv, Typed, Runs, RenewOverlay, ReclaimOverlay, Steps, Claiming, Applying, Publishing, Cleaning, Preparing
  <2>3. StagingInv'
    BY <1>1, <2>1, AbsentIs DEF Becomes, RestoreInv, StagingInv, Typed, Runs, RenewOverlay, ReclaimOverlay, Applying, Publishing, Cleaning, Preparing
  <2>4. ClaimsInv'
    BY <1>1, <2>1, AbsentIs DEF Becomes, RestoreInv, ClaimsInv, Typed, Runs, RenewOverlay, ReclaimOverlay, Claiming, Applying, Publishing, Cleaning, Preparing, Proved
  <2>. QED
    BY <2>1, <2>2, <2>3, <2>4, AbsentIs, Onward DEF RestoreInv, Typed, PublishedIsWhole, RenewOverlay, ReclaimOverlay
<1>2. CASE Goto("claimDelta") /\ UNCHANGED entry
  <2>1. Continues
    BY <1>2 DEF Continues, RestoreInv, Typed, Runs, RenewOverlay, ReclaimOverlay, Steps, Claiming, Applying, Publishing, Cleaning, Preparing
  <2>2. StagingInv'
    BY <1>2 DEF Becomes, RestoreInv, StagingInv, Typed, Runs, RenewOverlay, ReclaimOverlay, Applying, Publishing, Cleaning, Preparing
  <2>3. ClaimsInv'
    BY <1>2 DEF Becomes, RestoreInv, ClaimsInv, Typed, Runs, RenewOverlay, ReclaimOverlay, Claiming, Applying, Publishing, Cleaning, Preparing, Proved
  <2>. QED
    BY <1>2, <2>1, <2>2, <2>3, Onward DEF RestoreInv, Typed, PublishedIsWhole, RenewOverlay, ReclaimOverlay
<1>. QED
  BY <1>1, <1>2 DEF RenewOverlay, ReclaimOverlay

LEMMA ClaimDeltaKeeps ==
    ASSUME RestoreInv, ClaimDelta
    PROVE  RestoreInv'
<1>1. CASE /\ Put("overlay", Ours(Partial))
         /\ run' = [run EXCEPT !.overlay = "claimed", !.step = "unpack"]
  <2>1. Becomes("overlay", Ours(Partial)) /\ Ours(Partial) \in Objects
    BY <1>1, PutAt, OursIs DEF RestoreInv, ClaimDelta
  <2>2. Continues
    BY <1>1 DEF Continues, RestoreInv, Typed, Runs, ClaimDelta, Steps, Claiming, Applying, Publishing, Cleaning, Preparing
  <2>3. StagingInv'
    BY <1>1, <2>1, OursIs DEF Becomes, RestoreInv, StagingInv, Typed, Runs, ClaimDelta, Applying, Publishing, Cleaning, Preparing
  <2>4. ClaimsInv'
    BY <1>1, <2>1, OursIs DEF Becomes, RestoreInv, ClaimsInv, Typed, Runs, ClaimDelta, Claiming, Applying, Publishing, Cleaning, Preparing, Proved
  <2>. QED
    BY <2>1, <2>2, <2>3, <2>4, OursIs, Onward DEF RestoreInv, Typed, PublishedIsWhole, ClaimDelta
<1>2. CASE /\ Put("overlay", Ours(Partial))
         /\ run' = [run EXCEPT !.overlay = "unverifiable", !.residue = TRUE,
                                !.step = "cleanStaging"]
  <2>1. Becomes("overlay", Ours(Partial)) /\ Ours(Partial) \in Objects
    BY <1>2, PutAt, OursIs DEF RestoreInv, ClaimDelta
  <2>2. Continues
    BY <1>2 DEF Continues, RestoreInv, Typed, Runs, ClaimDelta, Steps, Claiming, Applying, Publishing, Cleaning, Preparing
  <2>3. StagingInv'
    BY <1>2, <2>1, OursIs DEF Becomes, RestoreInv, StagingInv, Typed, Runs, ClaimDelta, Applying, Publishing, Cleaning, Preparing
  <2>4. ClaimsInv'
    BY <1>2, <2>1, OursIs DEF Becomes, RestoreInv, ClaimsInv, Typed, Runs, ClaimDelta, Claiming, Applying, Publishing, Cleaning, Preparing, Proved
  <2>. QED
    BY <2>1, <2>2, <2>3, <2>4, OursIs, Onward DEF RestoreInv, Typed, PublishedIsWhole, ClaimDelta
<1>3. CASE DeltaFails /\ UNCHANGED entry
  BY <1>3, CleansUp DEF ClaimDelta, Claiming, Applying, Publishing, Cleaning
<1>. QED
  BY <1>1, <1>2, <1>3 DEF ClaimDelta

LEMMA UnpackKeeps ==
    ASSUME RestoreInv, Unpack
    PROVE  RestoreInv'
<1>1. CASE /\ Put("container", Absent)
         /\ run' = [run EXCEPT !.container = FALSE, !.step = "merge"]
  <2>1. Becomes("container", Absent) /\ Absent \in Objects
    BY <1>1, PutAt, AbsentIs DEF RestoreInv, Unpack
  <2>2. Continues
    BY <1>1 DEF Continues, RestoreInv, Typed, Runs, Unpack, Steps, Claiming, Applying, Publishing, Cleaning, Preparing
  <2>3. StagingInv'
    BY <1>1, <2>1, AbsentIs DEF Becomes, RestoreInv, StagingInv, Typed, Runs, Unpack, Applying, Publishing, Cleaning, Preparing
  <2>4. ClaimsInv'
    BY <1>1, <2>1, AbsentIs DEF Becomes, RestoreInv, ClaimsInv, Typed, Runs, Unpack, Claiming, Applying, Publishing, Cleaning, Preparing, Proved
  <2>. QED
    BY <2>1, <2>2, <2>3, <2>4, AbsentIs, Onward DEF RestoreInv, Typed, PublishedIsWhole, Unpack
<1>2. CASE Goto("merge") /\ UNCHANGED entry
  <2>1. Continues
    BY <1>2 DEF Continues, RestoreInv, Typed, Runs, Unpack, Steps, Claiming, Applying, Publishing, Cleaning, Preparing
  <2>2. StagingInv'
    BY <1>2 DEF Becomes, RestoreInv, StagingInv, Typed, Runs, Unpack, Applying, Publishing, Cleaning, Preparing
  <2>3. ClaimsInv'
    BY <1>2 DEF Becomes, RestoreInv, ClaimsInv, Typed, Runs, Unpack, Claiming, Applying, Publishing, Cleaning, Preparing, Proved
  <2>. QED
    BY <1>2, <2>1, <2>2, <2>3, Onward DEF RestoreInv, Typed, PublishedIsWhole, Unpack
<1>3. CASE DeltaFails /\ UNCHANGED entry
  BY <1>3, CleansUp DEF Unpack, Claiming, Applying, Publishing, Cleaning
<1>. QED
  BY <1>1, <1>2, <1>3 DEF Unpack

LEMMA MergeKeeps ==
    ASSUME RestoreInv, Merge
    PROVE  RestoreInv'
<1>1. CASE /\ Put("staging", Ours(run.index + 1))
         /\ run' = [run EXCEPT !.index = @ + 1, !.step = "dropOverlay"]
  <2>0. run.index \in 0 .. Deltas /\ run.index + 1 \in 0 .. Deltas /\ run.index + 1 \in Trees
    BY DEF RestoreInv, Typed, Runs, StagingInv, Merge, Applying
  <2>1. Becomes("staging", Ours(run.index + 1)) /\ Ours(run.index + 1) \in Objects
    BY <1>1, <2>0, PutAt, OursIs DEF RestoreInv, Merge
  <2>2. Continues
    BY <1>1, <2>0 DEF Continues, RestoreInv, Typed, Runs, Merge, Steps, Claiming, Applying, Publishing, Cleaning, Preparing
  <2>3. StagingInv'
    BY <1>1, <2>0, <2>1, OursIs DEF Becomes, RestoreInv, StagingInv, Typed, Runs, Merge, Applying, Publishing, Cleaning, Preparing
  <2>4. ClaimsInv'
    BY <1>1, <2>0, <2>1, OursIs DEF Becomes, RestoreInv, ClaimsInv, Typed, Runs, Merge, Claiming, Applying, Publishing, Cleaning, Preparing, Proved
  <2>. QED
    BY <2>0, <2>1, <2>2, <2>3, <2>4, OursIs, Onward DEF RestoreInv, Typed, PublishedIsWhole, Merge
<1>2. CASE Put("staging", Ours(Partial)) /\ DeltaFails
  <2>1. Becomes("staging", Ours(Partial)) /\ Ours(Partial) \in Objects
    BY <1>2, PutAt, OursIs DEF RestoreInv, Merge
  <2>2. Continues
    BY <1>2 DEF Continues, RestoreInv, Typed, Runs, Merge, Steps, Claiming, Applying, Publishing, Cleaning, Preparing
  <2>3. StagingInv'
    BY <1>2, <2>1, OursIs DEF Becomes, RestoreInv, StagingInv, Typed, Runs, Merge, Applying, Publishing, Cleaning, Preparing
  <2>4. ClaimsInv'
    BY <1>2, <2>1, OursIs DEF Becomes, RestoreInv, ClaimsInv, Typed, Runs, Merge, Claiming, Applying, Publishing, Cleaning, Preparing, Proved
  <2>. QED
    BY <2>1, <2>2, <2>3, <2>4, OursIs, Onward DEF RestoreInv, Typed, PublishedIsWhole, Merge
<1>. QED
  BY <1>1, <1>2 DEF Merge

LEMMA DropOverlayKeeps ==
    ASSUME RestoreInv, DropOverlay
    PROVE  RestoreInv'
<1>1. CASE /\ run.overlay = "claimed" /\ Put("overlay", Absent)
         /\ run' = [run EXCEPT !.overlay = "none", !.step = AfterDelta(run.index)]
  <2>1. Becomes("overlay", Absent) /\ Absent \in Objects
    BY <1>1, PutAt, AbsentIs DEF RestoreInv, DropOverlay, ReclaimOverlay
  <2>2. Continues
    BY <1>1 DEF Continues, RestoreInv, Typed, Runs, DropOverlay, ReclaimOverlay, Steps, Claiming, Applying, Publishing, Cleaning, Preparing, AfterDelta
  <2>3. StagingInv'
    <3>1. /\ run'.pid = run.pid /\ run'.index = run.index /\ run.index \in 0 .. Deltas
          /\ \/ run'.step = "extract" /\ run.index < Deltas
             \/ run'.step = "publish" /\ run.index = Deltas
      BY <1>1 DEF RestoreInv, Typed, Runs, AfterDelta
    <3>2. entry'[run.pid]["staging"] = entry[run.pid]["staging"]
      BY <2>1 DEF Becomes, RestoreInv, Typed, DropOverlay, ReclaimOverlay
    <3>3. entry[run.pid]["staging"].by = "restore" => entry[run.pid]["staging"].tree = run.index
      BY DEF RestoreInv, StagingInv, DropOverlay, ReclaimOverlay
    <3>. QED
      BY <3>1, <3>2, <3>3 DEF StagingInv, Applying, Publishing, Preparing
  <2>4. ClaimsInv'
    BY <1>1, <2>1, AbsentIs DEF Becomes, RestoreInv, ClaimsInv, Typed, Runs, DropOverlay, ReclaimOverlay, Claiming, Applying, Publishing, Cleaning, Preparing, Proved, AfterDelta
  <2>. QED
    BY <2>1, <2>2, <2>3, <2>4, AbsentIs, Onward DEF RestoreInv, Typed, PublishedIsWhole, DropOverlay, ReclaimOverlay
<1>2. CASE Goto(AfterDelta(run.index)) /\ UNCHANGED entry
  <2>1. Continues
    BY <1>2 DEF Continues, RestoreInv, Typed, Runs, DropOverlay, ReclaimOverlay, Steps, Claiming, Applying, Publishing, Cleaning, Preparing, AfterDelta
  <2>2. StagingInv'
    BY <1>2 DEF Becomes, RestoreInv, StagingInv, Typed, Runs, DropOverlay, ReclaimOverlay, Applying, Publishing, Cleaning, Preparing, AfterDelta
  <2>3. ClaimsInv'
    BY <1>2 DEF Becomes, RestoreInv, ClaimsInv, Typed, Runs, DropOverlay, ReclaimOverlay, Claiming, Applying, Publishing, Cleaning, Preparing, Proved, AfterDelta
  <2>. QED
    BY <1>2, <2>1, <2>2, <2>3, Onward DEF RestoreInv, Typed, PublishedIsWhole, DropOverlay, ReclaimOverlay
<1>. QED
  BY <1>1, <1>2 DEF DropOverlay, ReclaimOverlay

LEMMA ClearDestinationKeeps ==
    ASSUME RestoreInv, ClearDestination
    PROVE  RestoreInv'
<1>1. CASE destination' = Absent /\ Goto("rename")
  <2>1. Continues
    BY <1>1 DEF Continues, RestoreInv, Typed, Runs, ClearDestination, Steps, Claiming, Publishing
  <2>2. StagingInv'
    BY <1>1 DEF RestoreInv, StagingInv, Typed, Runs, ClearDestination, Applying, Publishing,
            Preparing
  <2>3. ClaimsInv'
    BY <1>1 DEF RestoreInv, ClaimsInv, Typed, Runs, ClearDestination, Claiming, Applying,
            Publishing, Cleaning, Preparing, Proved
  <2>. QED
    BY <1>1, <2>1, <2>2, <2>3, AbsentIs, Onward DEF PublishedIsWhole, ClearDestination
<1>2. CASE Goto("cleanStaging") /\ UNCHANGED destination
  BY <1>2, CleansUp DEF ClearDestination, Claiming, Publishing, Cleaning
<1>. QED
  BY <1>1, <1>2 DEF ClearDestination

LEMMA PublishKeeps ==
    ASSUME RestoreInv, Publish
    PROVE  RestoreInv'
<1>1. CASE /\ destination' = [entry[run.pid]["staging"] EXCEPT !.proved = FALSE]
           /\ Put("staging", Absent) /\ Goto("cleanStaging")
  <2>1. Becomes("staging", Absent) /\ Absent \in Objects
    BY <1>1, PutAt, AbsentIs DEF RestoreInv, Publish
  <2>2. Continues /\ run'.step = "cleanStaging"
    BY <1>1 DEF Continues, RestoreInv, Typed, Runs, Publish, Steps, Claiming, Publishing, Cleaning
  <2>3. entry[run.pid]["staging"] \in Objects
    BY DEF RestoreInv, Typed, Publish
  <2>4. /\ destination' \in Objects
        /\ destination'.by = entry[run.pid]["staging"].by
        /\ destination'.tree = entry[run.pid]["staging"].tree
    BY <1>1, <2>3 DEF Objects
  <2>5. PublishedIsWhole'
    BY <2>4 DEF RestoreInv, StagingInv, Publish, Publishing, PublishedIsWhole
  <2>6. StagingInv'
    BY <2>2 DEF StagingInv, Applying, Publishing, Preparing
  <2>7. ClaimsInv'
    BY <1>1, <2>1, AbsentIs DEF Becomes, RestoreInv, ClaimsInv, Typed, Runs, Publish, Claiming,
            Applying, Publishing, Cleaning, Preparing, Proved
  <2>. QED
    BY <2>1, <2>2, <2>4, <2>5, <2>6, <2>7, AbsentIs, Onward
<1>2. CASE Goto("cleanStaging") /\ UNCHANGED <<destination, entry>>
  BY <1>2, CleansUp DEF Publish, Claiming, Publishing, Cleaning
<1>. QED
  BY <1>1, <1>2 DEF Publish

LEMMA CleanStagingKeeps ==
    ASSUME RestoreInv, CleanStaging
    PROVE  RestoreInv'
<1>1. CASE /\ run.staging = "claimed" /\ Put("staging", Absent)
         /\ Goto("cleanOverlay")
  <2>1. Becomes("staging", Absent) /\ Absent \in Objects
    BY <1>1, PutAt, AbsentIs DEF RestoreInv, CleanStaging, Clean
  <2>2. Continues
    BY <1>1 DEF Continues, RestoreInv, Typed, Runs, CleanStaging, Clean, Steps, Claiming, Applying, Publishing, Cleaning, Preparing
  <2>3. StagingInv'
    BY <1>1, <2>1, AbsentIs DEF Becomes, RestoreInv, StagingInv, Typed, Runs, CleanStaging, Clean, Applying, Publishing, Cleaning, Preparing
  <2>4. ClaimsInv'
    BY <1>1, <2>1, AbsentIs DEF Becomes, RestoreInv, ClaimsInv, Typed, Runs, CleanStaging, Clean, Claiming, Applying, Publishing, Cleaning, Preparing, Proved
  <2>. QED
    BY <2>1, <2>2, <2>3, <2>4, AbsentIs, Onward DEF RestoreInv, Typed, PublishedIsWhole, CleanStaging, Clean
<1>2. CASE run.staging = "none" /\ UNCHANGED entry /\ Goto("cleanOverlay")
  <2>1. Continues
    BY <1>2 DEF Continues, RestoreInv, Typed, Runs, CleanStaging, Clean, Steps, Claiming, Applying, Publishing, Cleaning, Preparing
  <2>2. StagingInv'
    BY <1>2 DEF Becomes, RestoreInv, StagingInv, Typed, Runs, CleanStaging, Clean, Applying, Publishing, Cleaning, Preparing
  <2>3. ClaimsInv'
    BY <1>2 DEF Becomes, RestoreInv, ClaimsInv, Typed, Runs, CleanStaging, Clean, Claiming, Applying, Publishing, Cleaning, Preparing, Proved
  <2>. QED
    BY <1>2, <2>1, <2>2, <2>3, Onward DEF RestoreInv, Typed, PublishedIsWhole, CleanStaging, Clean
<1>3. CASE /\ UNCHANGED entry
         /\ run' = [run EXCEPT !.residue = TRUE, !.step = "cleanOverlay"]
  <2>1. Continues
    BY <1>3 DEF Continues, RestoreInv, Typed, Runs, CleanStaging, Clean, Steps, Claiming, Applying, Publishing, Cleaning, Preparing
  <2>2. StagingInv'
    BY <1>3 DEF Becomes, RestoreInv, StagingInv, Typed, Runs, CleanStaging, Clean, Applying, Publishing, Cleaning, Preparing
  <2>3. ClaimsInv'
    BY <1>3 DEF Becomes, RestoreInv, ClaimsInv, Typed, Runs, CleanStaging, Clean, Claiming, Applying, Publishing, Cleaning, Preparing, Proved
  <2>. QED
    BY <1>3, <2>1, <2>2, <2>3, Onward DEF RestoreInv, Typed, PublishedIsWhole, CleanStaging, Clean
<1>. QED
  BY <1>1, <1>2, <1>3 DEF CleanStaging, Clean

LEMMA CleanOverlayKeeps ==
    ASSUME RestoreInv, CleanOverlay
    PROVE  RestoreInv'
<1>1. CASE /\ run.overlay = "claimed" /\ Put("overlay", Absent)
         /\ Goto("cleanContainer")
  <2>1. Becomes("overlay", Absent) /\ Absent \in Objects
    BY <1>1, PutAt, AbsentIs DEF RestoreInv, CleanOverlay, Clean
  <2>2. Continues
    BY <1>1 DEF Continues, RestoreInv, Typed, Runs, CleanOverlay, Clean, Steps, Claiming, Applying, Publishing, Cleaning, Preparing
  <2>3. StagingInv'
    BY <1>1, <2>1, AbsentIs DEF Becomes, RestoreInv, StagingInv, Typed, Runs, CleanOverlay, Clean, Applying, Publishing, Cleaning, Preparing
  <2>4. ClaimsInv'
    BY <1>1, <2>1, AbsentIs DEF Becomes, RestoreInv, ClaimsInv, Typed, Runs, CleanOverlay, Clean, Claiming, Applying, Publishing, Cleaning, Preparing, Proved
  <2>. QED
    BY <2>1, <2>2, <2>3, <2>4, AbsentIs, Onward DEF RestoreInv, Typed, PublishedIsWhole, CleanOverlay, Clean
<1>2. CASE run.overlay = "none" /\ UNCHANGED entry /\ Goto("cleanContainer")
  <2>1. Continues
    BY <1>2 DEF Continues, RestoreInv, Typed, Runs, CleanOverlay, Clean, Steps, Claiming, Applying, Publishing, Cleaning, Preparing
  <2>2. StagingInv'
    BY <1>2 DEF Becomes, RestoreInv, StagingInv, Typed, Runs, CleanOverlay, Clean, Applying, Publishing, Cleaning, Preparing
  <2>3. ClaimsInv'
    BY <1>2 DEF Becomes, RestoreInv, ClaimsInv, Typed, Runs, CleanOverlay, Clean, Claiming, Applying, Publishing, Cleaning, Preparing, Proved
  <2>. QED
    BY <1>2, <2>1, <2>2, <2>3, Onward DEF RestoreInv, Typed, PublishedIsWhole, CleanOverlay, Clean
<1>3. CASE /\ UNCHANGED entry
         /\ run' = [run EXCEPT !.residue = TRUE, !.step = "cleanContainer"]
  <2>1. Continues
    BY <1>3 DEF Continues, RestoreInv, Typed, Runs, CleanOverlay, Clean, Steps, Claiming, Applying, Publishing, Cleaning, Preparing
  <2>2. StagingInv'
    BY <1>3 DEF Becomes, RestoreInv, StagingInv, Typed, Runs, CleanOverlay, Clean, Applying, Publishing, Cleaning, Preparing
  <2>3. ClaimsInv'
    BY <1>3 DEF Becomes, RestoreInv, ClaimsInv, Typed, Runs, CleanOverlay, Clean, Claiming, Applying, Publishing, Cleaning, Preparing, Proved
  <2>. QED
    BY <1>3, <2>1, <2>2, <2>3, Onward DEF RestoreInv, Typed, PublishedIsWhole, CleanOverlay, Clean
<1>. QED
  BY <1>1, <1>2, <1>3 DEF CleanOverlay, Clean

LEMMA CleanContainerKeeps ==
    ASSUME RestoreInv, CleanContainer
    PROVE  RestoreInv'
<1>1. CASE /\ run.container /\ Put("container", Absent)
         /\ Goto("unmark")
  <2>1. Becomes("container", Absent) /\ Absent \in Objects
    BY <1>1, PutAt, AbsentIs DEF RestoreInv, CleanContainer, Clean
  <2>2. Continues
    BY <1>1 DEF Continues, RestoreInv, Typed, Runs, CleanContainer, Clean, Steps, Claiming, Applying, Publishing, Cleaning, Preparing
  <2>3. StagingInv'
    BY <1>1, <2>1, AbsentIs DEF Becomes, RestoreInv, StagingInv, Typed, Runs, CleanContainer, Clean, Applying, Publishing, Cleaning, Preparing
  <2>4. ClaimsInv'
    BY <1>1, <2>1, AbsentIs DEF Becomes, RestoreInv, ClaimsInv, Typed, Runs, CleanContainer, Clean, Claiming, Applying, Publishing, Cleaning, Preparing, Proved
  <2>. QED
    BY <2>1, <2>2, <2>3, <2>4, AbsentIs, Onward DEF RestoreInv, Typed, PublishedIsWhole, CleanContainer, Clean
<1>2. CASE ~run.container /\ UNCHANGED entry /\ Goto("unmark")
  <2>1. Continues
    BY <1>2 DEF Continues, RestoreInv, Typed, Runs, CleanContainer, Clean, Steps, Claiming, Applying, Publishing, Cleaning, Preparing
  <2>2. StagingInv'
    BY <1>2 DEF Becomes, RestoreInv, StagingInv, Typed, Runs, CleanContainer, Clean, Applying, Publishing, Cleaning, Preparing
  <2>3. ClaimsInv'
    BY <1>2 DEF Becomes, RestoreInv, ClaimsInv, Typed, Runs, CleanContainer, Clean, Claiming, Applying, Publishing, Cleaning, Preparing, Proved
  <2>. QED
    BY <1>2, <2>1, <2>2, <2>3, Onward DEF RestoreInv, Typed, PublishedIsWhole, CleanContainer, Clean
<1>3. CASE /\ UNCHANGED entry
         /\ run' = [run EXCEPT !.residue = TRUE, !.step = "unmark"]
  <2>1. Continues
    BY <1>3 DEF Continues, RestoreInv, Typed, Runs, CleanContainer, Clean, Steps, Claiming, Applying, Publishing, Cleaning, Preparing
  <2>2. StagingInv'
    BY <1>3 DEF Becomes, RestoreInv, StagingInv, Typed, Runs, CleanContainer, Clean, Applying, Publishing, Cleaning, Preparing
  <2>3. ClaimsInv'
    BY <1>3 DEF Becomes, RestoreInv, ClaimsInv, Typed, Runs, CleanContainer, Clean, Claiming, Applying, Publishing, Cleaning, Preparing, Proved
  <2>. QED
    BY <1>3, <2>1, <2>2, <2>3, Onward DEF RestoreInv, Typed, PublishedIsWhole, CleanContainer, Clean
<1>. QED
  BY <1>1, <1>2, <1>3 DEF CleanContainer, Clean

LEMMA FinishKeeps ==
    ASSUME RestoreInv, Finish
    PROVE  RestoreInv'
<1>1. run' = NoRun /\ marker' \in [Pids -> {"none", "ours", "foreign"}]
      /\ UNCHANGED <<destination, entry, runs, acts>>
  BY DEF RestoreInv, Typed, Finish
<1>2. ResidueKeepsItsProof'
  BY DEF RestoreInv, Typed, Finish, ResidueKeepsItsProof, ClaimsInv, Proved, Claiming, Cleaning
<1>. QED
  BY <1>1, <1>2, Ended DEF RestoreInv, Typed

LEMMA CrashKeeps ==
    ASSUME RestoreInv, Crash
    PROVE  RestoreInv'
<1>1. run' = NoRun /\ marker' \in [Pids -> {"none", "ours", "foreign"}]
      /\ UNCHANGED <<destination, entry, runs, acts>>
  BY DEF RestoreInv, Typed, Crash
<1>2. ResidueKeepsItsProof'
  BY DEF RestoreInv, Typed, Crash, ResidueKeepsItsProof
<1>. QED
  BY <1>1, <1>2, Ended DEF RestoreInv, Typed

-----------------------------------------------------------------------------
(* A restore begins; the user works; the directory at first *)

LEMMA StartRestoreKeeps ==
    ASSUME RestoreInv, NEW p \in Pids, NEW busy \in SUBSET Pids, p \notin busy,
           StartRestore(p, busy)
    PROVE  RestoreInv'
<1>1. /\ run' = [NoRun EXCEPT !.pid = p, !.busy = busy, !.step = "mark"]
      /\ runs' = runs + 1 /\ runs < MaxRuns /\ UNCHANGED <<destination, entry, marker, acts>>
  BY DEF StartRestore
<1>2. /\ run' \in Runs /\ run'.step = "mark" /\ run'.pid = p /\ run'.busy = busy
      /\ run'.index = 0 /\ run'.staging = "none" /\ run'.overlay = "none"
      /\ ~run'.container /\ ~run'.markerOwned /\ ~run'.markerCreated
  <2>1. run' = [pid |-> p, busy |-> busy, step |-> "mark", index |-> 0, todo |-> {},
                proofs |-> {}, markerOwned |-> FALSE, markerCreated |-> FALSE,
                staging |-> "none", overlay |-> "none", container |-> FALSE,
                residue |-> FALSE]
    BY <1>1 DEF NoRun
  <2>2. 0 \in 0 .. Deltas /\ "mark" \in Steps
    BY DEF Steps
  <2>. QED
    BY <2>1, <2>2 DEF Runs
<1>3. Typed'
  BY <1>1, <1>2 DEF RestoreInv, Typed
<1>4. StagingInv' /\ MarkerInv' /\ ClaimsInv' /\ ReclaimInv'
  BY <1>2 DEF StagingInv, MarkerInv, ClaimsInv, ReclaimInv, LeftoversAreReclaimed,
     Preparing, Applying, Publishing, Claiming, Cleaning
<1>5. PublishedIsWhole' /\ ResidueKeepsItsProof'
  BY <1>1 DEF RestoreInv, PublishedIsWhole, ResidueKeepsItsProof
<1>. QED
  BY <1>3, <1>4, <1>5 DEF RestoreInv

(***************************************************************************)
(* Whatever the user does, what a restore accounts for does not grow: what *)
(* they put somewhere is not a restore's, and a marker of ours stays.      *)
(***************************************************************************)
LEMMA UserStepKeeps ==
    ASSUME RestoreInv, UserStep
    PROVE  RestoreInv'
<1>1. Users \in Objects /\ Empty \in Objects /\ Absent \in Objects
      /\ Users.by = "user" /\ Empty.by = "empty" /\ Absent.by = "nobody"
  BY DEF Users, Empty, Absent, Objects
<1>2. UNCHANGED <<run, runs>> /\ acts' = acts + 1 /\ acts < MaxUser
  BY DEF UserStep
<1>3. /\ entry' \in [Pids -> [Kinds -> Objects]]
      /\ \A p \in Pids, k \in Kinds :
           entry'[p][k] = entry[p][k] \/ entry'[p][k] = Users
      /\ marker' \in [Pids -> {"none", "ours", "foreign"}]
      /\ \A p \in Pids : marker'[p] = marker[p] \/ (marker[p] = "none" /\ marker'[p] = "foreign")
      /\ destination' = destination \/ destination' \in {Absent, Empty, Users}
  <2>1. CASE \E p \in Pids, k \in Kinds : UserCreates(p, k)
    BY <1>1, <2>1 DEF UserCreates, RestoreInv, Typed
  <2>2. CASE UserReplaces
    BY <1>1, <2>2 DEF UserReplaces, Put, RestoreInv, Typed
  <2>3. CASE \E p \in Pids : UserTakesMarkerName(p)
    BY <2>3 DEF UserTakesMarkerName, RestoreInv, Typed
  <2>4. CASE UserWorksAtDestination
    BY <2>4 DEF UserWorksAtDestination, RestoreInv, Typed
  <2>. QED
    BY <2>1, <2>2, <2>3, <2>4 DEF UserStep
<1>4. \A p \in Pids, k \in Kinds :
        entry'[p][k].by = "restore" => entry'[p][k] = entry[p][k]
  BY <1>1, <1>3
<1>5. \A p \in Pids, k \in Kinds : Proved(p, k)' => Proved(p, k)
  BY <1>2, <1>4 DEF Proved
<1>6. \A p \in Pids : marker[p] = "ours" => marker'[p] = "ours"
  BY <1>3
<1>7. Typed'
  BY <1>1, <1>2, <1>3 DEF RestoreInv, Typed
<1>8. StagingInv'
  BY <1>2, <1>4 DEF RestoreInv, Typed, StagingInv, Applying, Publishing
<1>9. Running => run.pid \in Pids
  BY DEF RestoreInv, Typed
<1>10. \A k \in Kinds : Running =>
         (entry'[run'.pid][k].by = "restore" /\ entry'[run'.pid][k].proved => Proved(run.pid, k))
  BY <1>2, <1>5, <1>9 DEF Proved
<1>11. MarkerInv'
  BY <1>2, <1>6, <1>9, <1>10 DEF RestoreInv, Typed, Runs, MarkerInv, Proved, Preparing
<1>12. ClaimsInv'
  BY <1>2, <1>9, <1>10 DEF RestoreInv, ClaimsInv, Proved, Preparing, Claiming, Applying, Publishing,
     Cleaning
<1>13. ReclaimInv'
  <2>1. DeadPids' = DeadPids /\ DeadPids \subseteq Pids
    BY <1>2 DEF DeadPids
  <2>2. LeftoversAreReclaimed'
    BY <1>2, <1>4, <2>1 DEF RestoreInv, ReclaimInv, LeftoversAreReclaimed
  <2>3. ASSUME At("reclaim")
        PROVE  /\ \A p \in run.proofs : marker'[p] = "ours"
               /\ \A p \in DeadPids, k \in Kinds : Proved(p, k)' => <<p, k>> \in run.todo
    BY <1>5, <1>6, <2>1, <2>3 DEF RestoreInv, Typed, Runs, ReclaimInv
  <2>. QED
    BY <1>2, <2>1, <2>2, <2>3 DEF RestoreInv, ReclaimInv
<1>14. PublishedIsWhole'
  BY <1>1, <1>3 DEF RestoreInv, PublishedIsWhole
<1>15. ResidueKeepsItsProof'
  BY <1>5, <1>6 DEF RestoreInv, ResidueKeepsItsProof, Proved
<1>. QED
  BY <1>7, <1>8, <1>11, <1>12, <1>13, <1>14, <1>15 DEF RestoreInv

LEMMA InitRestoreInv == Init => RestoreInv
<1>. SUFFICES ASSUME Init PROVE RestoreInv
  OBVIOUS
<1>1. Users \in Objects /\ Empty \in Objects /\ Absent \in Objects
      /\ Users.by = "user" /\ Empty.by = "empty" /\ Absent.by = "nobody"
  BY DEF Users, Empty, Absent, Objects
<1>2. run \in Runs /\ run.step = "none" /\ ~run.markerOwned /\ ~run.markerCreated
      /\ run.staging = "none" /\ run.pid = "nobody"
  BY DEF Init, NoRun, Runs, Steps
<1>3. \A p \in Pids, k \in Kinds : entry[p][k] = Absent
  BY DEF Init
<1>4. Typed
  BY <1>1, <1>2 DEF Init, Typed
<1>5. StagingInv /\ MarkerInv /\ ClaimsInv /\ ReclaimInv
  BY <1>2 DEF StagingInv, MarkerInv, ClaimsInv, ReclaimInv, LeftoversAreReclaimed,
     Preparing, Applying, Publishing, Claiming, Cleaning
<1>6. PublishedIsWhole /\ ResidueKeepsItsProof
  BY <1>1, <1>3 DEF Init, PublishedIsWhole, ResidueKeepsItsProof
<1>. QED
  BY <1>4, <1>5, <1>6 DEF RestoreInv

LEMMA StutterKeeps ==
    ASSUME RestoreInv, UNCHANGED vars
    PROVE  RestoreInv'
<1>1. UNCHANGED <<destination, entry, marker, run, runs, acts>>
  BY DEF vars
<1>2. Typed' /\ StagingInv' /\ PublishedIsWhole' /\ ResidueKeepsItsProof'
  BY <1>1 DEF RestoreInv, Typed, StagingInv, PublishedIsWhole, ResidueKeepsItsProof
<1>3. MarkerInv' /\ ClaimsInv' /\ ReclaimInv'
  BY <1>1 DEF RestoreInv, MarkerInv, ClaimsInv, ReclaimInv, LeftoversAreReclaimed, DeadPids, Proved
<1>. QED
  BY <1>2, <1>3 DEF RestoreInv

LEMMA RestoreInvKept == RestoreInv /\ [Next]_vars => RestoreInv'
<1>1. ASSUME RestoreInv, RestoreStep PROVE RestoreInv'
  BY <1>1, CreateMarkerKeeps, ScanStaleKeeps, RemoveStaleKeeps, RemoveStaleMarkersKeeps,
     CheckNamesKeeps, ClaimStagingKeeps, ClaimOverlayKeeps, RestoreBaseKeeps, ExtractKeeps,
     RenewOverlayKeeps, ClaimDeltaKeeps, UnpackKeeps, MergeKeeps, DropOverlayKeeps,
     ClearDestinationKeeps, PublishKeeps, CleanStagingKeeps, CleanOverlayKeeps,
     CleanContainerKeeps, FinishKeeps, Zenon DEF RestoreStep
<1>2. ASSUME RestoreInv, NEW p \in Pids, NEW busy \in SUBSET Pids,
             p \notin busy /\ StartRestore(p, busy)
      PROVE  RestoreInv'
  BY <1>2, StartRestoreKeeps
<1>. QED
  BY <1>1, <1>2, UserStepKeeps, CrashKeeps, StutterKeeps, Zenon DEF Next

(***************************************************************************)
(* The invariant holds whatever the process ids, the length of the chain,  *)
(* the number of restores and what the user does.                          *)
(***************************************************************************)
THEOREM RestoreInvariant == Spec => []RestoreInv
BY InitRestoreInv, RestoreInvKept, PTL DEF Spec

(***************************************************************************)
(* The variables of a restore keep their types.                            *)
(***************************************************************************)
THEOREM RestoreTypes == Spec => []RestoreTypeOK
<1>1. RestoreInv => RestoreTypeOK
  <2>. SUFFICES ASSUME RestoreInv PROVE RestoreTypeOK
    OBVIOUS
  <2>. QED
    BY DEF RestoreInv, Typed, Runs, RestoreTypeOK
<1>. QED
  BY <1>1, RestoreInvariant, PTL

(***************************************************************************)
(* What a restore publishes is the whole chain.                            *)
(***************************************************************************)
THEOREM RestoresPublishTheWhole == Spec => []PublishedIsWhole
<1>1. RestoreInv => PublishedIsWhole
  BY DEF RestoreInv
<1>. QED
  BY <1>1, RestoreInvariant, PTL

(***************************************************************************)
(* What a restore leaves keeps its proof, and what has one is reclaimed.   *)
(***************************************************************************)
THEOREM RestoresReclaim == Spec => []ResidueIsReclaimed
<1>1. RestoreInv => ResidueIsReclaimed
  BY DEF RestoreInv, ReclaimInv, ResidueIsReclaimed
<1>. QED
  BY <1>1, RestoreInvariant, PTL

-----------------------------------------------------------------------------
(* What a restore takes away *)

LEMMA DestinationIsTheUsers ==
    ASSUME RestoreInv, [Next]_vars, destination = Users, destination' # Users
    PROVE  acts' = acts + 1
<1>1. Users # Absent /\ Users # Empty
  BY DEF Users, Absent, Empty
<1>2. CASE RestoreStep
  BY <1>1, <1>2 DEF RestoreStep, CreateMarker, ScanStale, RemoveStale, RemoveStaleMarkers,
     CheckNames, ClaimStaging, ClaimOverlay, RestoreBase, Extract, RenewOverlay, ClaimDelta,
     Unpack, Merge, DropOverlay, ReclaimOverlay, ClearDestination, Publish, CleanStaging,
     CleanOverlay, CleanContainer, Clean, Finish
<1>. QED
  BY <1>1, <1>2 DEF Next, StartRestore, UserStep, Crash, vars

(***************************************************************************)
(* A step that works on the names of this restore leaves the others alone. *)
(***************************************************************************)
LEMMA OnlyItsNames ==
    ASSUME RestoreInv, Running, NEW k \in Kinds, NEW object, Put(k, object)
    PROVE  \A p \in Pids, j \in Kinds : p # run.pid => entry'[p][j] = entry[p][j]
  BY DEF RestoreInv, Typed, Put

LEMMA StrangersStay ==
    ASSUME RestoreInv, [Next]_vars, NEW p \in Pids, NEW k \in Kinds,
           entry[p][k] = Users, entry'[p][k] # Users
    PROVE  \/ p = run.pid /\ run.staging = "claimed" /\ ~At("claimOverlay")
           \/ p # run.pid /\ marker[p] = "ours" /\ p \notin run.busy
<1>1. ~Free(p, k) /\ Users.by = "user"
  BY DEF Free, Users, Absent
<1>2. CASE RemoveStale
  <2>1. PICK pk \in run.todo :
          \/ entry' = [entry EXCEPT ![pk[1]][pk[2]] = Absent]
          \/ entry' = [entry EXCEPT ![pk[1]][pk[2]].proved = FALSE]
    BY <1>2 DEF RemoveStale
  <2>2. PICK q \in Pids, j \in Kinds : pk[1] = q /\ pk[2] = j
    BY <2>1 DEF RestoreInv, Typed, Runs
  <2>3. q \in DeadPids /\ marker[q] = "ours"
    BY <1>2, <2>1, <2>2 DEF RestoreInv, ReclaimInv, RemoveStale
  <2>4. p = q
    BY <2>1, <2>2 DEF RestoreInv, Typed
  <2>. QED
    BY <2>3, <2>4 DEF DeadPids
<1>3. CASE ClaimStaging
  <2>1. p = run.pid /\ k = "staging" /\ Free(run.pid, "staging")
    BY <1>3 DEF RestoreInv, Typed, ClaimStaging, Put
  <2>. QED
    BY <1>1, <2>1
<1>4. CASE ClaimOverlay
  <2>1. PICK claimed : claimed = Ours(Partial)
    OBVIOUS
  <2>2. /\ p = run.pid
        /\ \/ k = "overlay" /\ Free(run.pid, "overlay")
           \/ k = "staging" /\ entry[run.pid]["staging"].by \in {"restore", "nobody"}
    BY <1>4, <2>1 DEF RestoreInv, Typed, ClaimOverlay, Put, RollBack
  <2>. QED
    BY <1>1, <2>2
<1>5. ASSUME run.step \in Claiming \ {"claimOverlay"}, NEW j \in Kinds, NEW object, Put(j, object)
      PROVE  p = run.pid /\ run.staging = "claimed" /\ ~At("claimOverlay")
  <2>1. Running
    BY <1>5 DEF Claiming, Applying, Publishing, Cleaning
  <2>. QED
    BY <1>5, <2>1, OnlyItsNames DEF RestoreInv, ClaimsInv
<1>6. CASE UNCHANGED entry
  BY <1>6
<1>7. CASE RestoreBase \/ Extract \/ RenewOverlay \/ ClaimDelta \/ Unpack \/ Merge \/ DropOverlay
        \/ Publish \/ CleanStaging \/ CleanOverlay \/ CleanContainer
  <2>1. run.step \in Claiming \ {"claimOverlay"}
    BY <1>7 DEF RestoreBase, Extract, RenewOverlay, ClaimDelta, Unpack, Merge, DropOverlay,
       ReclaimOverlay, Publish, CleanStaging, CleanOverlay, CleanContainer, Clean,
       Claiming, Applying, Publishing, Cleaning
  <2>2. UNCHANGED entry \/ \E j \in Kinds : \E object : Put(j, object)
    BY <1>7 DEF RestoreBase, Extract, RenewOverlay, ClaimDelta, Unpack, Merge, DropOverlay,
       ReclaimOverlay, Publish, CleanStaging, CleanOverlay, CleanContainer, Clean
  <2>. QED
    BY <1>5, <1>6, <2>1, <2>2
<1>8. CASE UserStep
  <2>1. UNCHANGED entry \/ (\E q \in Pids, j \in Kinds : UserCreates(q, j)) \/ UserReplaces
    BY <1>8 DEF UserStep, UserTakesMarkerName, UserWorksAtDestination
  <2>2. CASE \E q \in Pids, j \in Kinds : UserCreates(q, j)
    BY <2>2 DEF UserCreates, RestoreInv, Typed
  <2>3. CASE UserReplaces
    BY <2>3 DEF UserReplaces, Put, RestoreInv, Typed
  <2>. QED
    BY <1>6, <2>1, <2>2, <2>3
<1>9. CASE CreateMarker \/ ScanStale \/ RemoveStaleMarkers \/ CheckNames \/ ClearDestination \/ Finish
  BY <1>6, <1>9 DEF CreateMarker, ScanStale, RemoveStaleMarkers, CheckNames, ClearDestination, Finish
<1>10. CASE RestoreStep
  BY <1>2, <1>3, <1>4, <1>7, <1>9, <1>10 DEF RestoreStep
<1>11. CASE Crash \/ UNCHANGED vars
  BY <1>6, <1>11 DEF Crash, vars
<1>12. CASE \E q \in Pids, busy \in SUBSET Pids : q \notin busy /\ StartRestore(q, busy)
  BY <1>6, <1>12 DEF StartRestore
<1>. QED
  BY <1>8, <1>10, <1>11, <1>12 DEF Next

(***************************************************************************)
(* A restore takes away nothing that is not a restore's.                   *)
(***************************************************************************)
THEOREM RestoresLeaveOthersAlone == Spec => OthersAreLeftAlone
<1>1. RestoreInv /\ [Next]_vars =>
        [destination = Users /\ destination' # Users => acts' = acts + 1]_vars
  BY DestinationIsTheUsers
<1>2. RestoreInv /\ [Next]_vars =>
        [\A p \in Pids, k \in Kinds :
           entry[p][k] = Users /\ entry'[p][k] # Users =>
             \/ p = run.pid /\ run.staging = "claimed" /\ ~At("claimOverlay")
             \/ p # run.pid /\ marker[p] = "ours" /\ p \notin run.busy]_vars
  BY StrangersStay
<1>3. Spec => UsersDestinationKept
  BY <1>1, RestoreInvariant, PTL DEF Spec, UsersDestinationKept
<1>4. Spec => StrangersAreLeftAlone
  BY <1>2, RestoreInvariant, PTL DEF Spec, StrangersAreLeftAlone
<1>. QED
  BY <1>3, <1>4 DEF OthersAreLeftAlone

=============================================================================
