---------------------------- MODULE PackedStream ----------------------------
(***************************************************************************)
(* The entries of an archive, and the streams each format accepts.  There  *)
(* are three formats: the first version of the program ("v01": directories *)
(* and files only, read by ArchiveReader), MyPack v2 and ustar.  A stream  *)
(* is a sequence of members; what their headers encode is left out.        *)
(***************************************************************************)
EXTENDS PathTree, Sequences

\* A file has blocks of data, a symbolic link its target, a directory <<>> or
\* what is shut: a mode that lets nobody reach what is in it.
Shut == <<0>>
Member(p, k, t, d) == [path |-> p, kind |-> k, time |-> t, data |-> d, link |-> Root]
LinkMember(p, target) == [Member(p, "hardlink", 0, <<>>) EXCEPT !.link = target]

StreamMembers ==
  [path : Paths, kind : {"directory", "file", "symlink", "fifo", "hardlink"}, time : Int,
   data : Seq(Int), link : Paths]

PathsOf(s) == {s[i].path : i \in DOMAIN s}
MemberAt(s, p) == s[CHOOSE i \in DOMAIN s : s[i].path = p]
KindAt(s, p) == IF p \in PathsOf(s) THEN MemberAt(s, p).kind ELSE "none"
LinksOf(s) == {i \in DOMAIN s : s[i].kind = "hardlink"}

\* A hard link may name another one in ustar: what the chain of path p ends in,
\* or an entry of the circle it runs into.
EndOfChain(s, p) ==
  LET hop[n \in 0 .. Last + 1] ==
        IF n = 0 THEN p
        ELSE IF KindAt(s, hop[n - 1]) = "hardlink"
             THEN MemberAt(s, hop[n - 1]).link ELSE hop[n - 1]
  IN  hop[Last + 1]

Unique(s) == Cardinality(PathsOf(s)) = Len(s)

\* ArchivePathRegistry with require_parent_first, IsValidArchivePath for ".".
ParentsFirst(s) ==
  /\ s # <<>> /\ s[1].path = Root /\ s[1].kind = "directory"
  /\ \A i \in 2 .. Len(s) : \E j \in 1 .. i - 1 :
       s[j].path = Parent[s[i].path] /\ s[j].kind = "directory"

\* PreflightArchive.
AcceptsV01(s) ==
  /\ Unique(s) /\ ParentsFirst(s)
  /\ \A i \in DOMAIN s : s[i].kind \in {"directory", "file"}

\* ScanMyPackV2: a hard link names a regular file, before or after it.
AcceptsMyPack(s) ==
  /\ Unique(s) /\ ParentsFirst(s)
  /\ \A i \in LinksOf(s) : KindAt(s, s[i].link) = "file"

\* Mutated: circles of hard links are not looked for.
UstarWithCircles(s) ==
  /\ s # <<>> /\ Unique(s)
  /\ \A p \in PathsOf(s) : \A q \in Ancestors[p] \ {Root} :
       KindAt(s, q) \in {"none", "directory"}
  /\ \A i \in LinksOf(s) : KindAt(s, EndOfChain(s, s[i].path)) \in {"file", "hardlink"}

\* ustar::Scan: a directory need not be listed, but if one is it must be a
\* directory, whichever comes first.
AcceptsUstar(s) ==
  /\ s # <<>> /\ Unique(s)
  /\ \A p \in PathsOf(s) : \A q \in Ancestors[p] \ {Root} :
       KindAt(s, q) \in {"none", "directory"}
  /\ \A i \in LinksOf(s) : KindAt(s, EndOfChain(s, s[i].path)) = "file"

Accepts(format, s) ==
  CASE format = "v01" -> AcceptsV01(s)
    [] format = "mypack" -> AcceptsMyPack(s)
    [] format = "ustar" -> AcceptsUstar(s)

(***************************************************************************)
(* What a stream means, whatever order it is in: the tree it describes.    *)
(* Two paths have one ino if they are names of one file.  A directory that *)
(* is only implied has whatever time the restore gives it.                 *)
(***************************************************************************)
Untold == -1
NoNode == [kind |-> "none", time |-> 0, data |-> <<>>, ino |-> Root]
NodeOf(m) == [kind |-> m.kind, time |-> m.time, data |-> m.data,
              ino |-> IF m.kind = "file" THEN m.path ELSE Root]
ImpliedDirectory == [NoNode EXCEPT !.kind = "directory", !.time = Untold]
Implied(s) == {Root} \cup UNION {Ancestors[p] : p \in PathsOf(s)}
Meaning(s) ==
  [p \in Paths |->
     CASE KindAt(s, p) = "hardlink" -> NodeOf(MemberAt(s, EndOfChain(s, p)))
       [] KindAt(s, p) \notin {"hardlink", "none"} -> NodeOf(MemberAt(s, p))
       [] KindAt(s, p) = "none" /\ p \in Implied(s) -> ImpliedDirectory
       [] OTHER -> NoNode]
=============================================================================
