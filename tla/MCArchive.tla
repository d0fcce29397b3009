------------------------------ MODULE MCArchive ------------------------------
(***************************************************************************)
(* A directory with two entries in it, and an entry beside it: archives of *)
(* it, and the deltas between any two states of it.  The two have nothing  *)
(* in common but the paths; a behaviour is about one of them.              *)
(***************************************************************************)
EXTENDS ArchivePipeline, DeltaTree

DirectoryOf == <<0, 1, 1, 0>>

\* For the deltas.
KindsOf == <<{"directory", "file"}, {"file", "symlink"}, {"file", "hardlink"},
             {"file", "hardlink", "symlink"}>>

\* For the archives.
Trees ==
  {<<"directory", "file", "same", b>> : b \in {"file", "same"}}
  \cup {<<"directory", "file", "none", b>> :
          b \in {"empty", "file", "same", "symlink", "fifo", "socket"}}
Filters == {{}, {2}}
Listable == {0, 1, 2, 4}
Members ==
  UNION {{Member(p, "directory", 1, <<>>), Member(p, "file", 1, <<1>>),
          Member(p, "symlink", 1, <<1>>)}
         \cup {LinkMember(p, q) : q \in Listable \ {Root}} : p \in Listable}
  \cup {Member(p, "directory", 1, Shut) : p \in {0, 1}}
ForeignStreams ==
  {<<a>> : a \in Members} \cup {<<a, b>> : a, b \in Members}
  \cup {<<a, b, c>> : a, b, c \in Members}

NoArchive ==
  /\ AtRest
  /\ phase = "none" /\ toVisit = {} /\ method = "none" /\ excluded = {}
  /\ archive = NoFile
  /\ names = [p \in Paths |-> 0] /\ nodes = [i \in Nodes |-> Gone]
NoDelta ==
  /\ previous = [p \in Paths |-> Nothing] /\ current = previous /\ staging = previous
  /\ doomed = {} /\ todo = {Last} /\ opened = {} \* a merge that never begins
  /\ inodes = [p \in Paths |-> 0]

Init == (ArchiveInit /\ NoDelta) \/ (DeltaInit /\ NoArchive)
Next ==
  \/ ArchiveNext /\ UNCHANGED deltaVars
  \/ DeltaNext /\ UNCHANGED archiveVars
Spec == Init /\ [][Next]_<<archiveVars, deltaVars>>
=============================================================================
