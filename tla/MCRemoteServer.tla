--------------------------- MODULE MCRemoteServer ---------------------------
(***************************************************************************)
(* A small instance of RemoteServer.  Once something has failed, what is   *)
(* left to see needs one account and one second only; without faults there *)
(* are two accounts and two seconds.                                       *)
(***************************************************************************)
EXTENDS RemoteServer, TLC

CONSTANTS alice, bob, noname, none, free, root, photos, c1, c2, c3, d1, d2, d3

Symmetry == Permutations(Conns) \cup Permutations(Dirs) \cup Permutations(Names)

Explored == Undisturbed \/ (LiveUsers \cup deletedUsers \subseteq {1} /\ now = 0)
MCSpec == Init /\ [][Next /\ Explored']_vars
=============================================================================
