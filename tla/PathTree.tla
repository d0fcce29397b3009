------------------------------ MODULE PathTree ------------------------------
(***************************************************************************)
(* The paths of a source directory.  0 is the directory itself, "." in an  *)
(* archive; the others are numbered as a walk that visits the names of a   *)
(* directory in their order meets them, so a directory comes before what   *)
(* is in it and a whole subtree before the next name.                      *)
(***************************************************************************)
EXTENDS Integers, FiniteSets

CONSTANTS Last,   \* the number of paths below the source root
          Parent  \* Parent[p]: the directory of path p

Paths == 0 .. Last
Root == 0

ASSUME TreeAssumption ==
  /\ Last \in Nat
  /\ Parent \in [1 .. Last -> Paths]
  /\ \A p \in 1 .. Last : Parent[p] < p

Ancestors[p \in Paths] == IF p = Root THEN {} ELSE {Parent[p]} \cup Ancestors[Parent[p]]
Below(p) == {q \in Paths : p \in Ancestors[q]}
Children(p) == {q \in 1 .. Last : Parent[q] = p}
Depth(p) == Cardinality(Ancestors[p])
=============================================================================
