---------------------------- MODULE SnapshotSet -----------------------------
(***************************************************************************)
(* What a backup repository promises: a set of named snapshots, each of    *)
(* which restores one content.  A snapshot appears whole and at once, its  *)
(* content never changes, and it disappears alone: no operation of the     *)
(* program on one snapshot touches what another one restores.  Only the    *)
(* user, with his hands in the directory, can do anything else.            *)
(*                                                                         *)
(* SnapshotRepository implements it with archives, chains of deltas and    *)
(* sidecar files that are written one after the other.                     *)
(***************************************************************************)
EXTENDS Naturals

CONSTANTS Name, Content, Nothing

VARIABLES held,     \* name -> the content the snapshot restores, or Nothing
          touched   \* how many times the user has worked on the directory

heldVars == <<held, touched>>

\* One snapshot appears, or one disappears; the others restore what they did.
PublishOrWithdraw ==
  /\ \E n \in Name :
       /\ held[n] # held'[n]
       /\ held[n] = Nothing \/ held'[n] = Nothing
       /\ \A m \in Name \ {n} : held'[m] = held[m]
  /\ UNCHANGED touched

UserInterferes ==
  /\ touched' = touched + 1
  /\ \A n \in Name : held'[n] \in Content \cup {Nothing}

SetInit == held = [n \in Name |-> Nothing] /\ touched = 0

SetNext == PublishOrWithdraw \/ UserInterferes

SetSpec == SetInit /\ [][SetNext]_heldVars
=============================================================================
