--------------------------- MODULE MCChainRestore ---------------------------
(***************************************************************************)
(* Two process ids, so that a later restore may or may not get the id of a *)
(* dead one; the ids are interchangeable.                                  *)
(***************************************************************************)
EXTENDS ChainRestore, TLC

PidsAreAlike == Permutations(Pids)
=============================================================================
