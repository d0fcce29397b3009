----------------------------- MODULE MCWorkerPool -----------------------------
(***************************************************************************)
(* Small instances of WorkerPool: the other clients connect and say nothing*)
(* until recv times out.                                                   *)
(***************************************************************************)
EXTENDS WorkerPool

CONSTANTS w1, w2, c1, c2, c3, none

OneRequest == [c \in Clients |-> IF c = c1 THEN 1 ELSE 0]
=============================================================================
