------------------------- MODULE MCRealtimeController -------------------------
(***************************************************************************)
(* Small instances of RealtimeController.                                  *)
(***************************************************************************)
EXTENDS RealtimeController

CONSTANTS none, r1, r2, overlapping
=============================================================================
