------------------------ MODULE MCScheduleController ------------------------
(***************************************************************************)
(* The controller of the schedule alone.                                   *)
(***************************************************************************)
EXTENDS ScheduleController
CONSTANTS r1, r2, none, s1
=============================================================================
