-------------------------- MODULE MCScheduledBackup --------------------------
(***************************************************************************)
(* The schedule: the service over its repository, and the controller that  *)
(* runs it.  What passes between them is when a round may start and that   *)
(* it ends, which both model, so a behaviour is about one of them.         *)
(***************************************************************************)
EXTENDS ScheduledBackup, ScheduleController

CONSTANTS r1, r2, none, s1

VARIABLE part

PartInit ==
  /\ part \in {"service", "controller"} /\ Init /\ GuiInit
  /\ part = "controller" => config.strategy = "full"  \* it does not look
PartNext ==
  /\ \/ part = "service" /\ Next /\ UNCHANGED guiVars
     \/ part = "controller" /\ GuiNext /\ UNCHANGED vars
  /\ UNCHANGED part
PartSpec == PartInit /\ [][PartNext]_<<vars, guiVars, part>>
=============================================================================
