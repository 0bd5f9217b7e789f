----------------------------- MODULE MCCronTasks -----------------------------
(***************************************************************************)
(* Instances of CronTasks for TLC.                                         *)
(***************************************************************************)
EXTENDS CronTasks

CONSTANTS n1, n2

=============================================================================
