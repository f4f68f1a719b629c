---------------------------- MODULE MCScheduler ----------------------------
(***************************************************************************)
(* Instances of Scheduler small enough for TLC: the tasks are model values *)
(* of the configurations.                                                  *)
(***************************************************************************)
EXTENDS Scheduler

=============================================================================
