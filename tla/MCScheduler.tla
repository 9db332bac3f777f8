---------------------------- MODULE MCScheduler ----------------------------
(* Small instances of Scheduler are given entirely by the configurations. *)
EXTENDS Scheduler
=============================================================================
