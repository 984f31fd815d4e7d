----------------------------- MODULE MCScheduler -----------------------------
(***************************************************************************)
(* Instances of Scheduler for TLC.  The configurations give the constants; *)
(* each one switches on the part of the interface its question is about.   *)
(***************************************************************************)
EXTENDS Scheduler
==============================================================================
