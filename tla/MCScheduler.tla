----------------------------- MODULE MCScheduler ----------------------------
(***************************************************************************)
(* Model values for checking Scheduler with TLC.                           *)
(***************************************************************************)
EXTENDS Scheduler
=============================================================================
