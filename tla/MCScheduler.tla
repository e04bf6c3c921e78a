------------------------------ MODULE MCScheduler ------------------------------
(******************************************************************************)
(* Small instances of the scheduler for TLC.                                  *)
(******************************************************************************)
EXTENDS Scheduler

================================================================================
