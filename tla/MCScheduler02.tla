--------------------------- MODULE MCScheduler02 ----------------------------
(* The instances of Scheduler02 for TLC.                                   *)
EXTENDS Scheduler02
=============================================================================
