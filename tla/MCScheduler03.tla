--------------------------- MODULE MCScheduler03 ---------------------------
(* The instance of Scheduler03 for TLC. *)
EXTENDS Scheduler03, TLC
=============================================================================
