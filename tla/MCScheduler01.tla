--------------------------- MODULE MCScheduler01 ---------------------------
(* The instance of Scheduler01 for TLC. *)
EXTENDS Scheduler01, TLC
=============================================================================
