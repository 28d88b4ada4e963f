--------------------------- MODULE MCScheduler04 ---------------------------
(* Instances of Scheduler04 for TLC. *)
EXTENDS Scheduler04, TLC
Symmetry == Permutations(UT)
=============================================================================
