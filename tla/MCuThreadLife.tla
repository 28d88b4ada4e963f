--------------------------- MODULE MCuThreadLife ---------------------------
(* The instance of uThreadLife for TLC. *)
EXTENDS uThreadLife, TLC
=============================================================================
