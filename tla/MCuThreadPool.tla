--------------------------- MODULE MCuThreadPool ---------------------------
(* The instance of uThreadPool for TLC. *)
EXTENDS uThreadPool, TLC
=============================================================================
