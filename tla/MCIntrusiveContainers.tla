----------------------- MODULE MCIntrusiveContainers -----------------------
(* The instance of IntrusiveContainers for TLC. *)
EXTENDS IntrusiveContainers, TLC
=============================================================================
