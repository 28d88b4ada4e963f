----------------------------- MODULE MCCluster -----------------------------
(* The instance of Cluster for TLC. *)
EXTENDS Cluster, TLC
=============================================================================
