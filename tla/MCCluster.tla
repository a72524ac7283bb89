------------------------------ MODULE MCCluster ------------------------------
(* A small instance of Cluster for TLC. *)
EXTENDS Cluster, TLC
=============================================================================
