----------------------------- MODULE MCCluster -----------------------------
(* Instances of Cluster for TLC. *)
EXTENDS Cluster

CONSTANTS n1, n2, t1, t2
=============================================================================
