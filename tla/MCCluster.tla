------------------------------- MODULE MCCluster -------------------------------
(* An instance of Cluster for TLC. *)
EXTENDS Cluster

CONSTANTS h1, h2, a1

TwoHosts == {h1, h2}
OneAdmin == {a1}
================================================================================
