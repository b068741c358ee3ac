-------------------------- MODULE MCClusterCleanup ---------------------------
(* ClusterCleanup on small instances; campaigns have their own names, labels  *)
(* and buckets.                                                               *)
EXTENDS ClusterCleanup

Own == [c \in Campaigns |-> c]
=============================================================================
