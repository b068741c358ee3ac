--------------------------- MODULE MCClusterSetup ---------------------------
(* ClusterSetup on a small instance: two flag files, two namespaces.         *)
EXTENDS ClusterSetup, TLC

\* One object of the namespace and one of the cluster stand for the five.
MCRights == <<"role", "clusterRole">>

\* Operators and flag files are interchangeable; the properties are safety.
Interchangeable == Permutations(Operators) \cup Permutations(Slots)
=============================================================================
