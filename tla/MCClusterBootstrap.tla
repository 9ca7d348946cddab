------------------------ MODULE MCClusterBootstrap ------------------------
(* Small instances of ClusterBootstrap for TLC. *)
EXTENDS ClusterBootstrap, TLC

Symmetry == Permutations(Runs) \cup Permutations(NodeIds) \cup Permutations(Hosts)
=============================================================================
