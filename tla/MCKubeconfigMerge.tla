--------------------------- MODULE MCKubeconfigMerge ---------------------------
(* Two clusters and two kubeconfig files, for two processes at a time.         *)
EXTENDS KubeconfigMerge, TLC

CONSTANTS a, b, t1, t2, none, own, p1, p2

\* Clusters, files and processes are told apart by nothing else.
AnyName == Permutations(Clusters) \cup Permutations(Targets) \cup Permutations(Procs)
=============================================================================
