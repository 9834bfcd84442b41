----------------------------- MODULE MCPodLease -----------------------------
(* Instance of PodLease for TLC. *)
EXTENDS PodLease, TLC

Symmetry == Permutations(Pods)
=============================================================================
