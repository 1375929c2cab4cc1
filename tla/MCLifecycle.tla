----------------------------- MODULE MCLifecycle -----------------------------
(* Symmetry of the host's threads, for the runs of safety properties.       *)
EXTENDS Lifecycle

HostSymmetry == Permutations(Hosts)
==============================================================================
