---------------------------- MODULE MCDiscovery ----------------------------
(* The configurations the run starts from.                                 *)
EXTENDS Discovery

Setup(m, a, n, d, k) == [mode |-> m, adopts |-> a, root |-> n, descend |-> d, calls |-> k]
MCSetups == { Setup("InProcess", TRUE, 0, TRUE, 0),    \* LEGACY, following the host itself
              Setup("Notify", TRUE, 1, TRUE, 1),       \* SIDECAR, following a process it started
              Setup("Notify", FALSE, 1, FALSE, 1) }    \* nothing to scan before a call mid-run
=============================================================================
