---------------------------- MODULE MCCpuTails ----------------------------
(* A chain of three processes, under a host that reaps orphans.            *)
EXTENDS CpuTails

CONSTANTS r, m, l   \* the listed root, its child, its grandchild
MCBornTo == (m :> r) @@ (l :> m)
MCSetups == { [reaper |-> TRUE, ignores |-> {}, unreadable |-> {}] }
============================================================================
