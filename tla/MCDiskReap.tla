---------------------------- MODULE MCDiskReap ----------------------------
(* A chain of three processes and the situations the run starts from.      *)
EXTENDS DiskReap

CONSTANTS r, m, l   \* the listed root, its child, its grandchild
MCBornTo == (m :> r) @@ (l :> m)

Situation(a, i, u) == [reaper |-> a, ignores |-> i, unreadable |-> u]
MCSetups == { Situation(TRUE, {}, {}), Situation(FALSE, {}, {}),
              Situation(FALSE, {m}, {}), Situation(FALSE, {}, {m}) }
============================================================================
