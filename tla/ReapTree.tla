------------------------------ MODULE ReapTree ------------------------------
(***************************************************************************)
(* What the reap bookkeeping of the disk and the system probe works on: a  *)
(* tree of processes that use a resource, exit, are reparented and are     *)
(* waited for, and the tracked set the probes see of it.                   *)
(*                                                                         *)
(* A wait folds everything a process used, and everything it had reaped    *)
(* itself, into the process that waits (the I/O counters and cutime of     *)
(* kernel/exit.c); a process whose parent ignores SIGCHLD is folded into   *)
(* nobody.  A unit of use keeps its origin, so that a probe's account of   *)
(* it can be compared with the truth.  Numbers are not reused here.        *)
(***************************************************************************)
EXTENDS Integers, FiniteSets, FiniteSetsExt, Functions, TLC

CONSTANTS
  Procs,     \* the processes
  Root,      \* the listed one, a child of the host
  BornTo,    \* BornTo[p]: the parent of every other one
  Late,      \* those discovered later on
  MaxUse,    \* bound on the units used; an account is linear in them
  Setups     \* whether the host adopts and reaps orphans (and said so), which processes
             \* ignore SIGCHLD, and of which no I/O can be read

Host    == "host"
Outside == "outside"
Nobody  == "nobody"

\* Every line of parents ends at the root, and whatever is discovered is so after its parent.
ASSUME Tree == /\ IsFiniteSet(Procs) /\ {Host, Outside, Nobody} \cap Procs = {}
               /\ Root \in Procs /\ BornTo \in [Procs \ {Root} -> Procs] /\ MaxUse \in Nat
               /\ \A S \in SUBSET (Procs \ {Root}) : S # {} => \E p \in S : BornTo[p] \notin S
               /\ Late \subseteq Procs \ {Root}
               /\ \A p \in Procs \ {Root} : BornTo[p] \in Late => p \in Late
               /\ Setups \subseteq [reaper : BOOLEAN, ignores : SUBSET Procs, unreadable : SUBSET Procs]

VARIABLES
  setup,     \* the one of Setups
  st,        \* "alive", "zombie", "gone" (its number is free)
  par,       \* parent; of one that is gone, whoever waited for it
  used,      \* what it used itself
  held,      \* held[p][q]: what of q's use p holds by waiting
  tracked,   \* its entry: "never", "live", "ended" (pending_removal), "announced" (in the
             \* snapshot a flush writes), "dropped" (committed)
  under,     \* ProcessEntry::parent_pid
  noted      \* NoteAdoptedExit was called for it

tree  == <<setup, st, par, used, held>>
table == <<tracked, under, noted>>

Nothing == [q \in Procs |-> 0]
Plus(a, b)  == [q \in Procs |-> a[q] + b[q]]
Minus(a, b) == [q \in Procs |-> a[q] - b[q]]
Own(p)   == [q \in Procs |-> IF q = p THEN used[p] ELSE 0]
Total(p) == Plus(Own(p), held[p])

\* Functions and sums over them.
Over(f, g)  == [x \in DOMAIN f \cup DOMAIN g |-> IF x \in DOMAIN f THEN f[x] ELSE g[x]]
Kept(f, S)  == [x \in DOMAIN f \cap S |-> f[x]]
Sum(f, S)   == FoldSet(LAMBDA p, acc : Plus(acc, f[p]), Nothing, S)
Carries(v)  == {q \in Procs : v[q] > 0}
Amount(v)   == MapThenSumSet(LAMBDA q : v[q], Procs)

Entries == {p \in Procs : tracked[p] \in {"live", "ended", "announced"}}    \* SnapshotProcesses

TreeInit ==
  /\ setup \in Setups
  /\ st = [p \in Procs |-> "alive"]
  /\ par = [p \in Procs |-> IF p = Root THEN Host ELSE BornTo[p]]
  /\ used = Nothing
  /\ held = [p \in Procs |-> Nothing]
  /\ tracked = [p \in Procs |-> IF p \in Late THEN "never" ELSE "live"]
  /\ under = [p \in Procs |-> IF p \in Late THEN Nobody ELSE par[p]]
  /\ noted = {}

----------------------------------------------------------------------------
Use(p) ==
  /\ st[p] = "alive" /\ Amount(used) < MaxUse
  /\ used' = [used EXCEPT ![p] = @ + 1]
  /\ UNCHANGED <<setup, st, par, held, table>>

\* Exit: the children go to the host or out of the tree, where a zombie is waited for
\* at once; the process itself is a zombie unless it is reaped by its exit.
Heir == IF setup.reaper THEN Host ELSE Outside
Exit(p) ==
  /\ st[p] = "alive"
  /\ st' = [q \in Procs |->
              IF q = p THEN (IF par[p] = Outside \/ par[p] \in setup.ignores THEN "gone" ELSE "zombie")
              ELSE IF par[q] = p /\ st[q] = "zombie" /\ Heir = Outside THEN "gone" ELSE st[q]]
  /\ par' = [q \in Procs |-> IF st[q] = "gone" THEN par[q] ELSE IF st'[q] = "gone" THEN Nobody
                              ELSE IF par[q] = p THEN Heir ELSE par[q]]
  /\ UNCHANGED <<setup, used, held, table>>

\* wait_task_zombie.
Wait(p) ==
  /\ st[p] = "zombie" /\ par[p] \in Procs
  /\ st' = [st EXCEPT ![p] = "gone"]
  /\ held' = [held EXCEPT ![par[p]] = Plus(@, Total(p)), ![p] = Nothing]
  /\ UNCHANGED <<setup, par, used, table>>

\* The host waits for its own child, or for an orphan it adopted: discovery has noted
\* the exit before (NoteAdoptedExit), and nobody asks about one not yet reaped.
HostWaits(p) ==
  /\ st[p] = "zombie" /\ par[p] = Host
  /\ p = Root \/ tracked[p] # "never"
  /\ st' = [st EXCEPT ![p] = "gone"]
  /\ held' = [held EXCEPT ![p] = Nothing]
  /\ noted' = IF p = Root THEN noted ELSE noted \cup {p}
  /\ UNCHANGED <<setup, par, used, tracked, under>>

\* Discovery registers the living child of a process it follows.
Register(p) ==
  /\ st[p] = "alive" /\ tracked[p] = "never"
  /\ par[p] \in Procs /\ st[par[p]] = "alive" /\ tracked[par[p]] # "never"
  /\ tracked' = [tracked EXCEPT ![p] = "live"]
  /\ under' = [under EXCEPT ![p] = par[p]]
  /\ UNCHANGED <<tree, noted>>

\* A flush snapshots the table ...
Pending(state) == {p \in Procs : tracked[p] = state}
Announce ==
  /\ Pending("announced") = {} /\ Pending("ended") # {}
  /\ tracked' = [p \in Procs |-> IF tracked[p] = "ended" THEN "announced" ELSE tracked[p]]
  /\ UNCHANGED <<tree, under, noted>>

\* ... and, the frame written, drops the removals that were in it.
Commit ==
  /\ Pending("announced") # {}
  /\ tracked' = [p \in Procs |-> IF tracked[p] = "announced" THEN "dropped" ELSE tracked[p]]
  /\ UNCHANGED <<tree, under, noted>>

\* PollTracked marks what its poll finds dead.
Ended(found) == [p \in Procs |-> IF p \in found THEN "ended" ELSE tracked[p]]

TreeNext ==
  \/ \E p \in Procs : Use(p) \/ Exit(p) \/ Wait(p) \/ HostWaits(p) \/ Register(p)
  \/ Announce \/ Commit

\* RootParentOf: up the parents registered, while each is in the snapshot; the listed
\* root's is the answer.
RootParentOf(p, snapshot) ==
  LET Above[q \in Procs] == IF q = Root THEN under[q]
                            ELSE IF under[q] \in snapshot THEN Above[under[q]] ELSE Nobody
  IN Above[p]

\* mutant: one the rule says nothing of is taken to be the host's.
WhoReaped_HostByDefault(p, rootParent, adopted) ==
  IF p \notin adopted /\ setup.reaper /\ rootParent = Host THEN "Parent" ELSE "Host"

\* WhoReaped: adopted is what RefreshReapRule had taken over when it is asked.
WhoReaped(p, rootParent, adopted) ==
  IF p \in adopted THEN "Host" ELSE IF setup.reaper /\ rootParent = Host THEN "Parent" ELSE "Unknown"

\* IgnoresSigchld, of a process that may be gone; value_or(false).
IgnoresSigchld(p) == p \in setup.ignores /\ st[p] # "gone"
=============================================================================
