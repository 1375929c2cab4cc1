------------------------------ MODULE CpuTails ------------------------------
(***************************************************************************)
(* The system probe's sample thread (system_profiler.cpp): per-process CPU *)
(* deltas, and the exit tails, the CPU a discovered process used after its *)
(* last sample, measured on the cutime of the tracked parent that waits    *)
(* for it.                                                                 *)
(*                                                                         *)
(* A wait adds a process's CPU and its cutime to the cutime of its parent: *)
(* held.  A tick reads every process, polls, and then reads the cutime of  *)
(* every parent in some order.  Memory, host statistics and clock ticks    *)
(* are left out.                                                           *)
(***************************************************************************)
EXTENDS ReapTree

VARIABLES
  prevPID,           \* process -> its CPU at its last sample
  discoveredParent,  \* discovered, seen and not exited yet -> the parent it was found under
  discoveredMeta,    \* discovered -> its RootParentOf
  awaitingTail,      \* ExitedChild
  childrenCpu,       \* process -> cutime as last read
  tailSettled,       \* discovered, its tail emitted or given up on
  scan,              \* the sample thread: where it is, and its locals
  reported,          \* history: what samples and tails carry, by origin
  doubtful           \* history: origins in ambiguousPids

noting == <<discoveredParent, awaitingTail>>
cpu    == <<prevPID, noting, discoveredMeta, childrenCpu, tailSettled, scan, reported, doubtful>>

Between == [pc |-> "between", todo |-> {}, snap |-> {}, live |-> {}, read |-> <<>>,
            kids |-> <<>>, adopted |-> {}]

CpuInit ==
  /\ TreeInit
  /\ prevPID = <<>> /\ discoveredParent = <<>> /\ discoveredMeta = <<>>
  /\ awaitingTail = <<>> /\ childrenCpu = <<>> /\ tailSettled = {}
  /\ scan = Between
  /\ reported = Nothing /\ doubtful = {}

Or(f, x, d) == IF x \in DOMAIN f THEN f[x] ELSE d
Discovered(p) == p # Root

\* NoteExited: what was accounted for of p; the parent it has now will reap it.
NoteExited(S, parents) ==
  /\ discoveredParent' = Kept(parents, Procs \ S)
  /\ awaitingTail' = [p \in S \cap DOMAIN parents |->
                        [parent  |-> IF st[p] = "gone" THEN parents[p] ELSE par[p],
                         last    |-> IF p \in DOMAIN prevPID THEN [Nothing EXCEPT ![p] = prevPID[p]] ELSE Nothing,
                         reapedBy |-> Or(childrenCpu, p, Nothing),
                         root    |-> Or(discoveredMeta, p, Nobody)]] @@ awaitingTail

TakeSnapshot ==
  /\ scan.pc = "between"
  /\ scan' = [scan EXCEPT !.pc = "read", !.snap = Entries, !.todo = Entries,
                !.live = {p \in Entries : tracked[p] = "live"}]
  /\ UNCHANGED <<prevPID, noting, discoveredMeta, childrenCpu, tailSettled, reported, doubtful>>

\* One entry: followed if discovered, and its CPU read unless it is gone.
Read(p) ==
  LET seen    == Discovered(p) /\ p \in scan.live /\ p \notin DOMAIN awaitingTail \cup tailSettled
      parents == IF seen THEN (p :> under[p]) @@ discoveredParent ELSE discoveredParent
      skipped == p \notin scan.live \/ st[p] = "gone"
  IN /\ scan.pc = "read" /\ p \in scan.todo /\ under[p] \notin scan.todo
     /\ discoveredMeta' = IF seen THEN discoveredMeta @@ (p :> RootParentOf(p, scan.snap)) ELSE discoveredMeta
     /\ IF skipped THEN NoteExited({p}, parents)
        ELSE discoveredParent' = parents /\ UNCHANGED awaitingTail
     /\ scan' = [scan EXCEPT !.todo = @ \ {p}, !.read = IF skipped THEN @ ELSE @ @@ (p :> used[p])]
     /\ UNCHANGED <<prevPID, childrenCpu, tailSettled, reported, doubtful>>

\* The poll, and a sample for every process read and alive after it that has a
\* baseline; what left the snapshot is noted.
PollAndSample ==
  LET found  == {p \in scan.live : st[p] # "alive"}
      kept   == DOMAIN scan.read \ found
      sample == [p \in Procs |-> IF p \in kept \cap DOMAIN prevPID THEN scan.read[p] - prevPID[p] ELSE 0]
      left   == (DOMAIN prevPID \cup DOMAIN discoveredParent) \ scan.snap
  IN /\ scan.pc = "read" /\ scan.todo = {}
     /\ tracked' = Ended(found)
     /\ reported' = Plus(reported, sample)
     /\ prevPID' = Kept([p \in kept |-> scan.read[p]] @@ prevPID, scan.snap)
     /\ NoteExited(left, discoveredParent)
     /\ scan' = [scan EXCEPT !.pc = "tails", !.read = <<>>]
     /\ UNCHANGED <<under, noted, discoveredMeta, childrenCpu, tailSettled, doubtful>>

\* AttributeTails, up to the readings: whose parent is not tracked is given up on; the
\* cutime of every parent, and of every process that may be one, will be read.
BeginTails ==
  LET lost     == {p \in DOMAIN awaitingTail : awaitingTail[p].parent \notin scan.snap}
      waiting  == DOMAIN awaitingTail \ lost
      parents  == DOMAIN discoveredParent \cup waiting \cup {discoveredParent[p] : p \in DOMAIN discoveredParent}
                    \cup {awaitingTail[p].parent : p \in waiting}
  IN /\ scan.pc = "tails"
     /\ tailSettled' = (tailSettled \cap scan.snap) \cup lost
     /\ discoveredMeta' = Kept(discoveredMeta, DOMAIN discoveredParent \cup DOMAIN awaitingTail)
     /\ noted' = noted \cap (scan.snap \cup DOMAIN awaitingTail)
     /\ awaitingTail' = [p \in waiting |-> [awaitingTail[p] EXCEPT !.reapedBy = Or(childrenCpu, p, @)]]
     /\ childrenCpu' = Kept(childrenCpu, parents)
     /\ scan' = IF parents = {} THEN Between
                ELSE [scan EXCEPT !.pc = "parents", !.todo = parents,
                        !.kids = [q \in parents |-> {p \in waiting : awaitingTail[p].parent = q}],
                        !.adopted = noted']
     /\ UNCHANGED <<tracked, under, prevPID, discoveredParent, reported, doubtful>>

Counted(p) == Plus(awaitingTail[p].last, awaitingTail[p].reapedBy)

\* ChainCpu: what p reaped since its cutime was read last, as far as it is in samples,
\* who is settled by it, of whom it is unknown (doubted, once it is of the one above),
\* and who was not reaped and so has another parent by now.
ChainCpu ==
  LET Under(p) == {k \in DOMAIN awaitingTail : awaitingTail[k].parent = p /\ st[k] = "gone"}
      By(k)    == WhoReaped(k, awaitingTail[k].root, scan.adopted)
      C[p \in Procs] ==
        LET kids   == Under(p)
            parent == {k \in kids : By(k) = "Parent"}
            unsure == {k \in kids : By(k) = "Unknown"}
            left   == {k \in DOMAIN awaitingTail : awaitingTail[k].parent = p} \ kids
        IN [sub |-> Plus(Sum([k \in parent |-> Counted(k)], parent), Sum([k \in parent |-> C[k].sub], parent)),
            settled |-> kids \cup UNION {C[k].settled : k \in parent \cup unsure},
            unsure |-> unsure \cup UNION {C[k].unsure : k \in parent} \cup UNION {C[k].doubted : k \in unsure},
            doubted |-> parent \cup unsure \cup UNION {C[k].doubted : k \in parent \cup unsure},
            moved |-> left \cup UNION {C[k].moved : k \in parent \cup unsure}]
  IN C

\* One parent.  A reading of its cutime that is the same before and after its children
\* were looked at is one reading.
ReadCutime(q) ==
  LET reaped == {p \in scan.kids[q] : st[p] = "gone"}
      chains == [p \in reaped |-> ChainCpu[p]]
      grown  == Minus(held[q], childrenCpu[q])
      ours   == Sum([p \in reaped |-> Plus(Counted(p), chains[p].sub)], reaped)
      tail   == IF IgnoresSigchld(q) \/ Amount(Minus(grown, ours)) < 0 THEN Nothing ELSE Minus(grown, ours)
      unsure == UNION {chains[p].unsure : p \in reaped}
      below  == UNION {chains[p].settled : p \in reaped}
      moved  == UNION {chains[p].moved : p \in reaped}
      gone   == q \notin Procs \/ st[q] = "gone"
      measured == ~gone /\ q \in DOMAIN childrenCpu /\ reaped # {}
      over   == CASE gone /\ q \in DOMAIN awaitingTail -> {}
                  [] gone /\ q \notin DOMAIN awaitingTail -> scan.kids[q]
                  [] measured -> reaped \cup below
                  [] OTHER -> reaped
  IN /\ scan.pc = "parents" /\ q \in scan.todo
     /\ awaitingTail' = [p \in DOMAIN awaitingTail \ over |->
                           IF measured /\ p \in moved THEN [awaitingTail[p] EXCEPT !.parent = par[p]] ELSE awaitingTail[p]]
     /\ tailSettled' = tailSettled \cup over
     /\ childrenCpu' = IF gone THEN Kept(childrenCpu, Procs \ {q}) ELSE (q :> held[q]) @@ childrenCpu
     /\ IF measured
        THEN /\ reported' = Plus(reported, tail)
             /\ doubtful' = doubtful \cup UNION {Carries(Counted(k)) : k \in unsure}
        ELSE UNCHANGED <<reported, doubtful>>
     /\ scan' = IF scan.todo = {q} THEN Between ELSE [scan EXCEPT !.todo = @ \ {q}]
     /\ UNCHANGED <<prevPID, discoveredParent, discoveredMeta>>

CpuNext ==
  \/ (TakeSnapshot \/ \E p \in Procs : Read(p) \/ ReadCutime(p)) /\ UNCHANGED <<tree, table>>
  \/ PollAndSample /\ UNCHANGED tree
  \/ BeginTails /\ UNCHANGED tree
  \/ TreeNext /\ UNCHANGED cpu

CpuSpec == CpuInit /\ [][CpuNext]_<<tree, table, cpu>>

----------------------------------------------------------------------------
\* No CPU is counted in a sample and in a tail, or in two tails, unless the tail lists
\* the process as ambiguous.
CpuCountedOnce == \A q \in Procs \ doubtful : reported[q] <= used[q]
=============================================================================
