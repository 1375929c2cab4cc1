--------------------------- MODULE DiskReapProofs ---------------------------
(***************************************************************************)
(* Theorems about DiskReap, for every tree of processes, every number of   *)
(* units used and every set of setups.                                     *)
(*                                                                         *)
(* What a process used rises, wait by wait, along its line of parents.  At *)
(* any moment it is at one place (Ledger), at most one account of the      *)
(* probe, a baseline or a watch, has it (Accounts), and what was reported  *)
(* of it is no more than that account (Once).  The rest says what lies     *)
(* between an account and the place, so that the end of a tick can move    *)
(* the one after the other.                                                *)
(***************************************************************************)
EXTENDS DiskReap, FiniteSetTheorems, WellFoundedInduction, TLAPS

\* The line of x: x, its parent at birth, and so on up to the root.
Closed(S) == \A z \in S \ {Root} : BornTo[z] \in S
Line(x) == {y \in Procs : \A S \in SUBSET Procs : x \in S /\ Closed(S) => y \in S}

\* A process of the tree waited for x.
Waited(x) == st[x] = "gone" /\ par[x] \in Procs

\* What q used has been folded, wait by wait, into a.
Rose(q, a) == /\ a \in Line(q)
              /\ \A x \in Line(q) : a \in Line(x) /\ x # a => Waited(x)

---------------------------------------------------------------------------
(* The invariant: the kernel's part.                                       *)

\* The types of the tree and the table.
TreeTypes ==
  /\ setup \in Setups
  /\ st \in [Procs -> {"alive", "zombie", "gone"}]
  /\ par \in [Procs -> Procs \cup {Host, Outside, Nobody}]
  /\ used \in [Procs -> Nat]
  /\ held \in [Procs -> [Procs -> Nat]]
  /\ tracked \in [Procs -> {"never", "live", "ended", "announced", "dropped"}]
  /\ under \in [Procs -> Procs \cup {Host, Nobody}]
  /\ noted \subseteq Procs

\* A parent among the processes is the one at birth, and lives as long as it is needed;
\* what the host waited for was noted.
Parents ==
  /\ \A p \in Procs : par[p] \in Procs => /\ p # Root /\ par[p] = BornTo[p]
                                          /\ st[p] = "gone" \/ st[par[p]] = "alive"
  /\ \A p \in Procs \ {Root} : st[BornTo[p]] = "alive" =>
        par[p] = BornTo[p] \/ (st[p] = "gone" /\ BornTo[p] \in setup.ignores)
  /\ \A p \in Procs : par[p] \in setup.ignores => st[p] = "alive"
  /\ \A p \in Procs : par[p] = Outside => ~setup.reaper /\ st[p] = "alive"
  /\ \A p \in Procs : par[p] = Nobody => st[p] = "gone" /\ (setup.reaper => setup.ignores # {})
  /\ \A p \in noted : st[p] = "gone" /\ par[p] = Host /\ p # Root

\* Whatever was registered was so under its parent, and after it.
Entered ==
  /\ \A p \in Procs : tracked[p] # "never" => under[p] = IF p = Root THEN Host ELSE BornTo[p]
  /\ \A p \in Procs \ {Root} : tracked[BornTo[p]] = "never" => tracked[p] = "never"
  /\ \A p \in Procs : tracked[p] \notin {"never", "live"} => st[p] # "alive"

\* What q used is with the one process it has risen to, whole, and with no other.
Ledger == \A p, q \in Procs : st[p] # "gone" => Total(p)[q] = IF Rose(q, p) THEN used[q] ELSE 0

---------------------------------------------------------------------------
(* The invariant: what the probe knows.                                    *)

InTick == tick.pc \in {"read", "after"}
Base == DOMAIN prevPIDIO
Readings == DOMAIN tick.read
Ends == {p \in Procs : tracked[p] \notin {"never", "live"}}

\* The types of the probe's variables.
ProbeTypes ==
  /\ tick = [pc |-> tick.pc, todo |-> tick.todo, snap |-> tick.snap, live |-> tick.live, read |-> tick.read, after |-> tick.after]
  /\ tick.pc \in {"between", "before", "read", "after", "stopped"}
  /\ tick.todo \subseteq Procs /\ tick.snap \subseteq Procs /\ tick.live \subseteq tick.snap /\ tick.after \subseteq Procs
  /\ Readings \subseteq tick.live /\ \A p \in Readings : tick.read[p] \in [Procs -> Nat]
  /\ Base \subseteq Procs /\ \A p \in Base : prevPIDIO[p].s \in [Procs -> Nat]
  /\ Watched \subseteq Procs
  /\ \A k \in Watched : LET w == reapWatch[k] IN
       /\ w = [parent |-> w.parent, last |-> w.last, reaped |-> w.reaped, autoreaped |-> w.autoreaped, root |-> w.root]
       /\ w.last \in [Procs -> Nat] /\ w.reaped \in BOOLEAN /\ w.autoreaped \in BOOLEAN
       /\ w.parent \in Procs \cup {Host, Outside, Nobody}
  /\ reapNoted \subseteq Procs /\ DOMAIN unread \subseteq Procs
  /\ reported \in [Procs -> Int] /\ doubtful \subseteq Procs /\ negative \in BOOLEAN

\* What each phase of a tick has in hand; a process is read after its parent.
Phases ==
  /\ ~InTick => tick.snap = {} /\ tick.after = {}
  /\ tick.pc \in {"between", "stopped"} => tick.todo = {}
  /\ tick.pc \in {"before", "after"} => tick.todo \subseteq Watched
  /\ tick.pc = "read" => /\ tick.todo \subseteq tick.live /\ Readings \cap tick.todo = {} /\ tick.after = {}
                         /\ \A y \in (tick.live \ tick.todo) \ {Root} : BornTo[y] \notin tick.todo
  /\ tick.pc = "after" => Base \subseteq tick.snap
  /\ tick.pc # "after" => DOMAIN unread = {}

\* A tick's copy of the table is of the table; only what was registered since is not in it.
Snapshot ==
  /\ \A p \in tick.live : tracked[p] = "live"
  /\ \A p \in tick.snap : p \in tick.live \/ (tracked[p] \in {"ended", "announced", "dropped"} /\ p \in reapNoted)
  /\ InTick => \A p \in Procs \ tick.snap : tracked[p] \in {"never", "live", "dropped"}
  /\ InTick => \A x \in Procs : tracked[x] = "live" /\ x \notin tick.live =>
       \A a \in Procs : x \in Line(a) => a \notin Base \cup Watched \cup tick.snap

\* A watch is made of what has ended, and once.
NotedOnce ==
  /\ Watched \cup reapNoted \cup DOMAIN unread \subseteq Ends
  /\ \A p \in Procs : tracked[p] \in {"ended", "announced"} => p \in reapNoted
  /\ \A p \in Base : tracked[p] # "never" /\ (tracked[p] # "live" => p \in reapNoted)
  /\ \A m \in DOMAIN unread : m \notin Watched /\ m \in tick.snap \ tick.live /\ unread[m] = under[m]

\* What a watch says of its process; the last part, that one found reaped before the
\* readings by a parent that was read was waited for by it.
WatchFacts ==
  /\ \A k \in Watched : LET w == reapWatch[k] IN
       /\ w.reaped => st[k] = "gone"
       /\ w.autoreaped => w.reaped /\ k # Root /\ BornTo[k] \in setup.ignores
       /\ w.parent \in Procs => k # Root /\ w.parent = BornTo[k]
       /\ w.parent \notin Procs => par[k] \notin Procs
       /\ tick.pc = "after" /\ k \notin tick.todo /\ ~w.reaped /\ w.parent \in Procs => w.parent \in tick.live
       /\ InTick /\ w.reaped /\ k \notin tick.after /\ k # Root /\ BornTo[k] \in tick.live /\ setup.ignores = {}
            /\ (tick.pc = "after" \/ st[BornTo[k]] = "alive") => Waited(k)
  /\ \A k \in Base \cup Watched \cup Readings : st[k] = "gone" /\ par[k] = Host /\ k # Root => k \in noted

---------------------------------------------------------------------------
(* The invariant: the accounts.                                            *)

\* An account is a watch, or the baseline of a tracked process; it has q when some of
\* q's use is in it.  So does a reading of this tick.
Acc(a) == a \in Watched \/ (a \in Base /\ tracked[a] = "live")
Bal(a) == IF a \in Watched THEN reapWatch[a].last ELSE prevPIDIO[a].s
Has(a, q) == Acc(a) /\ Bal(a)[q] > 0
HasRead(y, q) == y \in Readings /\ tick.read[y][q] > 0

\* One account has q; q's use has passed it, and on the way since then the probe misses
\* no link but those it knows it has never read; the tick's reading is above it.
Accounts ==
  \A a, q \in Procs : Has(a, q) =>
    /\ Rose(q, a) /\ Bal(a)[q] <= used[q]
    /\ \A b \in Procs : Has(b, q) => a = b
    /\ \A x \in Line(a) : Rose(q, x) => tracked[x] = "live" \/ x \in Watched \/ x \in DOMAIN unread
    /\ \A m \in Line(a) \ {Root} : tracked[m] = "live" /\ Waited(m) /\ tracked[BornTo[m]] # "live" => ~Rose(q, m)
    /\ \A m \in DOMAIN unread \ {Root} : Waited(m) /\ m \in Line(a) /\ Rose(q, m) => BornTo[m] \in tick.snap
    /\ a \in Readings => tick.read[a][q] >= Bal(a)[q]
    /\ \A y \in Procs : HasRead(y, q) => y \in Line(a)

\* One reading of a tick has q, all of it when q is another; while the tick still reads,
\* q's use cannot come by a process yet to be read.
Readouts ==
  \A y, q \in Procs : HasRead(y, q) =>
    /\ Rose(q, y) /\ tick.read[y][q] <= used[q] /\ (y # q => tick.read[y][q] = used[q])
    /\ \A z \in Procs : HasRead(z, q) => y = z
    /\ \A m \in Line(y) \ {Root} : tracked[m] = "live" /\ Waited(m) /\ tracked[BornTo[m]] # "live" => ~Rose(q, m)
    /\ tick.pc = "read" => \A p \in Procs : Rose(q, p) /\ st[p] # "gone" => p \in tick.live \ tick.todo
    /\ tick.pc = "after" => \A b \in Line(q) : y \in Line(b) /\ b # y =>
          b \notin tick.live /\ (b \in Watched => b \in tick.todo \/ reapWatch[b].reaped)

\* Whatever use has passed on its way to one that ended was found dead by the poll.
Climbed ==
  tick.pc = "after" => \A x, q \in Procs : x \in Watched \cup DOMAIN unread /\ Rose(q, x) =>
     \A b \in Line(q) : x \in Line(b) /\ b # x => b \notin tick.live /\ (b \in Watched => b \in tick.todo \/ reapWatch[b].reaped)

\* A watch with every link up to a reading settled before the readings is in that reading.
Settled(k) == k \in Watched /\ reapWatch[k].reaped /\ k \notin tick.after /\ Waited(k)
Counted ==
  InTick => \A a \in Watched, y \in Readings, q \in Procs :
    y \in Line(a) /\ reapWatch[a].last[q] > 0 /\ (\A b \in Line(a) : y \in Line(b) /\ b # y => Settled(b))
       => tick.read[y][q] >= reapWatch[a].last[q]

\* q's use has gone where no process of the tree can get it.
Finished(q) == /\ \E x \in Procs : Rose(q, x) /\ st[x] # "alive" /\ par[x] \notin Procs
               /\ \A y \in Readings : tick.read[y][q] = 0

\* What was reported of q is no more than the account that has q, or q's use is over.
Once ==
  \A q \in Procs \ doubtful : \/ reported[q] <= 0
                              \/ \E a \in Procs : Acc(a) /\ reported[q] <= Bal(a)[q]
                              \/ Finished(q) /\ reported[q] <= used[q]

---------------------------------------------------------------------------
(* Lines of parents, and how far up them use has got.                     *)

\* Nobody is its own parent.
LEMMA Bearing ==
  /\ Root \in Procs
  /\ \A x \in Procs \ {Root} : BornTo[x] \in Procs /\ BornTo[x] # x
<1>1. ASSUME NEW x \in Procs \ {Root} PROVE BornTo[x] # x
  <2>1. {x} \in SUBSET (Procs \ {Root}) /\ {x} # {}
    OBVIOUS
  <2>2. PICK p \in {x} : BornTo[p] \notin {x}
    BY <2>1, Tree
  <2>3. QED BY <2>2
<1>2. QED BY <1>1, Tree

\* A line holds its process and the parents of all it holds.
LEMMA LineIn ==
  ASSUME NEW x \in Procs
  PROVE  /\ x \in Line(x) /\ Line(x) \subseteq Procs
         /\ \A y \in Line(x) \ {Root} : BornTo[y] \in Line(x)
         /\ \A y \in Line(x) : Line(y) \subseteq Line(x)
BY Bearing DEF Line, Closed

\* Whatever holds a process and the parents of what it holds, holds its line.
LEMMA LineWithin ==
  ASSUME NEW x \in Procs, NEW S, S \subseteq Procs, x \in S, Closed(S)
  PROVE  Line(x) \subseteq S
BY DEF Line

\* Above x on its line is above x's parent.
LEMMA LineStep ==
  ASSUME NEW x \in Procs, NEW y \in Line(x), y # x
  PROVE  x # Root /\ y \in Line(BornTo[x])
<1>1. CASE x = Root
  BY <1>1, LineWithin, Bearing DEF Closed
<1>2. CASE x # Root
  <2> DEFINE S == {x} \cup Line(BornTo[x])
  <2>1. S \subseteq Procs /\ x \in S
    BY <1>2, LineIn, Bearing
  <2>2. Closed(S)
    BY <1>2, LineIn, Bearing DEF Closed
  <2>3. QED BY <1>2, <2>1, <2>2, LineWithin
<1>3. QED BY <1>1, <1>2

\* No two processes are above each other.
LEMMA LineAnti ==
  ASSUME NEW x \in Procs, NEW y \in Line(x), x \in Line(y)
  PROVE  x = y
<1> SUFFICES ASSUME x # y PROVE FALSE
  OBVIOUS
<1> DEFINE S == {z \in Line(x) : x \in Line(z)}
<1>1. S \in SUBSET Procs
  BY LineIn
<1>2. S \in SUBSET (Procs \ {Root})
  <2>1. ASSUME Root \in S PROVE FALSE
    <3>1. x \in Line(Root)
      BY <2>1
    <3>2. x = Root
      BY <3>1, LineStep, Bearing
    <3>3. y = x
      BY <3>2, LineStep, LineIn
    <3>4. QED BY <3>3
  <2>2. QED BY <1>1, <2>1
<1>3. x \in S
  BY LineIn
<1>4. PICK p \in S : BornTo[p] \notin S
  BY <1>2, <1>3, Tree
<1>5. p # Root /\ p \in Procs
  BY <1>2, <1>4
<1>6. BornTo[p] \in Line(x)
  BY <1>5, <1>4, LineIn
<1>7. x \in Line(BornTo[p])
  <2>1. CASE p = x
    <3>1. y \in Procs /\ y \in Line(BornTo[x]) /\ BornTo[x] \in Procs
      BY LineStep, LineIn, Bearing
    <3>2. x \in Line(BornTo[x])
      BY <3>1, LineIn
    <3>3. QED BY <2>1, <3>2
  <2>2. CASE p # x
    BY <2>2, <1>4, <1>5, LineStep
  <2>3. QED BY <2>1, <2>2
<1>8. QED BY <1>4, <1>6, <1>7

\* Of two processes above one, one is above the other.
LEMMA LineLinear ==
  ASSUME NEW x \in Procs, NEW y \in Line(x), NEW z \in Line(x)
  PROVE  y \in Line(z) \/ z \in Line(y)
<1> DEFINE S == {w \in Procs : w \in Line(y) \/ y \in Line(w)}
<1>1. y \in Procs /\ z \in Procs
  BY LineIn
<1>2. x \in S
  OBVIOUS
<1>3. Closed(S)
  <2> SUFFICES ASSUME NEW w \in S \ {Root} PROVE BornTo[w] \in S
    BY DEF Closed
  <2>1. BornTo[w] \in Procs
    BY Bearing
  <2>2. CASE w \in Line(y)
    BY <2>1, <2>2, <1>1, LineIn
  <2>3. CASE y \in Line(w) /\ y # w
    BY <2>1, <2>3, LineStep
  <2>4. QED BY <2>2, <2>3, LineIn, <1>1
<1>4. QED BY <1>1, <1>2, <1>3, LineWithin

\* What holds of whatever is right under y, and goes down the line, holds of all of it.
LEMMA DownTheLine ==
  ASSUME NEW x \in Procs, NEW y \in Line(x), NEW G,
         \A b \in Line(x) : y \in Line(b) /\ b # y /\ b # Root /\ (BornTo[b] = y \/ BornTo[b] \in G) => b \in G
  PROVE  \A b \in Line(x) : y \in Line(b) /\ b # y => b \in G
<1> DEFINE S == {b \in Line(x) : y \in Line(b) /\ b # y /\ b \notin G}
<1> SUFFICES ASSUME S # {} PROVE FALSE
  OBVIOUS
<1>1. S \in SUBSET (Procs \ {Root})
  BY LineIn, LineStep, Bearing
<1>2. PICK b \in S : BornTo[b] \notin S
  BY <1>1, Tree
<1>3. b \in Procs \ {Root}
  BY <1>1
<1>4. BornTo[b] \in Line(x) /\ y \in Line(BornTo[b])
  BY <1>3, LineIn, LineStep
<1>5. QED BY <1>2, <1>3, <1>4

\* What a process used has been with it.
LEMMA RoseSelf ==
  ASSUME NEW q \in Procs
  PROVE  Rose(q, q)
BY LineIn, LineAnti DEF Rose

\* What use has risen to is on the line, and whatever it left was waited for.
LEMMA RoseIn ==
  ASSUME NEW q \in Procs, NEW a, Rose(q, a)
  PROVE  a \in Procs /\ a \in Line(q) /\ (\A x \in Line(q) : a \in Line(x) /\ x # a => Waited(x)) /\ (a # q => Waited(q))
BY LineIn DEF Rose

\* Of two places use has been at, the lower one was waited for.
LEMMA RoseOrder ==
  ASSUME NEW q \in Procs, NEW a, NEW b, Rose(q, a), Rose(q, b), a # b
  PROVE  (a \in Line(b) /\ Waited(b)) \/ (b \in Line(a) /\ Waited(a))
BY LineLinear DEF Rose

\* From a process waited for, use has risen to its parent.
LEMMA RoseOn ==
  ASSUME NEW q \in Procs, NEW a, Rose(q, a), Waited(a), a # Root
  PROVE  Rose(q, BornTo[a])
<1>1. a \in Procs /\ BornTo[a] \in Procs /\ BornTo[a] \in Line(q)
  BY RoseIn, LineIn, Bearing
<1> SUFFICES ASSUME NEW x \in Line(q), BornTo[a] \in Line(x), x # BornTo[a] PROVE Waited(x)
  BY <1>1 DEF Rose
<1>2. x \in Procs /\ a \in Line(q)
  BY LineIn, RoseIn
<1>3. CASE x \in Line(a)
  <2>1. CASE x = a
    BY <2>1
  <2>2. CASE x # a
    <3>1. x \in Line(BornTo[a])
      BY <2>2, <1>3, <1>1, LineStep
    <3>2. QED BY <3>1, <1>1, LineAnti
  <2>3. QED BY <2>1, <2>2
<1>4. CASE a \in Line(x)
  BY <1>4, RoseIn
<1>5. QED BY <1>2, <1>3, <1>4, LineLinear

\* Use rises from place to place.
LEMMA RoseTrans ==
  ASSUME NEW q \in Procs, NEW a, NEW b, Rose(q, a), Rose(a, b)
  PROVE  Rose(q, b)
<1>1. a \in Procs /\ b \in Procs /\ a \in Line(q) /\ b \in Line(a) /\ b \in Line(q)
  BY RoseIn, LineIn
<1> SUFFICES ASSUME NEW x \in Line(q), b \in Line(x), x # b PROVE Waited(x)
  BY <1>1 DEF Rose
<1>2. CASE a \in Line(x) /\ x # a
  BY <1>2 DEF Rose
<1>3. CASE x \in Line(a)
  BY <1>3 DEF Rose
<1>4. QED BY <1>1, <1>2, <1>3, LineLinear, LineIn

\* Between two processes of a line that was followed: the lower one rose to the upper one.
LEMMA RoseBetween ==
  ASSUME NEW q \in Procs, NEW a, NEW b, Rose(q, b), a \in Line(q), b \in Line(a)
  PROVE  Rose(q, a) \/ a = b \/ Waited(a)
BY DEF Rose

\* Use at b has been at every a on the way.
LEMMA RoseUnder ==
  ASSUME NEW q \in Procs, NEW a, NEW b, Rose(q, b), a \in Line(q), b \in Line(a)
  PROVE  Rose(q, a) /\ Rose(a, b)
<1>1. a \in Procs /\ b \in Procs
  BY LineIn, RoseIn
<1>2. Rose(q, a)
  <2> SUFFICES ASSUME NEW x \in Line(q), a \in Line(x), x # a PROVE Waited(x)
    BY DEF Rose
  <2>1. b \in Line(x) /\ x \in Procs
    BY LineIn
  <2>2. CASE x # b
    BY <2>1, <2>2 DEF Rose
  <2>3. CASE x = b
    BY <2>3, <1>1, LineAnti
  <2>4. QED BY <2>2, <2>3
<1>3. Rose(a, b)
  BY <1>1, LineIn DEF Rose
<1>4. QED BY <1>2, <1>3

\* Whatever was used is somewhere: its line ends with one that was not waited for.
LEMMA Resting ==
  ASSUME NEW q \in Procs, par[Root] \notin Procs
  PROVE  \E p \in Procs : Rose(q, p) /\ ~Waited(p)
<1> SUFFICES ASSUME \A p \in Procs : Rose(q, p) => Waited(p) PROVE FALSE
  OBVIOUS
<1> DEFINE S == {p \in Procs : Rose(q, p)}
<1>1. S \in SUBSET (Procs \ {Root})
  BY DEF Waited
<1>2. q \in S
  BY RoseSelf
<1>3. PICK p \in S : BornTo[p] \notin S
  BY <1>1, <1>2, Tree
<1>4. QED BY <1>1, <1>3, RoseOn, Bearing

---------------------------------------------------------------------------
(* Recursive functions up the watched parents.                            *)

\* A finite set has a largest one among any of its subsets.
LEMMA Largest ==
  ASSUME NEW S, IsFiniteSet(S), NEW F, F \subseteq SUBSET S, F # {}
  PROVE  \E X \in F : \A Y \in F : X \subseteq Y => Y = X
<1> DEFINE C == {S \ X : X \in F}
<1>1. C \subseteq FiniteSubsetsOf(S) /\ C # {}
  <2>1. FiniteSubsetsOf(S) = SUBSET S
    BY FS_FiniteSubsetsOfFinite
  <2>2. C \subseteq SUBSET S
    <3> SUFFICES ASSUME NEW Z \in C PROVE Z \subseteq S
      BY Zenon
    <3>1. QED OBVIOUS
  <2>3. C # {}
    <3>1. PICK X \in F : TRUE
      OBVIOUS
    <3>2. S \ X \in C
      OBVIOUS
    <3>3. QED BY <3>2
  <2> HIDE DEF C
  <2>4. QED BY <2>1, <2>2, <2>3
<1>2. IsWellFoundedOn(StrictSubsetOrdering(S), FiniteSubsetsOf(S))
  BY FS_StrictSubsetOrderingWellFounded
<1>3. PICK Z \in C : \A Y \in C : ~(<<Y, Z>> \in StrictSubsetOrdering(S))
  BY <1>1, <1>2, WFMin, Zenon
<1>4. PICK X \in F : Z = S \ X
  OBVIOUS
<1>5. ASSUME NEW Y \in F, X \subseteq Y PROVE Y = X
  <2>1. S \ Y \in C /\ S \ Y \subseteq Z
    BY <1>4, <1>5
  <2>2. S \ Y = Z
    BY <2>1, <1>3, <1>1 DEF StrictSubsetOrdering, FiniteSubsetsOf
  <2>3. QED BY <2>2, <1>4, <1>5
<1>6. QED BY <1>5

\* A watched parent of a watch is its process's parent at birth.
ParentsUp == \A k \in Watched : reapWatch[k].parent \in Watched => k # Root /\ reapWatch[k].parent = BornTo[k]

\* One step of the recursion in Reaches.
ReachStep(p, R) ==
  \/ reapWatch[p].parent \in tick.live
  \/ reapWatch[p].parent \in Watched /\ R[reapWatch[p].parent]

\* One step of the recursion in Resolution.
ResStep(p, R) ==
  LET w  == reapWatch[p]
      by == WhoReaped(p, w.root, noted)
      to == CASE ~w.reaped -> IF Reaches[p] THEN Waiting ELSE Drop(Nobody)
              [] w.reaped /\ w.parent \in tick.live -> At(w.parent)
              [] w.reaped /\ w.parent \notin tick.live \cup Watched ->
                   Drop(IF w.parent \in DOMAIN unread THEN w.parent ELSE Nobody)
              [] OTHER -> IF by = "Host" THEN Drop(Nobody)
                          ELSE LET above == R[w.parent]
                               IN [above EXCEPT !.ambiguous = @ \/ by = "Unknown"]
  IN [to EXCEPT !.unsure = @ \/ p \in tick.after, !.autoreaped = @ \/ (w.reaped /\ w.autoreaped)]

\* That step asks the function of nothing but the watched parent ...
LEMMA ReachSame ==
  ASSUME NEW p, NEW f, NEW g, reapWatch[p].parent \in Watched => f[reapWatch[p].parent] = g[reapWatch[p].parent]
  PROVE  ReachStep(p, f) = ReachStep(p, g)
BY DEF ReachStep

\* ... and so does this one.
LEMMA ResSame ==
  ASSUME NEW p, NEW f, NEW g, reapWatch[p].parent \in Watched => f[reapWatch[p].parent] = g[reapWatch[p].parent]
  PROVE  ResStep(p, f) = ResStep(p, g)
BY DEF ResStep

\* Of the watches left, one has no parent left.
LEMMA Topmost ==
  ASSUME Watched \subseteq Procs, ParentsUp, NEW D, D \subseteq Watched, D # Watched
  PROVE  \E p \in Watched \ D : reapWatch[p].parent \in Watched => reapWatch[p].parent \in D
<1> DEFINE S == (Watched \ D) \ {Root}
<1>1. CASE S = {}
  BY <1>1 DEF ParentsUp
<1>2. CASE S # {}
  <2>1. S \in SUBSET (Procs \ {Root})
    OBVIOUS
  <2>2. PICK p \in S : BornTo[p] \notin S
    BY <1>2, <2>1, Tree
  <2>3. CASE reapWatch[p].parent \in Watched /\ reapWatch[p].parent \notin D
    <3>1. reapWatch[p].parent = Root /\ Root \in Watched \ D
      BY <2>2, <2>3 DEF ParentsUp
    <3>2. reapWatch[Root].parent \notin Watched
      BY <3>1 DEF ParentsUp
    <3>3. QED BY <3>1, <3>2
  <2>4. QED BY <2>2, <2>3
<1>3. QED BY <1>1, <1>2

\* Reaches is the function its recursion defines.
LEMMA ReachesIs ==
  ASSUME Watched \subseteq Procs, ParentsUp
  PROVE  Reaches = [p \in Watched |-> ReachStep(p, Reaches)]
<1> DEFINE UpIn(D) == \A p \in D : reapWatch[p].parent \in Watched => reapWatch[p].parent \in D
           F == {D \in SUBSET Watched : UpIn(D) /\ \E g : g = [p \in D |-> ReachStep(p, g)]}
<1>1. \E g : g = [p \in Watched |-> ReachStep(p, g)]
  <2>1. {} \in F
    <3>1. [p \in {} |-> ReachStep(p, {})] = [p \in {} |-> ReachStep(p, [x \in {} |-> 0])]
      OBVIOUS
    <3>2. \E g : g = [p \in {} |-> ReachStep(p, g)]
      <4> DEFINE e == [p \in {} |-> 0]
      <4>1. e = [p \in {} |-> ReachStep(p, e)]
        OBVIOUS
      <4>2. QED BY <4>1
    <3>3. QED BY <3>2
  <2>2. IsFiniteSet(Watched) /\ F \subseteq SUBSET Watched
    BY FS_Subset, Tree
  <2>3. PICK D \in F : \A Y \in F : D \subseteq Y => Y = D
    <3> HIDE DEF F
    <3>1. QED BY <2>1, <2>2, Largest
  <2>4. PICK g : g = [p \in D |-> ReachStep(p, g)]
    BY <2>3
  <2>5. ASSUME D # Watched PROVE FALSE
    <3>1. PICK p \in Watched \ D : reapWatch[p].parent \in Watched => reapWatch[p].parent \in D
      BY <2>5, Topmost
    <3> DEFINE h == [x \in D \cup {p} |-> IF x \in D THEN g[x] ELSE ReachStep(p, g)]
    <3>2. \A x \in D \cup {p} : reapWatch[x].parent \in Watched => h[reapWatch[x].parent] = g[reapWatch[x].parent]
      BY <3>1, <2>3
    <3>3. \A x \in D \cup {p} : ReachStep(x, h) = ReachStep(x, g)
      <4> HIDE DEF h
      <4>1. QED BY <3>2, ReachSame
    <3>4. \A x \in D \cup {p} : h[x] = ReachStep(x, g)
      <4> HIDE DEF ReachStep
      <4>1. \A x \in D : g[x] = ReachStep(x, g)
        BY <2>4
      <4>2. QED BY <4>1
    <3>5. h = [x \in D \cup {p} |-> ReachStep(x, h)]
      BY <3>3, <3>4
    <3>6. D \cup {p} \in F
      <4>1. UpIn(D \cup {p}) /\ D \cup {p} \in SUBSET Watched
        BY <2>3, <3>1
      <4> HIDE DEF h, UpIn
      <4>2. QED BY <4>1, <3>5
    <3>7. QED BY <2>3, <3>6, <3>1
  <2>6. QED BY <2>4, <2>5
<1>2. QED
  <2> DEFINE R == CHOOSE g : g = [p \in Watched |-> ReachStep(p, g)]
  <2>1. R = [p \in Watched |-> ReachStep(p, R)]
    BY <1>1
  <2>2. Reaches = R
    BY DEF Reaches, ReachStep
  <2>3. QED BY <2>1, <2>2
\* Resolution is the function its recursion defines.
LEMMA ResolutionIs ==
  ASSUME Watched \subseteq Procs, ParentsUp
  PROVE  Resolution = [p \in Watched |-> ResStep(p, Resolution)]
<1> DEFINE UpIn(D) == \A p \in D : reapWatch[p].parent \in Watched => reapWatch[p].parent \in D
           F == {D \in SUBSET Watched : UpIn(D) /\ \E g : g = [p \in D |-> ResStep(p, g)]}
<1>1. \E g : g = [p \in Watched |-> ResStep(p, g)]
  <2>1. {} \in F
    <3>1. [p \in {} |-> ResStep(p, {})] = [p \in {} |-> ResStep(p, [x \in {} |-> 0])]
      OBVIOUS
    <3>2. \E g : g = [p \in {} |-> ResStep(p, g)]
      <4> DEFINE e == [p \in {} |-> 0]
      <4>1. e = [p \in {} |-> ResStep(p, e)]
        OBVIOUS
      <4>2. QED BY <4>1
    <3>3. QED BY <3>2
  <2>2. IsFiniteSet(Watched) /\ F \subseteq SUBSET Watched
    BY FS_Subset, Tree
  <2>3. PICK D \in F : \A Y \in F : D \subseteq Y => Y = D
    <3> HIDE DEF F
    <3>1. QED BY <2>1, <2>2, Largest
  <2>4. PICK g : g = [p \in D |-> ResStep(p, g)]
    BY <2>3
  <2>5. ASSUME D # Watched PROVE FALSE
    <3>1. PICK p \in Watched \ D : reapWatch[p].parent \in Watched => reapWatch[p].parent \in D
      BY <2>5, Topmost
    <3> DEFINE h == [x \in D \cup {p} |-> IF x \in D THEN g[x] ELSE ResStep(p, g)]
    <3>2. \A x \in D \cup {p} : reapWatch[x].parent \in Watched => h[reapWatch[x].parent] = g[reapWatch[x].parent]
      BY <3>1, <2>3
    <3>3. \A x \in D \cup {p} : ResStep(x, h) = ResStep(x, g)
      <4> HIDE DEF h
      <4>1. QED BY <3>2, ResSame
    <3>4. \A x \in D \cup {p} : h[x] = ResStep(x, g)
      <4> HIDE DEF ResStep
      <4>1. \A x \in D : g[x] = ResStep(x, g)
        BY <2>4
      <4>2. QED BY <4>1
    <3>5. h = [x \in D \cup {p} |-> ResStep(x, h)]
      BY <3>3, <3>4
    <3>6. D \cup {p} \in F
      <4>1. UpIn(D \cup {p}) /\ D \cup {p} \in SUBSET Watched
        BY <2>3, <3>1
      <4> HIDE DEF h, UpIn
      <4>2. QED BY <4>1, <3>5
    <3>7. QED BY <2>3, <3>6, <3>1
  <2>6. QED BY <2>4, <2>5
<1>2. QED
  <2> DEFINE R == CHOOSE g : g = [p \in Watched |-> ResStep(p, g)]
  <2>1. R = [p \in Watched |-> ResStep(p, R)]
    BY <1>1
  <2>2. Resolution = R
    BY Zenon DEF Resolution, ResStep
  <2>3. QED BY <2>1, <2>2

---------------------------------------------------------------------------
(* Sums over finite sets.                                                 *)

\* Induction over the subsets of a finite set, for a property that is a set.
LEMMA SetInduction ==
  ASSUME NEW S, IsFiniteSet(S), NEW G,
         \A s \in SUBSET S : (\A x \in s : s \ {x} \in G) => s \in G
  PROVE  SUBSET S \subseteq G
<1> DEFINE M == {s \in SUBSET S : s \notin G}
<1> SUFFICES ASSUME M # {} PROVE FALSE
  OBVIOUS
<1>1. M \subseteq FiniteSubsetsOf(S) /\ M # {}
  BY FS_FiniteSubsetsOfFinite
<1>2. PICK t \in M : \A Y \in M : ~(<<Y, t>> \in StrictSubsetOrdering(S))
  <2>1. IsWellFoundedOn(StrictSubsetOrdering(S), FiniteSubsetsOf(S))
    BY FS_StrictSubsetOrderingWellFounded
  <2> HIDE DEF M
  <2>2. QED BY <1>1, <2>1, WFMin, Zenon
<1>3. ASSUME NEW x \in t PROVE t \ {x} \in G
  <2>1. t \in SUBSET S /\ t \ {x} \in SUBSET S /\ t \ {x} # t /\ t \ {x} \subseteq t
    BY <1>2, <1>3
  <2>2. <<t \ {x}, t>> \in StrictSubsetOrdering(S)
    BY <2>1 DEF StrictSubsetOrdering
  <2>3. QED BY <1>2, <2>1, <2>2
<1>4. t \in SUBSET S /\ t \notin G
  OBVIOUS
<1>5. QED BY <1>3, <1>4

\* The sum over a finite set, at one origin.
IterStep(f, s, R) == IF s = {} THEN Nothing ELSE Plus(R[s \ {CHOOSE x \in s : TRUE}], f[CHOOSE x \in s : TRUE])

\* Sum is what that recursion gives.
LEMMA IterIs ==
  ASSUME NEW f, NEW S, IsFiniteSet(S)
  PROVE  \E g : g = [s \in SUBSET S |-> IterStep(f, s, g)] /\ g[S] = Sum(f, S)
<1> DEFINE Shut(D) == {} \in D /\ \A s \in D : \A x \in s : s \ {x} \in D
           F == {D \in SUBSET SUBSET S : Shut(D) /\ \E g : g = [s \in D |-> IterStep(f, s, g)]}
<1>1. \E g : g = [s \in SUBSET S |-> IterStep(f, s, g)]
  <2>1. {{}} \in F
    <3> DEFINE e == [s \in {{}} |-> Nothing]
    <3>1. e = [s \in {{}} |-> IterStep(f, s, e)]
      BY DEF IterStep
    <3>2. QED BY <3>1
  <2>2. IsFiniteSet(SUBSET S) /\ F \subseteq SUBSET SUBSET S
    BY FS_SUBSET
  <2>3. PICK D \in F : \A Y \in F : D \subseteq Y => Y = D
    <3> HIDE DEF F
    <3>1. QED BY <2>1, <2>2, Largest
  <2>4. PICK g : g = [s \in D |-> IterStep(f, s, g)]
    BY <2>3
  <2>5. ASSUME D # SUBSET S PROVE FALSE
    <3>1. PICK t \in SUBSET S : t \notin D /\ \A x \in t : t \ {x} \in D
      <4> SUFFICES ASSUME \A t \in SUBSET S : (\A x \in t : t \ {x} \in D) => t \in D PROVE FALSE
        OBVIOUS
      <4>1. SUBSET S \subseteq D
        <5> HIDE DEF F
        <5>1. QED BY SetInduction
      <4>2. D \in SUBSET SUBSET S
        BY <2>3
      <4>3. QED BY <4>1, <4>2, <2>5
    <3> DEFINE h == [s \in D \cup {t} |-> IF s \in D THEN g[s] ELSE IterStep(f, t, g)]
    <3>2. \A s \in D \cup {t} : \A x \in s : s \ {x} \in D /\ h[s \ {x}] = g[s \ {x}]
      <4>1. \A s \in D \cup {t} : \A x \in s : s \ {x} \in D
        <5>1. \A s \in D : \A x \in s : s \ {x} \in D
          BY <2>3, Zenon
        <5> HIDE DEF h, F, Shut
        <5>2. QED BY <5>1, <3>1
      <4>2. \A s \in D : h[s] = g[s]
        OBVIOUS
      <4> HIDE DEF h
      <4>3. QED BY <4>1, <4>2
    <3>3. \A s \in D \cup {t} : IterStep(f, s, h) = IterStep(f, s, g)
      <4> HIDE DEF h
      <4>1. ASSUME NEW s \in D \cup {t}, s # {} PROVE IterStep(f, s, h) = IterStep(f, s, g)
        <5> DEFINE x == CHOOSE x \in s : TRUE
        <5>1. x \in s
          BY <4>1
        <5> HIDE DEF x
        <5>2. h[s \ {x}] = g[s \ {x}]
          BY <3>2, <5>1
        <5>3. QED BY <5>2 DEF IterStep, x
      <4>2. QED BY <4>1 DEF IterStep
    <3>4. \A s \in D \cup {t} : h[s] = IterStep(f, s, g)
      <4> HIDE DEF IterStep
      <4>1. \A s \in D : g[s] = IterStep(f, s, g)
        BY <2>4
      <4>2. QED BY <4>1
    <3>5. h = [s \in D \cup {t} |-> IterStep(f, s, h)]
      BY <3>3, <3>4
    <3>6. D \cup {t} \in F
      <4>1. Shut(D \cup {t}) /\ D \cup {t} \in SUBSET SUBSET S
        BY <2>3, <3>1
      <4> HIDE DEF h, Shut
      <4>2. QED BY <4>1, <3>5
    <3>7. QED BY <2>3, <3>6, <3>1
  <2>6. QED BY <2>4, <2>5
<1>2. QED
  <2> DEFINE R == CHOOSE g : g = [s \in SUBSET S |-> IterStep(f, s, g)]
  <2>1. R = [s \in SUBSET S |-> IterStep(f, s, R)]
    BY <1>1
  <2>2. Sum(f, S) = R[S]
    BY Zenon DEF Sum, FoldSet, MapThenFoldSet, IterStep
  <2>3. QED BY <2>1, <2>2

\* A sum in which one term at most is not 0 is that term.
LEMMA SumIs ==
  ASSUME NEW f, NEW S, S \subseteq Procs, \A x \in S : f[x] \in [Procs -> Int]
  PROVE  /\ Sum(f, S) \in [Procs -> Int]
         /\ \A q \in Procs : \A y : (\A x \in S \ {y} : f[x][q] = 0) => Sum(f, S)[q] = IF y \in S THEN f[y][q] ELSE 0
<1>1. IsFiniteSet(S)
  BY FS_Subset, Tree
<1>2. PICK g : g = [s \in SUBSET S |-> IterStep(f, s, g)] /\ g[S] = Sum(f, S)
  BY <1>1, IterIs
<1> DEFINE Is(s, v) == /\ v \in [Procs -> Int]
                       /\ \A q \in Procs : \A y : (\A x \in s \ {y} : f[x][q] = 0) => v[q] = IF y \in s THEN f[y][q] ELSE 0
           G == {s \in SUBSET S : Is(s, g[s])}
<1>3. \A s \in SUBSET S : g[s] = IterStep(f, s, g)
  BY <1>2, Zenon
<1>4. ASSUME NEW s \in SUBSET S, \A x \in s : s \ {x} \in G PROVE Is(s, g[s])
  <2>1. CASE s = {}
    <3>1. g[s] = Nothing
      BY <1>3, <2>1 DEF IterStep
    <3>2. QED BY <3>1, <2>1 DEF Nothing
  <2>2. CASE s # {}
    <3> DEFINE x == CHOOSE x \in s : TRUE
               u == g[s \ {x}]
               v == f[x]
    <3>1. x \in s
      BY <2>2
    <3>2. g[s] = Plus(u, v)
      BY <1>3, <2>2 DEF IterStep
    <3> HIDE DEF x
    <3>3. Is(s \ {x}, u) /\ v \in [Procs -> Int]
      BY <1>4, <3>1
    <3> HIDE DEF u
    <3>4. g[s] = [z \in Procs |-> u[z] + v[z]]
      BY <3>2 DEF Plus
    <3>5. g[s] \in [Procs -> Int] /\ \A q \in Procs : g[s][q] = u[q] + v[q]
      BY <3>3, <3>4
    <3>6. ASSUME NEW q \in Procs, NEW y, \A z \in s \ {y} : f[z][q] = 0
          PROVE  g[s][q] = IF y \in s THEN f[y][q] ELSE 0
      <4>1. u[q] = IF y \in s \ {x} THEN f[y][q] ELSE 0
        BY <3>3, <3>6
      <4>2. v[q] \in Int /\ (x # y => v[q] = 0)
        BY <3>1, <3>3, <3>6
      <4>3. y \in s => f[y][q] \in Int
        OBVIOUS
      <4>4. g[s][q] = u[q] + v[q]
        BY <3>5
      <4> HIDE DEF Is
      <4>5. QED BY <4>1, <4>2, <4>3, <4>4, <3>1
    <3>7. QED BY <3>5, <3>6
  <2>3. QED BY <2>1, <2>2
<1>5. S \in G
  <2>1. \A s \in SUBSET S : (\A x \in s : s \ {x} \in G) => s \in G
    BY <1>4
  <2> HIDE DEF G
  <2>2. QED BY <1>1, <2>1, SetInduction
<1>6. QED BY <1>2, <1>5

---------------------------------------------------------------------------
(* What the kernel, discovery and the flush do to the tree and the table. *)

\* A step of the processes, of discovery or of a flush.
KernelStep == tick.pc # "stopped" /\ TreeNext /\ UNCHANGED disk
\* The kernel's part of the invariant.
Kernel == TreeTypes /\ Parents /\ Entered

\* The fields of a setup.
LEMMA Situations ==
  ASSUME setup \in Setups
  PROVE  setup.ignores \subseteq Procs /\ setup.reaper \in BOOLEAN /\ setup.unreadable \subseteq Procs
BY Tree

\* The three parents that are no process differ.
LEMMA Nowhere ==
  /\ Host \notin Procs /\ Outside \notin Procs /\ Nobody \notin Procs
  /\ Host # Outside /\ Host # Nobody /\ Outside # Nobody
BY Tree DEF Host, Outside, Nobody

\* It holds at the start.
LEMMA Kernel0 ==
  ASSUME DiskInit
  PROVE  Kernel
<1> USE DEF DiskInit, TreeInit
<1>1. TreeTypes
  BY Tree DEF TreeTypes, Nothing, Host, Outside, Nobody
<1>2. Parents
  BY Tree, Nowhere, Situations, <1>1 DEF Parents, TreeTypes
<1>3. Entered
  BY Tree, Nowhere DEF Entered
<1>4. QED BY <1>1, <1>2, <1>3 DEF Kernel

\* Use keeps it.
LEMMA UseKernel ==
  ASSUME Kernel, NEW p \in Procs, Use(p)
  PROVE  Kernel'
<1> USE DEF Kernel, Use, tree, table, Heir
<1>1. TreeTypes'
  BY DEF TreeTypes
<1>2. Parents'
  BY DEF Parents
<1>3. Entered'
  BY DEF Entered
<1>4. QED BY <1>1, <1>2, <1>3 

\* Exit keeps it: the children get the heir, and a zombie nobody waits for is gone.
LEMMA ExitKernel ==
  ASSUME Kernel, NEW p \in Procs, Exit(p)
  PROVE  Kernel'
<1> USE DEF Kernel, Exit, table, Heir
<1>0. /\ st[p] = "alive" /\ setup' = setup /\ used' = used /\ held' = held /\ tracked' = tracked /\ under' = under /\ noted' = noted
      /\ st' \in [Procs -> {"alive", "zombie", "gone"}]
      /\ par' \in [Procs -> Procs \cup {Host, Outside, Nobody}]
  BY DEF TreeTypes
<1>1. TreeTypes'
  BY <1>0 DEF TreeTypes
<1>a. /\ \A q \in Procs : par'[q] = IF st[q] = "gone" THEN par[q] ELSE IF st'[q] = "gone" THEN Nobody
                              ELSE IF par[q] = p THEN Heir ELSE par[q]
      /\ \A q \in Procs : st'[q] = IF q = p THEN (IF par[p] = Outside \/ par[p] \in setup.ignores THEN "gone" ELSE "zombie")
              ELSE IF par[q] = p /\ st[q] = "zombie" /\ Heir = Outside THEN "gone" ELSE st[q]
  BY DEF TreeTypes
<1>b. Heir \in {Host, Outside} /\ (Heir = Outside => ~setup.reaper)
  BY Nowhere
<1>c. st \in [Procs -> {"alive", "zombie", "gone"}] /\ setup \in Setups
  BY DEF TreeTypes
<1>d. par[p] # p
  BY <1>0, Bearing DEF Parents
<1>2. Parents'
  <2> HIDE DEF Exit, Heir
  <2>1. \A q \in Procs : par'[q] \in Procs => q # Root /\ par'[q] = BornTo[q] /\ (st'[q] = "gone" \/ st'[par'[q]] = "alive")
    <3> SUFFICES ASSUME NEW q \in Procs, par'[q] \in Procs
                 PROVE  q # Root /\ par'[q] = BornTo[q] /\ (st'[q] = "gone" \/ st'[par'[q]] = "alive")
      OBVIOUS
    <3>1. par'[q] = par[q]
      BY <1>a, <1>b, Nowhere
    <3>2. QED BY <3>1, <1>0, <1>a, <1>b, <1>c, Nowhere DEF Parents
  <2>2. \A q \in Procs \ {Root} : st'[BornTo[q]] = "alive" =>
          par'[q] = BornTo[q] \/ (st'[q] = "gone" /\ BornTo[q] \in setup'.ignores)
    <3> SUFFICES ASSUME NEW q \in Procs \ {Root}, st'[BornTo[q]] = "alive"
                 PROVE  par'[q] = BornTo[q] \/ (st'[q] = "gone" /\ BornTo[q] \in setup'.ignores)
      OBVIOUS
    <3>1. BornTo[q] \in Procs /\ st[BornTo[q]] = "alive" /\ BornTo[q] # p
      BY Bearing, <1>a, <1>0
    <3>2. par[q] = BornTo[q] \/ (st[q] = "gone" /\ BornTo[q] \in setup.ignores)
      BY <3>1 DEF Parents
    <3>3. QED BY <3>1, <3>2, <1>a, <1>0, Nowhere
  <2>3. \A q \in Procs : par'[q] \in setup'.ignores => st'[q] = "alive"
    BY <1>0, <1>a, <1>b, <1>c, Nowhere, Situations DEF Parents
  <2>4. \A q \in Procs : par'[q] = Outside => ~setup'.reaper /\ st'[q] = "alive"
    BY <1>0, <1>a, <1>b, <1>c, <1>d, Nowhere, Situations DEF Parents
  <2>5. \A q \in Procs : par'[q] = Nobody => st'[q] = "gone" /\ (setup'.reaper => setup'.ignores # {})
    BY <1>0, <1>a, <1>b, <1>c, Nowhere, Situations DEF Parents
  <2>6. \A q \in noted' : st'[q] = "gone" /\ par'[q] = Host /\ q # Root
    <3>1. \A q \in noted : q \in Procs /\ st[q] = "gone" /\ par[q] = Host /\ q # Root
      BY DEF Parents, TreeTypes
    <3>2. QED BY <3>1, <1>0, <1>a
  <2>7. QED BY <2>1, <2>2, <2>3, <2>4, <2>5, <2>6 DEF Parents
<1>3. Entered'
  BY <1>0, <1>a, <1>c DEF Entered
<1>4. QED BY <1>1, <1>2, <1>3

\* Wait keeps it.
LEMMA WaitKernel ==
  ASSUME Kernel, NEW p \in Procs, Wait(p)
  PROVE  Kernel'
<1> USE DEF Kernel, Wait, table
<1>0. /\ st[p] = "zombie" /\ par[p] \in Procs /\ setup' = setup /\ used' = used /\ par' = par /\ tracked' = tracked /\ under' = under /\ noted' = noted
      /\ st' \in [Procs -> {"alive", "zombie", "gone"}]
      /\ \A q \in Procs : st'[q] = IF q = p THEN "gone" ELSE st[q]
  BY DEF TreeTypes
<1>1. TreeTypes'
  <2>1. held' \in [Procs -> [Procs -> Nat]]
    <3>1. Nothing \in [Procs -> Nat] /\ Total(p) \in [Procs -> Nat]
      BY DEF Nothing, Total, Plus, Own, TreeTypes
    <3>2. Plus(held[par[p]], Total(p)) \in [Procs -> Nat]
      <4> HIDE DEF Wait
      <4>1. held[par[p]] \in [Procs -> Nat]
        BY <1>0 DEF TreeTypes
      <4> HIDE DEF Kernel
      <4>2. QED BY <3>1, <4>1 DEF Plus
    <3>3. held' = [held EXCEPT ![par[p]] = Plus(@, Total(p)), ![p] = Nothing]
      OBVIOUS
    <3> HIDE DEF Wait
    <3>4. QED BY <3>1, <3>2, <3>3 DEF TreeTypes
  <2>2. QED BY <1>0, <2>1 DEF TreeTypes
<1>2. Parents'
  <2> HIDE DEF Wait
  <2>1. \A q \in Procs : par'[q] \in Procs => q # Root /\ par'[q] = BornTo[q] /\ (st'[q] = "gone" \/ st'[par'[q]] = "alive")
    BY <1>0 DEF Parents
  <2>2. \A q \in Procs \ {Root} : st'[BornTo[q]] = "alive" =>
          par'[q] = BornTo[q] \/ (st'[q] = "gone" /\ BornTo[q] \in setup'.ignores)
    BY <1>0, Bearing DEF Parents
  <2>3. \A q \in Procs : par'[q] \in setup'.ignores => st'[q] = "alive"
    BY <1>0 DEF Parents
  <2>4. \A q \in Procs : par'[q] = Outside => ~setup'.reaper /\ st'[q] = "alive"
    BY <1>0 DEF Parents
  <2>5. \A q \in Procs : par'[q] = Nobody => st'[q] = "gone" /\ (setup'.reaper => setup'.ignores # {})
    BY <1>0 DEF Parents
  <2>6. \A q \in noted' : st'[q] = "gone" /\ par'[q] = Host /\ q # Root
    <3>1. \A q \in noted : q \in Procs /\ st[q] = "gone" /\ par[q] = Host /\ q # Root
      BY DEF Parents, TreeTypes
    <3>2. QED BY <3>1, <1>0
  <2>7. QED BY <2>1, <2>2, <2>3, <2>4, <2>5, <2>6 DEF Parents
<1>3. Entered'
  BY <1>0 DEF Entered
<1>4. QED BY <1>1, <1>2, <1>3

\* HostWaits keeps it.
LEMMA HostWaitsKernel ==
  ASSUME Kernel, NEW p \in Procs, HostWaits(p)
  PROVE  Kernel'
<1> USE DEF Kernel, HostWaits
<1>0. /\ st[p] = "zombie" /\ par[p] = Host /\ setup' = setup /\ used' = used /\ par' = par /\ tracked' = tracked /\ under' = under
      /\ noted' = IF p = Root THEN noted ELSE noted \cup {p}
      /\ st' \in [Procs -> {"alive", "zombie", "gone"}]
      /\ \A q \in Procs : st'[q] = IF q = p THEN "gone" ELSE st[q]
  BY DEF TreeTypes
<1>1. TreeTypes'
  BY <1>0 DEF TreeTypes, Nothing
<1>2. Parents'
  <2> HIDE DEF HostWaits
  <2>1. \A q \in Procs : par'[q] \in Procs => q # Root /\ par'[q] = BornTo[q] /\ (st'[q] = "gone" \/ st'[par'[q]] = "alive")
    BY <1>0 DEF Parents
  <2>2. \A q \in Procs \ {Root} : st'[BornTo[q]] = "alive" =>
          par'[q] = BornTo[q] \/ (st'[q] = "gone" /\ BornTo[q] \in setup'.ignores)
    BY <1>0, Bearing DEF Parents
  <2>3. \A q \in Procs : par'[q] \in setup'.ignores => st'[q] = "alive"
    BY <1>0 DEF Parents
  <2>4. \A q \in Procs : par'[q] = Outside => ~setup'.reaper /\ st'[q] = "alive"
    BY <1>0 DEF Parents
  <2>5. \A q \in Procs : par'[q] = Nobody => st'[q] = "gone" /\ (setup'.reaper => setup'.ignores # {})
    BY <1>0 DEF Parents
  <2>6. \A q \in noted' : st'[q] = "gone" /\ par'[q] = Host /\ q # Root
    <3>1. \A q \in noted : q \in Procs /\ st[q] = "gone" /\ par[q] = Host /\ q # Root
      BY DEF Parents, TreeTypes
    <3>2. QED BY <3>1, <1>0
  <2>7. QED BY <2>1, <2>2, <2>3, <2>4, <2>5, <2>6 DEF Parents
<1>3. Entered'
  BY <1>0 DEF Entered
<1>4. QED BY <1>1, <1>2, <1>3

\* Register keeps it: the parent is registered.
LEMMA RegisterKernel ==
  ASSUME Kernel, NEW p \in Procs, Register(p)
  PROVE  Kernel'
<1> USE DEF Kernel, Register, tree
<1>1. TreeTypes'
  BY DEF TreeTypes
<1>2. Parents'
  BY DEF Parents
<1>3. Entered'
  BY Bearing DEF Entered, TreeTypes, Parents
<1>4. QED BY <1>1, <1>2, <1>3

\* A flush keeps it.
LEMMA FlushKernel ==
  ASSUME Kernel, Announce \/ Commit
  PROVE  Kernel'
<1> USE DEF Kernel, Announce, Commit, tree
<1>1. TreeTypes'
  BY DEF TreeTypes
<1>2. Parents'
  BY DEF Parents
<1>3. Entered'
  BY Bearing DEF Entered, TreeTypes
<1>4. QED BY <1>1, <1>2, <1>3

\* The probe's steps keep it: what a poll marks ended is dead.
LEMMA ProbeKernel ==
  ASSUME Kernel, \/ SampleThread /\ UNCHANGED <<tree, table>>
                 \/ (Poll \/ Stop) /\ UNCHANGED tree
                 \/ EndTick /\ UNCHANGED <<tree, tracked, under>>,
         \A p \in tick.live : p \in Procs /\ tracked[p] = "live"
  PROVE  Kernel'
<1> USE DEF Kernel, tree, table
<1>1. CASE SampleThread /\ UNCHANGED <<tree, table>>
  BY <1>1 DEF TreeTypes, Parents, Entered
<1>2. CASE Poll /\ UNCHANGED tree
  <2>1. /\ setup' = setup /\ st' = st /\ par' = par /\ used' = used /\ held' = held /\ under' = under /\ noted' = noted
        /\ tracked' = Ended({p \in tick.live : st[p] # "alive"})
    BY <1>2 DEF Poll
  <2>2. \A p \in Procs : tracked'[p] = IF p \in tick.live /\ st[p] # "alive" THEN "ended" ELSE tracked[p]
    BY <2>1 DEF Ended
  <2>3. TreeTypes'
    BY <2>1 DEF TreeTypes, Ended
  <2>4. Parents'
    BY <2>1 DEF Parents
  <2>5. Entered'
    BY <2>1, <2>2, Bearing DEF Entered
  <2>6. QED BY <2>3, <2>4, <2>5
<1>3. CASE Stop /\ UNCHANGED tree
  BY <1>3, Bearing DEF Stop, TreeTypes, Parents, Entered
<1>4. CASE EndTick /\ UNCHANGED <<tree, tracked, under>>
  BY <1>4 DEF EndTick, TreeTypes, Parents, Entered
<1>5. QED BY <1>1, <1>2, <1>3, <1>4

---------------------------------------------------------------------------
(* What only goes one way, and what rises.                                *)

\* Nobody comes back; whoever is not with a process of ours never is again.
Forward ==
  /\ setup' = setup
  /\ \A p \in Procs : st[p] = "gone" => st'[p] = "gone" /\ par'[p] = par[p]
  /\ \A p \in Procs : st[p] # "alive" => st'[p] # "alive"
  /\ \A p \in Procs : par[p] \notin Procs => par'[p] \notin Procs
  /\ \A p \in Procs : used'[p] >= used[p] /\ (st[p] # "alive" => used'[p] = used[p])
  /\ \A p \in Procs : tracked[p] # "never" => tracked'[p] # "never"
  /\ \A p \in Procs : tracked[p] \notin {"never", "live"} => tracked'[p] \notin {"never", "live"}

\* Use only moves forward ...
LEMMA UseForward ==
  ASSUME Kernel, NEW p \in Procs, Use(p)
  PROVE  Forward
<1>1. \A q \in Procs : used[q] \in Nat
  BY DEF Kernel, TreeTypes
<1>2. \A q \in Procs : used'[q] = used[q] \/ (st[q] = "alive" /\ used'[q] = used[q] + 1)
  BY DEF Use, Kernel, TreeTypes
<1>3. \A q \in Procs : used'[q] >= used[q] /\ (st[q] # "alive" => used'[q] = used[q])
  BY <1>1, <1>2
<1>4. QED BY <1>3 DEF Use, tree, table, Forward

\* ... so does an exit ...
LEMMA ExitForward ==
  ASSUME Kernel, NEW p \in Procs, Exit(p)
  PROVE  Forward
<1>1. \A q \in Procs : used[q] \in Nat
  BY DEF Kernel, TreeTypes
<1>2. Heir \notin Procs
  BY Nowhere DEF Heir
<1>3. QED BY <1>1, <1>2, Nowhere DEF Exit, Forward, table

\* ... a wait ...
LEMMA WaitForward ==
  ASSUME Kernel, NEW p \in Procs, Wait(p) \/ HostWaits(p)
  PROVE  Forward
<1>1. \A q \in Procs : used[q] \in Nat
  BY DEF Kernel, TreeTypes
<1>2. st' = [st EXCEPT ![p] = "gone"] /\ st \in [Procs -> {"alive", "zombie", "gone"}]
      /\ par' = par /\ used' = used /\ setup' = setup /\ tracked' = tracked
  BY DEF Wait, HostWaits, table, Kernel, TreeTypes
<1>3. QED BY <1>1, <1>2 DEF Forward

\* ... and the table.
LEMMA TableForward ==
  ASSUME Kernel, (\E p \in Procs : Register(p)) \/ Announce \/ Commit
  PROVE  Forward /\ UNCHANGED tree
<1>1. \A q \in Procs : used[q] \in Nat
  BY DEF Kernel, TreeTypes
<1>2. tracked \in [Procs -> {"never", "live", "ended", "announced", "dropped"}]
  BY DEF Kernel, TreeTypes
<1>3. UNCHANGED tree
  BY DEF Register, Announce, Commit
<1>4. \A p \in Procs : \/ tracked'[p] = tracked[p] \/ (tracked[p] = "never" /\ tracked'[p] = "live")
                       \/ (tracked[p] = "ended" /\ tracked'[p] = "announced")
                       \/ (tracked[p] = "announced" /\ tracked'[p] = "dropped")
  BY <1>2 DEF Register, Announce, Commit
<1>5. QED BY <1>1, <1>3, <1>4 DEF Forward, tree

\* So every step does.
LEMMA Onward ==
  ASSUME Kernel, TreeNext
  PROVE  Forward
BY UseForward, ExitForward, WaitForward, TableForward DEF TreeNext

\* What was waited for stays so, and what use has risen to stays behind it.
LEMMA WaitedOn ==
  ASSUME Kernel, Forward
  PROVE  /\ \A x \in Procs : Waited(x) => Waited(x)'
         /\ \A q \in Procs : \A a : Rose(q, a) => Rose(q, a)'
<1>1. \A x \in Procs : Waited(x) => Waited(x)'
  BY DEF Waited, Forward
<1>2. QED BY <1>1, LineIn DEF Rose

\* A step that waits for nobody moves nothing.
LEMMA StayedPut ==
  ASSUME Kernel, \/ \E p \in Procs : Use(p) \/ Exit(p) \/ HostWaits(p) \/ Register(p)
                 \/ Announce \/ Commit \/ UNCHANGED tree
  PROVE  /\ \A x \in Procs : Waited(x)' <=> Waited(x)
         /\ \A q \in Procs : \A a : Rose(q, a)' <=> Rose(q, a)
<1>1. \A x \in Procs : Waited(x)' <=> Waited(x)
  <2>1. CASE \E p \in Procs : Exit(p)
    <3> PICK p \in Procs : Exit(p)
      BY <2>1
    <3>1. Heir \notin Procs
      BY Nowhere DEF Heir
    <3>2. \A q \in Procs : par'[q] = IF st[q] = "gone" THEN par[q] ELSE IF st'[q] = "gone" THEN Nobody
                              ELSE IF par[q] = p THEN Heir ELSE par[q]
      BY DEF Exit
    <3>3. \A q \in Procs : st[q] = "gone" => st'[q] = "gone"
      BY DEF Exit
    <3>4. QED BY <3>1, <3>2, <3>3, Nowhere DEF Waited
  <2>2. CASE \E p \in Procs : HostWaits(p)
    <3> PICK p \in Procs : HostWaits(p)
      BY <2>2
    <3>1. st' = [st EXCEPT ![p] = "gone"] /\ par' = par /\ par[p] = Host /\ st \in [Procs -> {"alive", "zombie", "gone"}]
      BY DEF HostWaits, Kernel, TreeTypes
    <3>2. QED BY <3>1, Nowhere DEF Waited
  <2>3. CASE UNCHANGED <<st, par>>
    BY <2>3 DEF Waited
  <2>4. QED BY <2>1, <2>2, <2>3 DEF Use, Register, Announce, Commit, tree
<1>2. QED BY <1>1, LineIn DEF Rose

\* A wait lifts what had risen to the process to its living parent, and nothing else.
LEMMA WaitMoves ==
  ASSUME Kernel, NEW p \in Procs, Wait(p)
  PROVE  /\ st[p] = "zombie" /\ p # Root /\ par[p] = BornTo[p] /\ BornTo[p] \in Procs /\ st[BornTo[p]] = "alive"
         /\ \A x \in Procs : Waited(x)' <=> Waited(x) \/ x = p
         /\ \A q \in Procs : \A a : Rose(q, a)' <=> Rose(q, a) \/ (a = BornTo[p] /\ Rose(q, p))
<1>1. /\ st[p] = "zombie" /\ p # Root /\ par[p] = BornTo[p] /\ BornTo[p] \in Procs /\ st[BornTo[p]] = "alive"
      /\ st' = [st EXCEPT ![p] = "gone"] /\ par' = par /\ st \in [Procs -> {"alive", "zombie", "gone"}]
  BY DEF Wait, Kernel, TreeTypes, Parents
<1>2. \A x \in Procs : Waited(x)' <=> Waited(x) \/ x = p
  BY <1>1 DEF Waited
<1>3. ASSUME NEW q \in Procs, NEW a PROVE Rose(q, a)' <=> Rose(q, a) \/ (a = BornTo[p] /\ Rose(q, p))
  <2>0. Rose(q, a)' <=> a \in Line(q) /\ \A x \in Line(q) : a \in Line(x) /\ x # a => Waited(x)'
    BY DEF Rose
  <2>1. ASSUME Rose(q, a) PROVE Rose(q, a)'
    BY <2>0, <2>1, <1>2, LineIn DEF Rose
  <2>2. ASSUME a = BornTo[p], Rose(q, p) PROVE Rose(q, a)'
    <3>1. p \in Line(q) /\ a \in Line(q) /\ a \in Procs
      BY <2>2, RoseIn, LineIn, <1>1
    <3>2. ASSUME NEW x \in Line(q), a \in Line(x), x # a PROVE Waited(x) \/ x = p
      <4>1. x \in Procs
        BY LineIn
      <4>2. CASE p \in Line(x)
        BY <4>2, <2>2 DEF Rose
      <4>3. CASE x \in Line(p) /\ x # p
        <5>1. x \in Line(a)
          BY <4>3, <2>2, LineStep
        <5>2. QED BY <5>1, <3>2, <3>1, LineAnti
      <4>4. QED BY <4>2, <4>3, <3>1, LineLinear
    <3>3. QED BY <2>0, <3>1, <3>2, <1>2, LineIn
  <2>3. ASSUME Rose(q, a)', ~Rose(q, a) PROVE a = BornTo[p] /\ Rose(q, p)
    <3>1. a \in Line(q) /\ a \in Procs
      BY <2>0, <2>3, LineIn
    <3>2. /\ p \in Line(q) /\ a \in Line(p) /\ p # a
      BY <2>3, <2>0, <1>2, LineIn DEF Rose
    <3>3. \A x \in Line(q) : a \in Line(x) /\ x # a => Waited(x) \/ x = p
      BY <2>3, <2>0, <1>2, LineIn
    <3>4. a \in Line(BornTo[p]) /\ BornTo[p] \in Line(q)
      BY <3>2, LineStep, LineIn, <1>1
    <3>5. a = BornTo[p]
      <4>1. ~Waited(BornTo[p]) /\ BornTo[p] # p
        BY <1>1, Bearing DEF Waited
      <4>2. QED BY <4>1, <3>3, <3>4
    <3>6. Rose(q, p)
      <4> SUFFICES ASSUME NEW x \in Line(q), p \in Line(x), x # p PROVE Waited(x)
        BY <3>2 DEF Rose
      <4>1. a \in Line(x) /\ x \in Procs
        BY <3>2, LineIn
      <4>2. x # a
        <5> SUFFICES ASSUME x = a PROVE FALSE
          OBVIOUS
        <5>1. a \in Line(p) /\ p \in Line(a)
          BY <3>2
        <5>2. QED BY <5>1, <3>2, LineAnti
      <4>3. QED BY <4>1, <4>2, <3>3
    <3>7. QED BY <3>5, <3>6
  <2>4. QED BY <2>1, <2>2, <2>3
<1>4. QED BY <1>1, <1>2, <1>3

---------------------------------------------------------------------------
(* What was used is where waiting has put it.                             *)

\* What a process holds of q, as a number.
LEMMA Totals ==
  ASSUME TreeTypes, NEW p \in Procs, NEW q \in Procs
  PROVE  /\ Total(p)[q] = (IF q = p THEN used[p] ELSE 0) + held[p][q] /\ Total(p)[q] \in Nat
         /\ used[q] \in Nat /\ held[p][q] \in Nat
<1>1. held[p] \in [Procs -> Nat] /\ used[q] \in Nat /\ used[p] \in Nat
  BY DEF TreeTypes
<1>2. Total(p)[q] = Own(p)[q] + held[p][q]
  BY DEF Total, Plus
<1>3. Own(p)[q] = IF q = p THEN used[p] ELSE 0
  BY DEF Own
<1>4. held[p][q] \in Nat
  BY <1>1
<1>5. QED BY <1>1, <1>2, <1>3, <1>4

\* The same, after a step.
LEMMA TotalsNext ==
  ASSUME TreeTypes', NEW p \in Procs, NEW q \in Procs
  PROVE  Total(p)'[q] = (IF q = p THEN used'[p] ELSE 0) + held'[p][q]
<1>1. Total(p)'[q] = Own(p)'[q] + held'[p][q]
  BY DEF Total, Plus
<1>2. Own(p)'[q] = IF q = p THEN used'[p] ELSE 0
  BY DEF Own
<1>3. QED BY <1>1, <1>2

\* Nothing is held at the start.
LEMMA Ledger0 ==
  ASSUME DiskInit, TreeTypes
  PROVE  Ledger
<1> SUFFICES ASSUME NEW p \in Procs, NEW q \in Procs PROVE Total(p)[q] = IF Rose(q, p) THEN used[q] ELSE 0
  BY DEF Ledger
<1>1. held[p][q] = 0 /\ used[p] = 0 /\ used[q] = 0
  BY DEF DiskInit, TreeInit, Nothing
<1>2. QED BY <1>1, Totals

\* Use adds to the process that uses.
LEMMA UseLedger ==
  ASSUME Kernel, Kernel', Ledger, NEW z \in Procs, Use(z)
  PROVE  Ledger'
<1> SUFFICES ASSUME NEW p \in Procs, NEW q \in Procs, st'[p] # "gone"
             PROVE  Total(p)'[q] = IF Rose(q, p)' THEN used'[q] ELSE 0
  BY DEF Ledger
<1>1. st' = st /\ par' = par /\ held' = held /\ st[z] = "alive" /\ used' = [used EXCEPT ![z] = @ + 1] /\ used \in [Procs -> Nat]
  BY DEF Use, Kernel, TreeTypes
<1>2. Rose(q, p)' <=> Rose(q, p)
  BY StayedPut
<1>3. Total(p)[q] = IF Rose(q, p) THEN used[q] ELSE 0
  BY <1>1 DEF Ledger
<1>4. Total(p)[q] = (IF q = p THEN used[p] ELSE 0) + held[p][q] /\ used[q] \in Nat /\ held[p][q] \in Nat
  BY Totals DEF Kernel
<1>5. Total(p)'[q] = (IF q = p THEN used'[p] ELSE 0) + held'[p][q]
  BY TotalsNext DEF Kernel
<1>6. CASE q = z
  <2>1. ~Waited(z) /\ Rose(z, z)
    BY <1>1, RoseSelf DEF Waited
  <2>2. CASE q = p
    BY <2>2, <1>6, <2>1, <1>1, <1>2, <1>3, <1>4, <1>5
  <2>3. CASE q # p
    <3>1. ~Rose(q, p)
      BY <2>1, <2>3, <1>6, RoseIn
    <3>2. QED BY <3>1, <2>3, <1>1, <1>2, <1>3, <1>4, <1>5
  <2>4. QED BY <2>2, <2>3
<1>7. CASE q # z
  BY <1>7, <1>1, <1>2, <1>3, <1>4, <1>5
<1>8. QED BY <1>6, <1>7

\* A wait moves what the process held to the parent.
LEMMA WaitLedger ==
  ASSUME Kernel, Kernel', Ledger, NEW z \in Procs, Wait(z)
  PROVE  Ledger'
<1> SUFFICES ASSUME NEW p \in Procs, NEW q \in Procs, st'[p] # "gone"
             PROVE  Total(p)'[q] = IF Rose(q, p)' THEN used'[q] ELSE 0
  BY DEF Ledger
<1> DEFINE y == BornTo[z]
<1>1. st[z] = "zombie" /\ z # Root /\ par[z] = y /\ y \in Procs /\ st[y] = "alive"
  BY WaitMoves
<1>2. Rose(q, p)' <=> Rose(q, p) \/ (p = y /\ Rose(q, z))
  BY WaitMoves
<1>3. /\ st' = [st EXCEPT ![z] = "gone"] /\ used' = used /\ y # z
      /\ held' = [held EXCEPT ![y] = Plus(@, Total(z)), ![z] = Nothing]
      /\ held \in [Procs -> [Procs -> Nat]] /\ st \in [Procs -> {"alive", "zombie", "gone"}]
  BY <1>1, Bearing DEF Wait, Kernel, TreeTypes
<1>4. p # z /\ st[p] # "gone"
  BY <1>3
<1>5. Total(p)[q] = (IF Rose(q, p) THEN used[q] ELSE 0) /\ Total(z)[q] = IF Rose(q, z) THEN used[q] ELSE 0
  BY <1>1, <1>4 DEF Ledger
<1>6. /\ Total(p)[q] = (IF q = p THEN used[p] ELSE 0) + held[p][q] /\ used[q] \in Nat /\ held[p][q] \in Nat
      /\ Total(p)'[q] = (IF q = p THEN used'[p] ELSE 0) + held'[p][q]
      /\ used[p] \in Nat
  BY Totals, TotalsNext DEF Kernel
<1>7. CASE p # y
  <2>1. held'[p] = held[p]
    BY <1>3, <1>4, <1>7
  <2>2. QED BY <2>1, <1>2, <1>3, <1>5, <1>6, <1>7
<1>8. CASE p = y
  <2>1. held'[y] = Plus(held[y], Total(z))
    BY <1>1, <1>3
  <2>2. held'[y][q] = held[y][q] + Total(z)[q]
    BY <2>1 DEF Plus
  <2>3. ~(Rose(q, y) /\ Rose(q, z))
    BY <1>1, <1>3, RoseOrder, LineStep, LineIn, LineAnti DEF Waited
  <2> HIDE DEF y
  <2>4. QED BY <2>2, <2>3, <1>2, <1>3, <1>5, <1>6, <1>8
<1>9. QED BY <1>7, <1>8

\* Other steps move nothing.
LEMMA QuietLedger ==
  ASSUME Kernel, Kernel', Ledger, NEW z \in Procs,
         Exit(z) \/ HostWaits(z) \/ Register(z) \/ Announce \/ Commit \/ UNCHANGED tree
  PROVE  Ledger'
<1> SUFFICES ASSUME NEW p \in Procs, NEW q \in Procs, st'[p] # "gone"
             PROVE  Total(p)'[q] = IF Rose(q, p)' THEN used'[q] ELSE 0
  BY DEF Ledger
<1>1. Rose(q, p)' <=> Rose(q, p)
  BY StayedPut
<1>2. used' = used /\ held'[p] = held[p] /\ st[p] # "gone"
  <2>1. CASE Exit(z)
    BY <2>1 DEF Exit
  <2>2. CASE HostWaits(z)
    BY <2>2 DEF HostWaits, Kernel, TreeTypes
  <2>3. QED BY <2>1, <2>2, TableForward DEF tree
<1>3. Total(p)' = Total(p)
  BY <1>2 DEF Total, Own
<1>4. QED BY <1>1, <1>2, <1>3 DEF Ledger

\* Every step keeps the ledger.
LEMMA LedgerKept ==
  ASSUME Kernel, Kernel', Ledger, TreeNext \/ UNCHANGED tree
  PROVE  Ledger'
<1>1. Root \in Procs
  BY Tree
<1>2. QED BY <1>1, UseLedger, WaitLedger, QuietLedger DEF TreeNext

---------------------------------------------------------------------------
(* The probe: its steps leave what it knows true.                         *)

\* The probe's part of the invariant.
Probe == ProbeTypes /\ Phases /\ Snapshot /\ NotedOnce /\ WatchFacts

\* All above a registered process is registered.
LEMMA EnteredUp ==
  ASSUME Entered, NEW a \in Procs, tracked[a] # "never", NEW x \in Line(a)
  PROVE  x \in Procs /\ tracked[x] # "never"
<1> DEFINE S == {z \in Procs : tracked[z] # "never"}
<1>1. Closed(S)
  BY Bearing DEF Entered, Closed
<1>2. QED BY <1>1, LineWithin

\* It holds at the start.
LEMMA Probe0 ==
  ASSUME DiskInit
  PROVE  Probe
<1> USE DEF DiskInit, Between
<1>1. Watched = {} /\ Base = {} /\ DOMAIN unread = {} /\ Readings = {} /\ ~InTick
  BY DEF Watched, Base, Readings, InTick
<1>2. ProbeTypes
  <2>1. /\ tick = [pc |-> "between", todo |-> {}, snap |-> {}, live |-> {}, read |-> <<>>, after |-> {}]
        /\ tick.pc = "between" /\ tick.todo = {} /\ tick.snap = {} /\ tick.live = {} /\ tick.read = <<>> /\ tick.after = {}
    OBVIOUS
  <2>a. Nothing \in [Procs -> Int]
    BY DEF Nothing
  <2>2. reapNoted = {} /\ reported \in [Procs -> Int] /\ doubtful = {} /\ negative \in BOOLEAN
    BY <2>a
  <2>3. QED BY <1>1, <2>1, <2>2 DEF ProbeTypes
<1>3. Phases
  BY <1>1 DEF Phases
<1>4. Snapshot
  BY <1>1 DEF Snapshot
<1>5. NotedOnce
  BY <1>1 DEF NotedOnce, TreeInit
<1>6. WatchFacts
  BY <1>1 DEF WatchFacts
<1>7. QED BY <1>2, <1>3, <1>4, <1>5, <1>6 DEF Probe

\* A step that leaves the probe alone leaves its names alone.
LEMMA DiskSame ==
  ASSUME UNCHANGED disk
  PROVE  /\ Watched' = Watched /\ Base' = Base /\ Readings' = Readings /\ InTick' = InTick
         /\ tick' = tick /\ reapWatch' = reapWatch /\ prevPIDIO' = prevPIDIO /\ reapNoted' = reapNoted /\ unread' = unread
         /\ reported' = reported /\ doubtful' = doubtful /\ negative' = negative
BY DEF disk, Watched, Base, Readings, InTick

\* What the table does between two steps of the probe.
LEMMA TableMoves ==
  ASSUME Kernel, TreeNext
  PROVE  \A p \in Procs : \/ tracked'[p] = tracked[p]
                          \/ (tracked[p] = "never" /\ tracked'[p] = "live")
                          \/ (tracked[p] = "ended" /\ tracked'[p] = "announced")
                          \/ (tracked[p] = "announced" /\ tracked'[p] = "dropped")
<1>1. tracked \in [Procs -> {"never", "live", "ended", "announced", "dropped"}]
  BY DEF Kernel, TreeTypes
<1>2. CASE \E p \in Procs : Use(p) \/ Exit(p) \/ Wait(p) \/ HostWaits(p)
  BY <1>2 DEF Use, Exit, Wait, HostWaits, table
<1>3. CASE (\E p \in Procs : Register(p)) \/ Announce \/ Commit
  BY <1>1, <1>3 DEF Register, Announce, Commit
<1>4. QED BY <1>2, <1>3 DEF TreeNext

\* The host's waits are noted, and a registered parent does not change.
LEMMA NotedMoves ==
  ASSUME Kernel, TreeNext
  PROVE  /\ noted \subseteq noted'
         /\ \A k \in Procs : k # Root /\ st'[k] = "gone" /\ par'[k] = Host /\ st[k] # "gone" => k \in noted'
         /\ \A m \in Procs : tracked[m] # "never" => under'[m] = under[m]
<1>1. st \in [Procs -> {"alive", "zombie", "gone"}] /\ under \in [Procs -> Procs \cup {Host, Nobody}]
  BY DEF Kernel, TreeTypes
<1>2. CASE \E p \in Procs : Exit(p)
  <2> PICK p \in Procs : Exit(p)
    BY <1>2
  <2>1. \A q \in Procs : par'[q] = IF st[q] = "gone" THEN par[q] ELSE IF st'[q] = "gone" THEN Nobody
                            ELSE IF par[q] = p THEN Heir ELSE par[q]
    BY DEF Exit
  <2>2. QED BY <2>1, Nowhere DEF Exit, table
<1>3. CASE \E p \in Procs : Wait(p)
  <2> PICK p \in Procs : Wait(p)
    BY <1>3
  <2>1. st' = [st EXCEPT ![p] = "gone"] /\ par' = par /\ par[p] \in Procs /\ noted' = noted /\ under' = under
    BY DEF Wait, table
  <2>2. QED BY <2>1, <1>1, Nowhere
<1>4. CASE \E p \in Procs : HostWaits(p)
  <2> PICK p \in Procs : HostWaits(p)
    BY <1>4
  <2>1. st' = [st EXCEPT ![p] = "gone"] /\ noted' = (IF p = Root THEN noted ELSE noted \cup {p}) /\ under' = under
    BY DEF HostWaits
  <2>2. QED BY <2>1, <1>1
<1>5. CASE \E p \in Procs : Register(p)
  <2> PICK p \in Procs : Register(p)
    BY <1>5
  <2>1. tracked[p] = "never" /\ under' = [under EXCEPT ![p] = par[p]] /\ st' = st /\ noted' = noted
    BY DEF Register, tree
  <2>2. QED BY <2>1, <1>1
<1>6. CASE (\E p \in Procs : Use(p)) \/ Announce \/ Commit
  BY <1>6 DEF Use, Announce, Commit, tree, table
<1>7. QED BY <1>2, <1>3, <1>4, <1>5, <1>6 DEF TreeNext

\* The kernel's steps keep it.
LEMMA KernelProbe ==
  ASSUME Kernel, Kernel', Probe, TreeNext, UNCHANGED disk
  PROVE  Probe'
<1> USE DEF Probe
<1>1. ProbeTypes'
  BY DiskSame DEF ProbeTypes
<1>2. Phases'
  BY DiskSame DEF Phases
<1>t. Watched \subseteq Procs /\ Base \subseteq Procs /\ Readings \subseteq tick.live /\ tick.live \subseteq tick.snap /\ tick.snap \subseteq Procs
      /\ reapNoted \subseteq Procs /\ DOMAIN unread \subseteq Procs
  BY DEF ProbeTypes
<1>3. Snapshot'
  <2>1. \A p \in tick.live : tracked'[p] = "live"
    BY <1>t, TableMoves DEF Snapshot
  <2>2. \A p \in tick.snap : p \in tick.live \/ (tracked'[p] \in {"ended", "announced", "dropped"} /\ p \in reapNoted)
    BY <1>t, TableMoves DEF Snapshot
  <2>3. InTick => \A p \in Procs \ tick.snap : tracked'[p] \in {"never", "live", "dropped"}
    BY TableMoves DEF Snapshot
  <2>4. ASSUME InTick, NEW x \in Procs, tracked'[x] = "live", x \notin tick.live, NEW a \in Procs, x \in Line(a)
        PROVE  a \notin Base \cup Watched \cup tick.snap
    <3>1. CASE tracked[x] = "live"
      BY <2>4, <3>1 DEF Snapshot
    <3>2. CASE tracked[x] = "never"
      <4>1. tracked[a] = "never"
        BY <2>4, <3>2, EnteredUp DEF Kernel
      <4>2. a \notin Base /\ a \notin Watched
        BY <4>1 DEF NotedOnce, Ends
      <4>3. a \notin tick.snap
        BY <4>1, <1>t DEF Snapshot
      <4>4. QED BY <4>2, <4>3
    <3>3. QED BY <2>4, <3>1, <3>2, TableMoves
  <2>5. QED BY <2>1, <2>2, <2>3, <2>4, DiskSame DEF Snapshot
<1>4. NotedOnce'
  <2>1. Ends \subseteq Ends'
    BY Onward DEF Forward, Ends
  <2>2. \A p \in Procs : tracked'[p] \in {"ended", "announced"} => p \in reapNoted
    BY TableMoves DEF NotedOnce
  <2>3. \A p \in Base : tracked'[p] # "never" /\ (tracked'[p] # "live" => p \in reapNoted)
    BY <1>t, TableMoves DEF NotedOnce
  <2>4. \A m \in DOMAIN unread : m \notin Watched /\ m \in tick.snap \ tick.live /\ unread[m] = under'[m]
    <3>1. \A m \in DOMAIN unread : m \in Procs /\ tracked[m] # "never"
      BY <1>t DEF NotedOnce, Ends
    <3>2. QED BY <3>1, NotedMoves DEF NotedOnce
  <2>5. QED BY <2>1, <2>2, <2>3, <2>4, DiskSame DEF NotedOnce
<1>5. WatchFacts'
  <2>1. ASSUME NEW k \in Watched
        PROVE LET w == reapWatch[k] IN
       /\ w.reaped => st'[k] = "gone"
       /\ w.autoreaped => w.reaped /\ k # Root /\ BornTo[k] \in setup'.ignores
       /\ w.parent \in Procs => k # Root /\ w.parent = BornTo[k]
       /\ w.parent \notin Procs => par'[k] \notin Procs
       /\ tick.pc = "after" /\ k \notin tick.todo /\ ~w.reaped /\ w.parent \in Procs => w.parent \in tick.live
       /\ InTick /\ w.reaped /\ k \notin tick.after /\ k # Root /\ BornTo[k] \in tick.live /\ setup'.ignores = {}
            /\ (tick.pc = "after" \/ st'[BornTo[k]] = "alive") => Waited(k)'
    <3>1. k \in Procs /\ (k # Root => BornTo[k] \in Procs)
      BY <1>t, Bearing
    <3>2. Forward /\ (Waited(k) => Waited(k)')
      BY <3>1, Onward, WaitedOn
    <3>3. QED BY <3>1, <3>2 DEF WatchFacts, Forward
  <2>2. ASSUME NEW k \in Base \cup Watched \cup Readings, st'[k] = "gone", par'[k] = Host, k # Root
        PROVE  k \in noted'
    <3>1. k \in Procs
      BY <1>t
    <3>2. CASE st[k] = "gone"
      <4>1. par[k] = Host
        BY <2>2, <3>1, <3>2, Onward DEF Forward
      <4>2. k \in noted
        BY <2>2, <3>2, <4>1 DEF WatchFacts
      <4>3. QED BY <4>2, NotedMoves
    <3>3. CASE st[k] # "gone"
      BY <2>2, <3>1, <3>3, NotedMoves
    <3>4. QED BY <3>2, <3>3
  <2>3. QED BY <2>1, <2>2, DiskSame DEF WatchFacts
<1>6. QED BY <1>1, <1>2, <1>3, <1>4, <1>5

\* What is left alone, between the probe's own steps.
TreeSame == UNCHANGED <<tree, table>>
\* A step of the sample thread leaves the tree and the table alone.
LEMMA SameTree ==
  ASSUME TreeSame
  PROVE  /\ setup' = setup /\ st' = st /\ par' = par /\ used' = used /\ held' = held
         /\ tracked' = tracked /\ under' = under /\ noted' = noted /\ Ends' = Ends
         /\ \A x : Waited(x)' = Waited(x)
         /\ \A q, a : Rose(q, a)' = Rose(q, a)
BY DEF TreeSame, tree, table, Ends, Waited, Rose

\* BeginTick keeps it.
LEMMA BeginTickProbe ==
  ASSUME Kernel, Probe, BeginTick, TreeSame
  PROVE  Probe'
<1> USE DEF Probe
<1>1. /\ tick.pc = "between"
      /\ tick' = [pc |-> "before", todo |-> Watched \ Reaped, snap |-> tick.snap, live |-> tick.live, read |-> tick.read, after |-> tick.after]
      /\ prevPIDIO' = prevPIDIO /\ reapWatch' = reapWatch /\ reapNoted' = reapNoted /\ unread' = unread
      /\ reported' = reported /\ doubtful' = doubtful /\ negative' = negative
  BY DEF BeginTick, ProbeTypes
<1>2. /\ tick'.pc = "before" /\ tick'.todo = Watched \ Reaped /\ tick'.snap = tick.snap /\ tick'.live = tick.live
      /\ tick'.read = tick.read /\ tick'.after = tick.after
  BY <1>1
<1>3. Watched' = Watched /\ Base' = Base /\ Readings' = Readings /\ ~InTick /\ ~InTick'
  BY <1>1, <1>2 DEF Watched, Base, Readings, InTick
<1> HIDE DEF Probe
<1> USE <1>1, <1>2, <1>3, SameTree
<1>4. ProbeTypes'
  BY DEF Probe, ProbeTypes
<1>5. Phases'
  BY DEF Probe, Phases
<1>6. Snapshot'
  BY DEF Probe, Snapshot
<1>7. NotedOnce'
  BY DEF Probe, NotedOnce
<1>8. WatchFacts'
  BY DEF Probe, WatchFacts
<1>9. QED BY <1>4, <1>5, <1>6, <1>7, <1>8 DEF Probe

\* TakeSnapshot keeps it.
LEMMA TakeSnapshotProbe ==
  ASSUME Kernel, Probe, TakeSnapshot, TreeSame
  PROVE  Probe'
<1> DEFINE live == {p \in Entries : tracked[p] = "live"}
<1>1. /\ tick.pc \in {"between", "before"} /\ tick.todo = {}
      /\ tick' = [pc |-> "read", todo |-> live, snap |-> Entries, live |-> live, read |-> tick.read, after |-> tick.after]
      /\ prevPIDIO' = prevPIDIO /\ reapWatch' = reapWatch /\ reapNoted' = reapNoted /\ unread' = unread
      /\ reported' = reported /\ doubtful' = doubtful /\ negative' = negative
  BY DEF TakeSnapshot, Probe, ProbeTypes
<1>2. /\ tick'.pc = "read" /\ tick'.todo = live /\ tick'.snap = Entries /\ tick'.live = live
      /\ tick'.read = tick.read /\ tick'.after = tick.after
  BY <1>1
<1>3. Watched' = Watched /\ Base' = Base /\ Readings' = Readings /\ ~InTick /\ InTick'
  BY <1>1, <1>2 DEF Watched, Base, Readings, InTick
<1>4. Readings = {} /\ tick.after = {} /\ DOMAIN unread = {}
  BY <1>1, <1>3 DEF Probe, Phases, ProbeTypes
<1>5. /\ Entries \subseteq Procs /\ live \subseteq Entries /\ \A p \in Procs : tracked[p] = "live" => p \in live
      /\ \A p \in live : tracked[p] = "live"
      /\ \A p \in Entries : p \in live \/ tracked[p] \in {"ended", "announced"}
      /\ \A p \in Procs \ Entries : tracked[p] \in {"never", "dropped"}
  BY DEF Entries, Kernel, TreeTypes
<1> HIDE DEF live
<1> USE <1>1, <1>2, <1>3, <1>4, <1>5, SameTree
<1>6. ProbeTypes'
  BY DEF Probe, ProbeTypes
<1>7. Phases'
  <2>1. \A y \in (live \ live) \ {Root} : BornTo[y] \notin live
    OBVIOUS
  <2>2. QED BY <2>1 DEF Phases
<1>8. Snapshot'
  BY DEF Probe, Snapshot, NotedOnce
<1>9. NotedOnce'
  BY DEF Probe, NotedOnce
<1>10. WatchFacts'
  <2>1. ASSUME NEW k \in Watched
        PROVE LET w == reapWatch[k] IN
       /\ w.reaped => st[k] = "gone"
       /\ w.autoreaped => w.reaped /\ k # Root /\ BornTo[k] \in setup.ignores
       /\ w.parent \in Procs => k # Root /\ w.parent = BornTo[k]
       /\ w.parent \notin Procs => par[k] \notin Procs
       /\ w.reaped /\ k # Root /\ setup.ignores = {} /\ st[BornTo[k]] = "alive" => Waited(k)
    <3>1. k \in Procs
      BY DEF Probe, ProbeTypes
    <3>2. QED BY <3>1, Bearing DEF Probe, WatchFacts, Kernel, Parents, Waited
  <2>2. QED BY <2>1 DEF WatchFacts, Probe
<1>11. QED BY <1>6, <1>7, <1>8, <1>9, <1>10 DEF Probe

\* ReadPIDIO keeps it.
LEMMA ReadProbe ==
  ASSUME Kernel, Probe, NEW p \in Procs, ReadPIDIO(p), TreeSame
  PROVE  Probe'
<1> DEFINE more == Over([x \in {p} |-> Total(x)], tick.read)
           read == IF st[p] = "alive" /\ p \notin setup.unreadable THEN more ELSE tick.read
<1>1. /\ tick.pc = "read" /\ p \in tick.todo /\ under[p] \notin tick.todo
      /\ tick' = [pc |-> "read", todo |-> tick.todo \ {p}, snap |-> tick.snap, live |-> tick.live, read |-> read, after |-> tick.after]
      /\ prevPIDIO' = prevPIDIO /\ reapWatch' = reapWatch /\ reapNoted' = reapNoted /\ unread' = unread
      /\ reported' = reported /\ doubtful' = doubtful /\ negative' = negative
  BY DEF ReadPIDIO, Probe, ProbeTypes
<1>2. /\ tick'.pc = "read" /\ tick'.todo = tick.todo \ {p} /\ tick'.snap = tick.snap /\ tick'.live = tick.live
      /\ tick'.read = read /\ tick'.after = tick.after
  BY <1>1
<1>a. p \in tick.live /\ p \notin Readings
  BY <1>1 DEF Probe, Phases
<1>b. IF st[p] = "alive" /\ p \notin setup.unreadable
      THEN DOMAIN read = Readings \cup {p} /\ read[p] = Total(p) /\ \A y \in Readings : read[y] = tick.read[y]
      ELSE read = tick.read
  <2>1. DOMAIN more = Readings \cup {p} /\ more[p] = Total(p) /\ \A y \in Readings \ {p} : more[y] = tick.read[y]
    BY DEF Over, Readings
  <2> HIDE DEF more
  <2>2. QED BY <1>a, <2>1
<1> HIDE DEF read, more
<1>3. Watched' = Watched /\ Base' = Base /\ Readings' = DOMAIN read /\ InTick /\ InTick'
  BY <1>1, <1>2 DEF Watched, Base, Readings, InTick
<1>4. Total(p) \in [Procs -> Nat]
  BY DEF Total, Plus, Own, Kernel, TreeTypes
<1> USE <1>1, <1>2, <1>3, SameTree
<1>5. DOMAIN read \subseteq tick.live /\ \A y \in DOMAIN read : read[y] \in [Procs -> Nat] /\ (y \in Readings \/ (y = p /\ st[p] = "alive"))
  BY <1>a, <1>b, <1>4 DEF Probe, ProbeTypes, Readings
<1>6. ProbeTypes'
  BY <1>5 DEF Probe, ProbeTypes
<1>7. Phases'
  <2>1. \A y \in (tick.live \ (tick.todo \ {p})) \ {Root} : BornTo[y] \notin tick.todo \ {p}
    <3>1. p # Root => under[p] = BornTo[p]
      BY <1>a DEF Probe, Snapshot, Kernel, Entered
    <3>2. QED BY <3>1 DEF Probe, Phases
  <2>2. tick.todo \ {p} \subseteq tick.live /\ DOMAIN read \cap (tick.todo \ {p}) = {} /\ tick.after = {} /\ DOMAIN unread = {}
    BY <1>5 DEF Probe, Phases
  <2>3. QED BY <2>1, <2>2 DEF Phases
<1>8. Snapshot'
  BY DEF Probe, Snapshot
<1>9. NotedOnce'
  BY DEF Probe, NotedOnce
<1>10. WatchFacts'
  <2>1. \A k \in Base \cup Watched \cup DOMAIN read : st[k] = "gone" /\ par[k] = Host /\ k # Root => k \in noted
    BY <1>5 DEF Probe, WatchFacts
  <2>2. QED BY <2>1 DEF Probe, WatchFacts
<1>11. QED BY <1>6, <1>7, <1>8, <1>9, <1>10 DEF Probe

\* What a look changes: one watch, and the tick.
LEMMA LookStep ==
  ASSUME Kernel, Probe, NEW p \in Procs, Look(p), TreeSame
  PROVE  /\ tick.pc \in {"before", "after"} /\ p \in tick.todo /\ p \in Watched /\ Watched' = Watched
         /\ \A k \in Watched \ {p} : reapWatch'[k] = reapWatch[k]
         /\ reapWatch'[p] = IF st[p] = "gone"
              THEN [reapWatch[p] EXCEPT !.reaped = TRUE,
                      !.autoreaped = reapWatch[p].parent \in Procs /\ IgnoresSigchld(reapWatch[p].parent)]
              ELSE [reapWatch[p] EXCEPT !.parent = par[p]]
         /\ tick'.pc = tick.pc /\ tick'.todo = tick.todo \ {p} /\ tick'.snap = tick.snap /\ tick'.live = tick.live
         /\ tick'.read = tick.read
         /\ tick'.after = IF tick.pc = "after" /\ st[p] = "gone" THEN tick.after \cup {p} ELSE tick.after
         /\ tick' = [pc |-> tick'.pc, todo |-> tick'.todo, snap |-> tick'.snap, live |-> tick'.live, read |-> tick'.read, after |-> tick'.after]
         /\ prevPIDIO' = prevPIDIO /\ reapNoted' = reapNoted /\ unread' = unread
         /\ reported' = reported /\ doubtful' = doubtful /\ negative' = negative
         /\ Base' = Base /\ Readings' = Readings /\ (InTick <=> tick.pc = "after") /\ InTick' = InTick
<1>1. /\ tick.pc \in {"before", "after"} /\ p \in tick.todo
      /\ tick' = [pc |-> tick.pc, todo |-> tick.todo \ {p}, snap |-> tick.snap, live |-> tick.live, read |-> tick.read,
                  after |-> IF tick.pc = "after" /\ st[p] = "gone" THEN tick.after \cup {p} ELSE tick.after]
      /\ prevPIDIO' = prevPIDIO /\ reapNoted' = reapNoted /\ unread' = unread
      /\ reported' = reported /\ doubtful' = doubtful /\ negative' = negative
      /\ reapWatch' = Looked(p)
  BY DEF Look, Probe, ProbeTypes
<1>2. p \in Watched
  BY <1>1 DEF Probe, Phases
<1>3. /\ Watched' = Watched /\ \A k \in Watched \ {p} : reapWatch'[k] = reapWatch[k]
      /\ reapWatch'[p] = IF st[p] = "gone"
              THEN [reapWatch[p] EXCEPT !.reaped = TRUE,
                      !.autoreaped = reapWatch[p].parent \in Procs /\ IgnoresSigchld(reapWatch[p].parent)]
              ELSE [reapWatch[p] EXCEPT !.parent = par[p]]
  <2>1. CASE st[p] = "gone"
    <3>1. reapWatch' = [reapWatch EXCEPT ![p].reaped = TRUE,
                          ![p].autoreaped = reapWatch[p].parent \in Procs /\ IgnoresSigchld(reapWatch[p].parent)]
      BY <1>1, <2>1 DEF Looked
    <3>2. QED BY <3>1, <2>1, <1>2 DEF Watched
  <2>2. CASE st[p] # "gone"
    <3>1. reapWatch' = [reapWatch EXCEPT ![p].parent = par[p]]
      BY <1>1, <2>2 DEF Looked
    <3>2. QED BY <3>1, <2>2, <1>2 DEF Watched
  <2>3. QED BY <2>1, <2>2
<1>4. QED BY <1>1, <1>2, <1>3 DEF Base, Readings, InTick

\* The watch it leaves.
LEMMA LookWatch ==
  ASSUME Kernel, Probe, NEW p \in Procs, Look(p), TreeSame
  PROVE  LET w == reapWatch'[p] IN
       /\ w = [parent |-> w.parent, last |-> reapWatch[p].last, reaped |-> w.reaped, autoreaped |-> w.autoreaped, root |-> reapWatch[p].root]
       /\ w.reaped \in BOOLEAN /\ w.autoreaped \in BOOLEAN
       /\ w.parent \in Procs \cup {Host, Outside, Nobody}
       /\ w.reaped <=> st[p] = "gone"
       /\ w.parent = IF st[p] = "gone" THEN reapWatch[p].parent ELSE par[p]
       /\ w.autoreaped => w.reaped /\ p # Root /\ BornTo[p] \in setup.ignores
<1>1. LET w == reapWatch[p] IN
       /\ w = [parent |-> w.parent, last |-> w.last, reaped |-> w.reaped, autoreaped |-> w.autoreaped, root |-> w.root]
       /\ w.reaped \in BOOLEAN /\ w.autoreaped \in BOOLEAN
       /\ w.parent \in Procs \cup {Host, Outside, Nobody}
       /\ w.reaped => st[p] = "gone"
       /\ w.autoreaped => w.reaped
       /\ w.parent \in Procs => p # Root /\ w.parent = BornTo[p]
  BY LookStep DEF Probe, ProbeTypes, WatchFacts
<1>2. reapWatch'[p] = IF st[p] = "gone"
              THEN [parent |-> reapWatch[p].parent, last |-> reapWatch[p].last, reaped |-> TRUE,
                    autoreaped |-> reapWatch[p].parent \in Procs /\ IgnoresSigchld(reapWatch[p].parent), root |-> reapWatch[p].root]
              ELSE [parent |-> par[p], last |-> reapWatch[p].last, reaped |-> reapWatch[p].reaped,
                    autoreaped |-> reapWatch[p].autoreaped, root |-> reapWatch[p].root]
  BY <1>1, LookStep
<1>3. par[p] \in Procs \cup {Host, Outside, Nobody}
  BY DEF Kernel, TreeTypes
<1>4. CASE st[p] = "gone"
  <2> DEFINE auto == reapWatch[p].parent \in Procs /\ IgnoresSigchld(reapWatch[p].parent)
  <2>1. auto \in BOOLEAN /\ (auto => p # Root /\ BornTo[p] \in setup.ignores)
    BY <1>1 DEF IgnoresSigchld
  <2>2. reapWatch'[p] = [parent |-> reapWatch[p].parent, last |-> reapWatch[p].last, reaped |-> TRUE,
                         autoreaped |-> auto, root |-> reapWatch[p].root]
    BY <1>2, <1>4
  <2> HIDE DEF auto
  <2>3. QED BY <1>1, <1>4, <2>1, <2>2
<1>5. CASE st[p] # "gone"
  BY <1>1, <1>2, <1>3, <1>5
<1>6. QED BY <1>4, <1>5

\* Look keeps it.
LEMMA LookProbe ==
  ASSUME Kernel, Probe, NEW p \in Procs, Look(p), TreeSame
  PROVE  Probe'
<1>a. /\ setup' = setup /\ st' = st /\ par' = par /\ tracked' = tracked /\ under' = under /\ noted' = noted /\ Ends' = Ends
      /\ \A x : Waited(x)' = Waited(x)
  BY SameTree
<1>b. /\ tick.pc \in {"before", "after"} /\ p \in tick.todo /\ p \in Watched /\ Watched' = Watched
      /\ \A k \in Watched \ {p} : reapWatch'[k] = reapWatch[k]
      /\ tick'.pc = tick.pc /\ tick'.todo = tick.todo \ {p} /\ tick'.snap = tick.snap /\ tick'.live = tick.live
      /\ tick'.read = tick.read
      /\ tick'.after = IF tick.pc = "after" /\ st[p] = "gone" THEN tick.after \cup {p} ELSE tick.after
      /\ tick' = [pc |-> tick'.pc, todo |-> tick'.todo, snap |-> tick'.snap, live |-> tick'.live, read |-> tick'.read, after |-> tick'.after]
      /\ prevPIDIO' = prevPIDIO /\ reapNoted' = reapNoted /\ unread' = unread
      /\ reported' = reported /\ doubtful' = doubtful /\ negative' = negative
      /\ Base' = Base /\ Readings' = Readings /\ (InTick <=> tick.pc = "after") /\ InTick' = InTick
  BY LookStep
<1> USE <1>a, <1>b
<1>1. ProbeTypes'
  <2>1. \A k \in Watched : LET w == reapWatch'[k] IN
       /\ w = [parent |-> w.parent, last |-> w.last, reaped |-> w.reaped, autoreaped |-> w.autoreaped, root |-> w.root]
       /\ w.last \in [Procs -> Nat] /\ w.reaped \in BOOLEAN /\ w.autoreaped \in BOOLEAN
       /\ w.parent \in Procs \cup {Host, Outside, Nobody}
    <3> SUFFICES ASSUME NEW k \in Watched
                 PROVE  LET w == reapWatch'[k] IN
       /\ w = [parent |-> w.parent, last |-> w.last, reaped |-> w.reaped, autoreaped |-> w.autoreaped, root |-> w.root]
       /\ w.last \in [Procs -> Nat] /\ w.reaped \in BOOLEAN /\ w.autoreaped \in BOOLEAN
       /\ w.parent \in Procs \cup {Host, Outside, Nobody}
      OBVIOUS
    <3>1. reapWatch[k].last \in [Procs -> Nat]
      BY DEF Probe, ProbeTypes
    <3>2. CASE k = p
      <4> DEFINE w == reapWatch'[p]
      <4>1. /\ w = [parent |-> w.parent, last |-> reapWatch[p].last, reaped |-> w.reaped, autoreaped |-> w.autoreaped, root |-> reapWatch[p].root]
            /\ w.reaped \in BOOLEAN /\ w.autoreaped \in BOOLEAN
            /\ w.parent \in Procs \cup {Host, Outside, Nobody}
        BY LookWatch
      <4> HIDE DEF w
      <4>2. w.last = reapWatch[p].last /\ w.root = reapWatch[p].root
        BY <4>1
      <4>3. /\ w = [parent |-> w.parent, last |-> w.last, reaped |-> w.reaped, autoreaped |-> w.autoreaped, root |-> w.root]
            /\ w.last \in [Procs -> Nat] /\ w.reaped \in BOOLEAN /\ w.autoreaped \in BOOLEAN
            /\ w.parent \in Procs \cup {Host, Outside, Nobody}
        BY <4>1, <4>2, <3>1, <3>2
      <4>4. QED BY <4>3, <3>2 DEF w
    <3>3. CASE k # p
      BY <3>3 DEF Probe, ProbeTypes
    <3>4. QED BY <3>2, <3>3
  <2>2. QED BY <2>1 DEF Probe, ProbeTypes
<1>2. Phases'
  BY DEF Probe, Phases
<1>3. Snapshot'
  BY DEF Probe, Snapshot
<1>4. NotedOnce'
  BY DEF Probe, NotedOnce
<1>5. WatchFacts'
  <2>1. ASSUME NEW k \in Watched
        PROVE LET w == reapWatch'[k] IN
       /\ w.reaped => st[k] = "gone"
       /\ w.autoreaped => w.reaped /\ k # Root /\ BornTo[k] \in setup.ignores
       /\ w.parent \in Procs => k # Root /\ w.parent = BornTo[k]
       /\ w.parent \notin Procs => par[k] \notin Procs
       /\ tick.pc = "after" /\ k \notin tick.todo \ {p} /\ ~w.reaped /\ w.parent \in Procs => w.parent \in tick.live
       /\ InTick /\ w.reaped /\ k \notin tick'.after /\ k # Root /\ BornTo[k] \in tick.live /\ setup.ignores = {}
            /\ (tick.pc = "after" \/ st[BornTo[k]] = "alive") => Waited(k)
    <3>1. CASE k # p
      BY <3>1 DEF Probe, WatchFacts
    <3>2. CASE k = p
      <4>1. LET w == reapWatch[p] IN w.parent \in Procs => p # Root /\ w.parent = BornTo[p]
        BY DEF Probe, WatchFacts
      <4>2. reapWatch[p].parent \notin Procs => par[p] \notin Procs
        BY DEF Probe, WatchFacts
      <4>3. CASE st[p] = "gone"
        BY <4>1, <4>2, <4>3, <3>2, LookWatch
      <4>4. CASE st[p] # "gone"
        <5>1. reapWatch'[p].parent = par[p] /\ ~reapWatch'[p].reaped /\ ~reapWatch'[p].autoreaped
          BY <4>4, LookWatch
        <5>2. ASSUME par[p] \in Procs PROVE par[p] \in tick.live \/ tick.pc # "after"
          <6>1. p # Root /\ par[p] = BornTo[p] /\ st[par[p]] = "alive"
            BY <5>2, <4>4 DEF Kernel, Parents
          <6>2. BornTo[p] \in Line(p) /\ BornTo[p] \in Procs
            BY <6>1, LineIn, <5>2
          <6>3. tracked[p] \notin {"never", "live"} /\ tracked[BornTo[p]] # "never"
            BY <6>1, <6>2 DEF Kernel, Entered, Probe, NotedOnce, Ends
          <6>4. tracked[BornTo[p]] = "live"
            BY <6>1, <6>2, <6>3 DEF Kernel, Entered
          <6>5. QED BY <6>1, <6>2, <6>4 DEF Probe, Snapshot
        <5>3. par[p] \in Procs => p # Root /\ par[p] = BornTo[p]
          BY DEF Kernel, Parents
        <5>4. QED BY <5>1, <5>2, <5>3, <3>2
      <4>5. QED BY <4>3, <4>4
    <3>3. QED BY <3>1, <3>2
  <2>2. QED BY <2>1 DEF Probe, WatchFacts
<1>6. QED BY <1>1, <1>2, <1>3, <1>4, <1>5 DEF Probe

\* What the poll finds dead.
Found == {p \in tick.live : st[p] # "alive"}

\* What a poll changes: what it finds gets a watch, or is known to be unread.
LEMMA PollStep ==
  ASSUME Kernel, Probe, Poll, UNCHANGED tree
  PROVE  /\ setup' = setup /\ st' = st /\ par' = par /\ used' = used /\ held' = held /\ under' = under /\ noted' = noted
         /\ \A p \in Procs : tracked'[p] = IF p \in Found THEN "ended" ELSE tracked[p]
         /\ \A x : Waited(x)' = Waited(x)
         /\ \A q, a : Rose(q, a)' = Rose(q, a)
         /\ tick.pc = "read" /\ tick.todo = {}
         /\ \A x \in Found : x \in tick.live /\ x \notin Watched
         /\ \A x : x \in Watched' <=> x \in Watched \/ (x \in Found /\ x \in Base)
         /\ \A k \in Watched : reapWatch'[k] = reapWatch[k]
         /\ \A k : k \in Found /\ k \in Base => reapWatch'[k] = [parent |-> under[k], last |-> prevPIDIO[k].s, reaped |-> FALSE,
                                                                 autoreaped |-> FALSE, root |-> prevPIDIO[k].root]
         /\ \A x : x \in DOMAIN unread' <=> x \in Found /\ x \notin Base
         /\ \A m : m \in Found /\ m \notin Base => unread'[m] = under[m]
         /\ \A x : x \in Base' <=> x \in Base /\ x \in tick.snap
         /\ \A x \in Base' : prevPIDIO'[x] = prevPIDIO[x]
         /\ \A x : x \in reapNoted' <=> x \in reapNoted \/ x \in Found
         /\ tick'.pc = "after" /\ tick'.snap = tick.snap /\ tick'.after = tick.after
         /\ \A x : x \in tick'.todo <=> x \in Watched' /\ ~(x \in Watched /\ reapWatch[x].reaped)
         /\ \A x : x \in tick'.live <=> x \in tick.live /\ x \notin Found
         /\ \A x : x \in Readings' <=> x \in Readings /\ x \notin Found
         /\ \A y \in Readings' : tick'.read[y] = tick.read[y]
         /\ tick' = [pc |-> tick'.pc, todo |-> tick'.todo, snap |-> tick'.snap, live |-> tick'.live, read |-> tick'.read, after |-> tick'.after]
         /\ reported' = reported /\ doubtful' = doubtful /\ negative' = negative
         /\ InTick /\ InTick'
<1> DEFINE out   == ((tick.snap \ tick.live) \cup Found) \ reapNoted
           lost  == (Base \ tick.snap) \ (reapNoted \cup out)
           left  == Watches(lost, [p \in Procs |-> Nobody])
           news  == Over(Watches(out, under), left)
<1>1. /\ tick.pc = "read" /\ tick.todo = {}
      /\ tracked' = Ended(Found)
      /\ reapNoted' = reapNoted \cup out \cup lost
      /\ reapWatch' = Over(news, reapWatch)
      /\ unread' = Over([p \in out \ Base |-> under[p]], unread)
      /\ prevPIDIO' = Kept(prevPIDIO, tick.snap)
      /\ tick' = [pc |-> "after", todo |-> (Watched \cup DOMAIN news) \ Reaped, snap |-> tick.snap, live |-> tick.live \ Found,
                  read |-> Kept(tick.read, tick.live \ Found), after |-> tick.after]
      /\ UNCHANGED <<under, noted, reported, doubtful, negative>>
  BY DEF Poll, Found, Probe, ProbeTypes, Base
<1>2. setup' = setup /\ st' = st /\ par' = par /\ used' = used /\ held' = held
  BY DEF tree
<1>3. Found \subseteq tick.live /\ tick.live \subseteq tick.snap /\ tick.snap \subseteq Procs /\ Base \subseteq Procs
      /\ Readings \subseteq tick.live /\ Watched \subseteq Procs
  BY DEF Found, Probe, ProbeTypes
<1>4. \A p \in Found : tracked[p] = "live" /\ p \notin reapNoted /\ p \notin Watched
  BY <1>3 DEF Probe, Snapshot, NotedOnce, Ends
<1>5. out = Found
  BY <1>3, <1>4 DEF Probe, Snapshot
<1>6. lost = {}
  <2> SUFFICES ASSUME NEW b \in Base, b \notin tick.snap, b \notin reapNoted PROVE FALSE
    OBVIOUS
  <2>1. InTick
    BY <1>1 DEF InTick
  <2>2. b \in Procs /\ tracked[b] = "live" /\ b \in Line(b)
    BY <1>3, LineIn DEF Probe, NotedOnce
  <2>3. QED BY <2>1, <2>2, <1>3 DEF Probe, Snapshot
<1>7. DOMAIN left = {}
  BY <1>6 DEF Watches, Base
<1> HIDE DEF left, lost
<1>8. DOMAIN news = Found \cap Base
      /\ \A k \in Found \cap Base : news[k] = [parent |-> under[k], last |-> prevPIDIO[k].s, reaped |-> FALSE,
                                             autoreaped |-> FALSE, root |-> prevPIDIO[k].root]
  BY <1>5, <1>7 DEF Over, Watches, Base
<1> HIDE DEF news, out
<1>9. /\ Watched' = Watched \cup (Found \cap Base)
      /\ \A k \in Watched : reapWatch'[k] = reapWatch[k]
      /\ \A k \in Found \cap Base : reapWatch'[k] = news[k]
  <2>1. reapWatch' = Over(news, reapWatch)
    BY <1>1
  <2>2. Watched' = Watched \cup (Found \cap Base)
    BY <2>1, <1>8 DEF Over, Watched
  <2>3. \A k \in Watched \cup (Found \cap Base) : reapWatch'[k] = IF k \in Found \cap Base THEN news[k] ELSE reapWatch[k]
    BY <2>1, <1>8 DEF Over, Watched
  <2>4. QED BY <2>2, <2>3, <1>4
<1>10. DOMAIN unread' = Found \ Base /\ \A m \in Found \ Base : unread'[m] = under[m]
  BY <1>1, <1>5 DEF Over, Probe, Phases
<1>11. Base' = Base \cap tick.snap /\ \A b \in Base' : prevPIDIO'[b] = prevPIDIO[b]
  BY <1>1 DEF Kept, Base
<1>12. \A p \in Procs : tracked'[p] = IF p \in Found THEN "ended" ELSE tracked[p]
  BY <1>1 DEF Ended
<1>13. \A x : Waited(x)' = Waited(x)
  BY <1>2 DEF Waited
<1>14. \A q, a : Rose(q, a)' = Rose(q, a)
  BY <1>2 DEF Rose, Waited
<1>15. /\ tick'.pc = "after" /\ tick'.todo = (Watched \cup (Found \cap Base)) \ Reaped
       /\ tick'.snap = tick.snap /\ tick'.live = tick.live \ Found /\ tick'.after = tick.after
       /\ tick'.read = Kept(tick.read, tick.live \ Found)
       /\ tick' = [pc |-> tick'.pc, todo |-> tick'.todo, snap |-> tick'.snap, live |-> tick'.live, read |-> tick'.read, after |-> tick'.after]
  BY <1>1, <1>8
<1>16. Readings' = Readings \ Found /\ \A y \in Readings' : tick'.read[y] = tick.read[y]
  BY <1>3, <1>15 DEF Kept, Readings
<1>17. reapNoted' = reapNoted \cup Found
  BY <1>1, <1>5, <1>6
<1>18. InTick /\ InTick'
  BY <1>1, <1>15 DEF InTick
<1>a. \A k : k \in Found /\ k \in Base => reapWatch'[k] = [parent |-> under[k], last |-> prevPIDIO[k].s, reaped |-> FALSE,
                                                         autoreaped |-> FALSE, root |-> prevPIDIO[k].root]
  BY <1>8, <1>9
<1>b. \A x \in Found : x \in tick.live /\ x \notin Watched
  BY <1>3, <1>4
<1>c. under' = under /\ noted' = noted /\ reported' = reported /\ doubtful' = doubtful /\ negative' = negative
  BY <1>1
<1>d. \A x : x \in Watched' <=> x \in Watched \/ (x \in Found /\ x \in Base)
  BY <1>9
<1>e. /\ \A x : x \in DOMAIN unread' <=> x \in Found /\ x \notin Base
      /\ \A m : m \in Found /\ m \notin Base => unread'[m] = under[m]
  BY <1>10
<1>f. /\ \A x : x \in Base' <=> x \in Base /\ x \in tick.snap
      /\ \A x \in Base' : prevPIDIO'[x] = prevPIDIO[x]
  BY <1>11
<1>g. \A x : x \in reapNoted' <=> x \in reapNoted \/ x \in Found
  BY <1>17
<1>h. \A x : x \in tick'.todo <=> x \in Watched' /\ ~(x \in Watched /\ reapWatch[x].reaped)
  <2>1. \A x : x \in tick'.todo <=> x \in (Watched \cup (Found \cap Base)) \ Reaped
    BY <1>15, Zenon
  <2>2. QED BY <2>1, <1>d DEF Reaped
<1>i. \A x : x \in tick'.live <=> x \in tick.live /\ x \notin Found
  <2>1. \A x : x \in tick'.live <=> x \in tick.live \ Found
    BY <1>15, Zenon
  <2>2. QED BY <2>1
<1>j. \A x : x \in Readings' <=> x \in Readings /\ x \notin Found
  <2>1. \A x : x \in Readings' <=> x \in Readings \ Found
    BY <1>16, Zenon
  <2>2. QED BY <2>1
<1>k. \A y \in Readings' : tick'.read[y] = tick.read[y]
  BY <1>16
<1>l. tick'.pc = "after" /\ tick'.snap = tick.snap /\ tick'.after = tick.after /\ tick.pc = "read" /\ tick.todo = {}
  BY <1>1, <1>15
<1>m. tick' = [pc |-> tick'.pc, todo |-> tick'.todo, snap |-> tick'.snap, live |-> tick'.live, read |-> tick'.read, after |-> tick'.after]
  BY <1>15
<1>n. \A k \in Watched : reapWatch'[k] = reapWatch[k]
  BY <1>9
<1> HIDE DEF Found
<1>19. QED BY <1>2, <1>a, <1>b, <1>c, <1>d, <1>e, <1>f, <1>g, <1>h, <1>i, <1>j, <1>k, <1>l, <1>m, <1>n, <1>12, <1>13, <1>14, <1>18

\* Poll keeps it.
LEMMA PollProbe ==
  ASSUME Kernel, Probe, Poll, UNCHANGED tree
  PROVE  Probe'
<1>a. /\ setup' = setup /\ st' = st /\ par' = par /\ under' = under /\ noted' = noted
      /\ \A p \in Procs : tracked'[p] = IF p \in Found THEN "ended" ELSE tracked[p]
      /\ \A x : Waited(x)' = Waited(x)
  BY PollStep
<1>b. /\ tick.pc = "read" /\ tick.todo = {} /\ InTick /\ InTick'
      /\ \A x \in Found : x \in tick.live /\ x \notin Watched
  BY PollStep
<1>w. /\ \A x : x \in Watched' <=> x \in Watched \/ (x \in Found /\ x \in Base)
      /\ \A k \in Watched : reapWatch'[k] = reapWatch[k]
      /\ \A k : k \in Found /\ k \in Base => reapWatch'[k] = [parent |-> under[k], last |-> prevPIDIO[k].s, reaped |-> FALSE,
                                                                 autoreaped |-> FALSE, root |-> prevPIDIO[k].root]
  BY PollStep
<1>n. /\ \A x : x \in DOMAIN unread' <=> x \in Found /\ x \notin Base
      /\ \A m : m \in Found /\ m \notin Base => unread'[m] = under[m]
      /\ \A x : x \in reapNoted' <=> x \in reapNoted \/ x \in Found
  BY PollStep
<1>c. /\ \A x : x \in Base' <=> x \in Base /\ x \in tick.snap
      /\ \A x \in Base' : prevPIDIO'[x] = prevPIDIO[x]
      /\ tick'.pc = "after" /\ tick'.snap = tick.snap /\ tick'.after = tick.after
      /\ \A x : x \in tick'.todo <=> x \in Watched' /\ ~(x \in Watched /\ reapWatch[x].reaped)
      /\ \A x : x \in tick'.live <=> x \in tick.live /\ x \notin Found
  BY PollStep
<1>d. /\ \A x : x \in Readings' <=> x \in Readings /\ x \notin Found
      /\ \A y \in Readings' : tick'.read[y] = tick.read[y]
  BY PollStep
<1>e. /\ tick' = [pc |-> tick'.pc, todo |-> tick'.todo, snap |-> tick'.snap, live |-> tick'.live, read |-> tick'.read, after |-> tick'.after]
      /\ reported' = reported /\ doubtful' = doubtful /\ negative' = negative
  BY PollStep
<1>t. /\ Watched \subseteq Procs /\ Base \subseteq Procs /\ Readings \subseteq tick.live /\ tick.live \subseteq tick.snap
      /\ tick.snap \subseteq Procs /\ reapNoted \subseteq Procs /\ tick.after \subseteq Procs
  BY DEF Probe, ProbeTypes
<1>u. \A k \in Found : /\ under[k] = (IF k = Root THEN Host ELSE BornTo[k]) /\ st[k] # "alive" /\ tracked[k] = "live"
                       /\ k \in Procs /\ k \in tick.snap
  BY <1>t DEF Found, Kernel, Entered, Probe, Snapshot
<1>1. ProbeTypes'
  <2>1. \A k \in Watched' : LET w == reapWatch'[k] IN
       /\ w = [parent |-> w.parent, last |-> w.last, reaped |-> w.reaped, autoreaped |-> w.autoreaped, root |-> w.root]
       /\ w.last \in [Procs -> Nat] /\ w.reaped \in BOOLEAN /\ w.autoreaped \in BOOLEAN
       /\ w.parent \in Procs \cup {Host, Outside, Nobody}
    <3> SUFFICES ASSUME NEW k \in Watched'
                 PROVE  LET w == reapWatch'[k] IN
       /\ w = [parent |-> w.parent, last |-> w.last, reaped |-> w.reaped, autoreaped |-> w.autoreaped, root |-> w.root]
       /\ w.last \in [Procs -> Nat] /\ w.reaped \in BOOLEAN /\ w.autoreaped \in BOOLEAN
       /\ w.parent \in Procs \cup {Host, Outside, Nobody}
      OBVIOUS
    <3>1. CASE k \in Watched
      BY <3>1, <1>w DEF Probe, ProbeTypes
    <3>2. CASE k \in Found /\ k \in Base
      <4>1. prevPIDIO[k].s \in [Procs -> Nat] /\ under[k] \in Procs \cup {Host, Outside, Nobody}
        BY <3>2, <1>t DEF Probe, ProbeTypes, Kernel, TreeTypes
      <4> DEFINE w == reapWatch'[k]
      <4>2. w = [parent |-> under[k], last |-> prevPIDIO[k].s, reaped |-> FALSE, autoreaped |-> FALSE, root |-> prevPIDIO[k].root]
        BY <3>2, <1>w
      <4> HIDE DEF w
      <4>3. /\ w = [parent |-> w.parent, last |-> w.last, reaped |-> w.reaped, autoreaped |-> w.autoreaped, root |-> w.root]
            /\ w.last \in [Procs -> Nat] /\ w.reaped \in BOOLEAN /\ w.autoreaped \in BOOLEAN
            /\ w.parent \in Procs \cup {Host, Outside, Nobody}
        BY <4>1, <4>2
      <4>4. QED BY <4>3 DEF w
    <3>3. QED BY <3>1, <3>2, <1>w
  <2>2. \A p \in Readings' : tick'.read[p] \in [Procs -> Nat]
    BY <1>d DEF Probe, ProbeTypes
  <2>3. \A p \in Base' : prevPIDIO'[p].s \in [Procs -> Nat]
    BY <1>c DEF Probe, ProbeTypes
  <2>4. reported \in [Procs -> Int] /\ doubtful \subseteq Procs /\ negative \in BOOLEAN
    BY DEF Probe, ProbeTypes
  <2>5. tick'.pc \in {"between", "before", "read", "after", "stopped"}
      /\ tick'.todo \subseteq Procs /\ tick'.snap \subseteq Procs /\ tick'.live \subseteq tick'.snap /\ tick'.after \subseteq Procs
    BY <1>c, <1>t, <1>w, <1>u
  <2>6. Readings' \subseteq tick'.live /\ Base' \subseteq Procs /\ Watched' \subseteq Procs /\ reapNoted' \subseteq Procs /\ DOMAIN unread' \subseteq Procs
    BY <1>b, <1>c, <1>d, <1>t, <1>w, <1>n, <1>u
  <2>7. tick' = [pc |-> tick'.pc, todo |-> tick'.todo, snap |-> tick'.snap, live |-> tick'.live, read |-> tick'.read, after |-> tick'.after]
    BY <1>e
  <2>8. reported' \in [Procs -> Int] /\ doubtful' \subseteq Procs /\ negative' \in BOOLEAN
    BY <1>e, <2>4
  <2>9. QED BY <2>1, <2>2, <2>3, <2>5, <2>6, <2>7, <2>8 DEF ProbeTypes
<1>2. Phases'
  <2>1. tick'.pc = "after" /\ Base' \subseteq tick'.snap /\ tick'.todo \subseteq Watched' /\ InTick'
    BY <1>b, <1>c
  <2>2. QED BY <2>1 DEF Phases
<1>3. Snapshot'
  <2>1. ASSUME NEW x \in Procs, tracked'[x] = "live", x \notin tick'.live, NEW a \in Procs, x \in Line(a)
        PROVE  a \notin Base' \cup Watched' \cup tick'.snap
    <3>1. tracked[x] = "live" /\ x \notin tick.live
      BY <2>1, <1>a, <1>c
    <3>2. a \notin Base \cup Watched \cup tick.snap
      BY <3>1, <2>1, <1>b DEF Probe, Snapshot
    <3>3. QED BY <3>2, <1>c, <1>w
  <2>2. \A p \in tick'.snap : p \in tick'.live \/ (tracked'[p] \in {"ended", "announced", "dropped"} /\ p \in reapNoted')
    BY <1>a, <1>c, <1>n, <1>t DEF Probe, Snapshot
  <2>3. \A p \in Procs \ tick'.snap : tracked'[p] \in {"never", "live", "dropped"}
    BY <1>a, <1>b, <1>c, <1>u DEF Probe, Snapshot
  <2>4. \A p \in tick'.live : tracked'[p] = "live"
    BY <1>a, <1>c, <1>t DEF Probe, Snapshot
  <2>5. QED BY <2>1, <2>2, <2>3, <2>4 DEF Snapshot
<1>4. NotedOnce'
  <2>1. \A x \in Procs : x \in Ends' <=> x \in Ends \/ x \in Found
    BY <1>a, <1>u DEF Ends
  <2>2. Watched' \cup reapNoted' \cup DOMAIN unread' \subseteq Ends'
    BY <2>1, <1>w, <1>n, <1>u, <1>t DEF Probe, NotedOnce
  <2>3. \A p \in Procs : tracked'[p] \in {"ended", "announced"} => p \in reapNoted'
    BY <1>a, <1>n DEF Probe, NotedOnce
  <2>4. \A p \in Base' : tracked'[p] # "never" /\ (tracked'[p] # "live" => p \in reapNoted')
    BY <1>a, <1>c, <1>n, <1>t DEF Probe, NotedOnce
  <2>5. \A m \in DOMAIN unread' : m \notin Watched' /\ m \in tick'.snap \ tick'.live /\ unread'[m] = under'[m]
    BY <1>a, <1>b, <1>c, <1>n, <1>w, <1>u
  <2>6. QED BY <2>2, <2>3, <2>4, <2>5 DEF NotedOnce
<1>5. WatchFacts'
  <2>1. ASSUME NEW k \in Watched'
        PROVE LET w == reapWatch'[k] IN
       /\ w.reaped => st[k] = "gone"
       /\ w.autoreaped => w.reaped /\ k # Root /\ BornTo[k] \in setup.ignores
       /\ w.parent \in Procs => k # Root /\ w.parent = BornTo[k]
       /\ w.parent \notin Procs => par[k] \notin Procs
       /\ k \notin tick'.todo /\ ~w.reaped /\ w.parent \in Procs => w.parent \in tick'.live
       /\ w.reaped /\ k \notin tick.after /\ k # Root /\ BornTo[k] \in tick'.live /\ setup.ignores = {} => Waited(k)
    <3>1. CASE k \in Watched
      <4>1. ~reapWatch[k].reaped => k \in tick'.todo
        BY <3>1, <1>c, <1>w
      <4>2. BornTo[k] \in tick'.live => st[BornTo[k]] = "alive" /\ BornTo[k] \in tick.live
        BY <1>c DEF Found
      <4>3. reapWatch'[k] = reapWatch[k]
        BY <3>1, <1>w
      <4>4. QED BY <3>1, <4>1, <4>2, <4>3, <1>b DEF Probe, WatchFacts
    <3>2. CASE k \in Found /\ k \in Base
      <4>1. k \in tick'.todo
        BY <3>2, <1>b, <1>c, <1>w
      <4>2. reapWatch'[k].parent = under[k] /\ reapWatch'[k].reaped = FALSE /\ reapWatch'[k].autoreaped = FALSE
        <5> DEFINE w == reapWatch'[k]
        <5>1. w = [parent |-> under[k], last |-> prevPIDIO[k].s, reaped |-> FALSE, autoreaped |-> FALSE, root |-> prevPIDIO[k].root]
          BY <3>2, <1>w
        <5> HIDE DEF w
        <5>2. w.parent = under[k] /\ w.reaped = FALSE /\ w.autoreaped = FALSE
          BY <5>1
        <5>3. QED BY <5>2 DEF w
      <4>3. par[Root] \notin Procs
        BY Bearing DEF Kernel, Parents
      <4>4. QED BY <3>2, <4>1, <4>2, <4>3, <1>u, Bearing, Nowhere
    <3>3. QED BY <3>1, <3>2, <1>w
  <2>2. \A k \in Base' \cup Watched' \cup Readings' : st[k] = "gone" /\ par[k] = Host /\ k # Root => k \in noted
    BY <1>w, <1>c, <1>d DEF Probe, WatchFacts
  <2>3. QED BY <2>1, <2>2, <1>a, <1>c DEF WatchFacts
<1>6. QED BY <1>1, <1>2, <1>3, <1>4, <1>5 DEF Probe

\* What Stop changes: the table, and the tick.
LEMMA StopStep ==
  ASSUME Kernel, Probe, Stop, UNCHANGED tree
  PROVE  /\ setup' = setup /\ st' = st /\ par' = par /\ used' = used /\ held' = held /\ under' = under /\ noted' = noted
         /\ \A p \in Procs : tracked'[p] = IF tracked[p] \in {"ended", "announced"} THEN "dropped" ELSE tracked[p]
         /\ \A x : Waited(x)' = Waited(x)
         /\ \A q, a : Rose(q, a)' = Rose(q, a)
         /\ Watched' = Watched /\ reapWatch' = reapWatch /\ Base' = Base /\ prevPIDIO' = prevPIDIO /\ reapNoted' = reapNoted
         /\ unread' = unread /\ DOMAIN unread = {} /\ Readings' = {} /\ Readings = {} /\ ~InTick /\ ~InTick'
         /\ tick' = [pc |-> "stopped", todo |-> {}, snap |-> {}, live |-> {}, read |-> <<>>, after |-> {}]
         /\ reported' = reported /\ doubtful' = doubtful /\ negative' = negative
<1>1. /\ tick.pc = "between"
      /\ \A p \in Procs : tracked'[p] = IF tracked[p] \in {"ended", "announced"} THEN "dropped" ELSE tracked[p]
      /\ tick' = [pc |-> "stopped", todo |-> {}, snap |-> {}, live |-> {}, read |-> <<>>, after |-> {}]
      /\ UNCHANGED <<under, noted, prevPIDIO, reapWatch, reapNoted, unread, reported, doubtful, negative>>
  BY DEF Stop, Between
<1>2. setup' = setup /\ st' = st /\ par' = par /\ used' = used /\ held' = held
  BY DEF tree
<1>3. Readings = {} /\ Readings' = {} /\ DOMAIN unread = {} /\ ~InTick /\ ~InTick'
  <2>1. ~InTick /\ ~InTick' /\ tick'.read = <<>>
    BY <1>1 DEF InTick
  <2>2. Readings' = {}
    BY <2>1 DEF Readings
  <2>3. QED BY <1>1, <2>1, <2>2 DEF Probe, ProbeTypes, Phases
<1>4. \A x : Waited(x)' = Waited(x)
  BY <1>2 DEF Waited
<1>5. \A q, a : Rose(q, a)' = Rose(q, a)
  BY <1>2 DEF Rose, Waited
<1>6. QED BY <1>1, <1>2, <1>3, <1>4, <1>5 DEF Watched, Base

\* Stop keeps it.
LEMMA StopProbe ==
  ASSUME Kernel, Probe, Stop, UNCHANGED tree
  PROVE  Probe'
<1>1. /\ setup' = setup /\ st' = st /\ par' = par /\ under' = under /\ noted' = noted
      /\ \A p \in Procs : tracked'[p] = IF tracked[p] \in {"ended", "announced"} THEN "dropped" ELSE tracked[p]
      /\ \A x : Waited(x)' = Waited(x)
  BY StopStep
<1>2. /\ Watched' = Watched /\ reapWatch' = reapWatch /\ Base' = Base /\ prevPIDIO' = prevPIDIO /\ reapNoted' = reapNoted
      /\ unread' = unread /\ DOMAIN unread = {} /\ Readings' = {} /\ Readings = {} /\ ~InTick /\ ~InTick'
      /\ tick' = [pc |-> "stopped", todo |-> {}, snap |-> {}, live |-> {}, read |-> <<>>, after |-> {}]
      /\ reported' = reported /\ doubtful' = doubtful /\ negative' = negative
  BY StopStep
<1>3. tick'.pc = "stopped" /\ tick'.todo = {} /\ tick'.snap = {} /\ tick'.live = {} /\ tick'.read = <<>> /\ tick'.after = {}
  BY <1>2
<1> USE <1>1, <1>2, <1>3
<1>4. ProbeTypes'
  BY DEF Probe, ProbeTypes
<1>5. Phases'
  BY DEF Phases
<1>6. Snapshot'
  BY DEF Snapshot
<1>7. Ends' = Ends
  BY DEF Ends
<1>8. NotedOnce'
  <2>1. Base \subseteq Procs
    BY DEF Probe, ProbeTypes
  <2>2. QED BY <1>7, <2>1 DEF Probe, NotedOnce
<1>9. WatchFacts'
  BY DEF Probe, WatchFacts
<1>10. QED BY <1>4, <1>5, <1>6, <1>8, <1>9 DEF Probe

---------------------------------------------------------------------------
(* What resolution comes to.                                              *)

\* What Resolution gives.
Results == [kind : {"Wait", "Drop", "At"}, anchor : Procs \cup {Nobody}, unsure : BOOLEAN, ambiguous : BOOLEAN,
            autoreaped : BOOLEAN, missing : Procs \cup {Nobody}]

\* WhoReaped of a watch.
Reaper(k) == WhoReaped(k, reapWatch[k].root, noted)

\* What a watch comes to, by where its parent is.
Outcome(k) ==
  LET r == Resolution[k]
      w == reapWatch[k]
  IN /\ ~w.reaped => r.kind = (IF Reaches[k] THEN "Wait" ELSE "Drop") /\ r.missing = Nobody
     /\ w.reaped /\ w.parent \in tick.live =>
          /\ r.kind = "At" /\ r.anchor = w.parent /\ r.missing = Nobody /\ r.ambiguous = FALSE
          /\ r.unsure <=> k \in tick.after
          /\ r.autoreaped <=> w.autoreaped
     /\ w.reaped /\ w.parent \notin tick.live /\ w.parent \notin Watched =>
          r.kind = "Drop" /\ r.missing = (IF w.parent \in DOMAIN unread THEN w.parent ELSE Nobody)
     /\ w.reaped /\ w.parent \notin tick.live /\ w.parent \in Watched =>
          IF Reaper(k) = "Host" THEN r.kind = "Drop" /\ r.missing = Nobody
          ELSE LET a == Resolution[w.parent] IN
               /\ r.kind = a.kind /\ r.anchor = a.anchor /\ r.missing = a.missing
               /\ r.ambiguous <=> a.ambiguous \/ Reaper(k) = "Unknown"
               /\ r.unsure <=> a.unsure \/ k \in tick.after
               /\ r.autoreaped <=> a.autoreaped \/ w.autoreaped

\* The recursions go up the line.
LEMMA Uplinks ==
  ASSUME Probe
  PROVE  /\ Watched \subseteq Procs /\ ParentsUp
         /\ \A k \in Watched : Reaches[k] = ReachStep(k, Reaches)
         /\ \A k \in Watched : Resolution[k] = ResStep(k, Resolution)
<1>1. Watched \subseteq Procs /\ ParentsUp
  BY DEF Probe, ProbeTypes, WatchFacts, ParentsUp
<1>2. Reaches = [p \in Watched |-> ReachStep(p, Reaches)]
  BY <1>1, ReachesIs
<1>3. Resolution = [p \in Watched |-> ResStep(p, Resolution)]
  BY <1>1, ResolutionIs
<1>4. \A k \in Watched : Reaches[k] = ReachStep(k, Reaches)
  BY <1>2, Zenon
<1>5. \A k \in Watched : Resolution[k] = ResStep(k, Resolution)
  BY <1>3, Zenon
<1>6. QED BY <1>1, <1>4, <1>5

\* A watch's result, from that of its parent.
LEMMA OutcomeOf ==
  ASSUME Probe, NEW k \in Watched, reapWatch[k].parent \in Watched => Resolution[reapWatch[k].parent] \in Results
  PROVE  Resolution[k] \in Results /\ Outcome(k)
<1> DEFINE w == reapWatch[k]
           r == Resolution[k]
           a == Resolution[w.parent]
           end(to) == [to EXCEPT !.unsure = @ \/ k \in tick.after, !.autoreaped = @ \/ (w.reaped /\ w.autoreaped)]
<1>1. w.reaped \in BOOLEAN /\ w.autoreaped \in BOOLEAN /\ tick.live \subseteq Procs /\ DOMAIN unread \subseteq Procs
  BY DEF Probe, ProbeTypes
<1>2. r = ResStep(k, Resolution)
  BY Uplinks
<1>3. ~w.reaped => r = end(IF Reaches[k] THEN Waiting ELSE Drop(Nobody))
  BY <1>2 DEF ResStep
<1>4. w.reaped /\ w.parent \in tick.live => r = end(At(w.parent))
  BY <1>2 DEF ResStep
<1>5. w.reaped /\ w.parent \notin tick.live /\ w.parent \notin Watched =>
        r = end(Drop(IF w.parent \in DOMAIN unread THEN w.parent ELSE Nobody))
  BY <1>2 DEF ResStep
<1>6. w.reaped /\ w.parent \notin tick.live /\ w.parent \in Watched /\ Reaper(k) = "Host" => r = end(Drop(Nobody))
  BY <1>2 DEF ResStep, Reaper
<1>7. w.reaped /\ w.parent \notin tick.live /\ w.parent \in Watched /\ Reaper(k) # "Host" =>
        r = end([a EXCEPT !.ambiguous = @ \/ Reaper(k) = "Unknown"])
  BY <1>2 DEF ResStep, Reaper
<1>8. /\ \A m : Drop(m) = [kind |-> "Drop", anchor |-> Nobody, unsure |-> FALSE, ambiguous |-> FALSE, autoreaped |-> FALSE, missing |-> m]
      /\ Waiting = [kind |-> "Wait", anchor |-> Nobody, unsure |-> FALSE, ambiguous |-> FALSE, autoreaped |-> FALSE, missing |-> Nobody]
      /\ \A p : At(p) = [kind |-> "At", anchor |-> p, unsure |-> FALSE, ambiguous |-> FALSE, autoreaped |-> FALSE, missing |-> Nobody]
  <2>1. \A m : Drop(m) = [kind |-> "Drop", anchor |-> Nobody, unsure |-> FALSE, ambiguous |-> FALSE, autoreaped |-> FALSE, missing |-> m]
    BY DEF Drop
  <2>2. Waiting = [[kind |-> "Drop", anchor |-> Nobody, unsure |-> FALSE, ambiguous |-> FALSE, autoreaped |-> FALSE, missing |-> Nobody]
                     EXCEPT !.kind = "Wait"]
    BY DEF Drop, Waiting
  <2>3. \A p : At(p) = [[kind |-> "Drop", anchor |-> Nobody, unsure |-> FALSE, ambiguous |-> FALSE, autoreaped |-> FALSE, missing |-> Nobody]
                           EXCEPT !.kind = "At", !.anchor = p]
    BY DEF Drop, At
  <2>4. QED BY <2>1, <2>2, <2>3
<1>e. ASSUME NEW u \in Results
      PROVE  /\ end(u) \in Results /\ end(u).kind = u.kind /\ end(u).anchor = u.anchor /\ end(u).missing = u.missing
             /\ end(u).ambiguous = u.ambiguous
             /\ (end(u).unsure <=> u.unsure \/ k \in tick.after)
             /\ (end(u).autoreaped <=> u.autoreaped \/ (w.reaped /\ w.autoreaped))
  <2> DEFINE b == u.unsure \/ k \in tick.after
             c == u.autoreaped \/ (w.reaped /\ w.autoreaped)
  <2>1. b \in BOOLEAN /\ c \in BOOLEAN
    BY <1>1 DEF Results
  <2>2. end(u) = [u EXCEPT !.unsure = b, !.autoreaped = c]
    BY DEF Results
  <2> HIDE DEF b, c, end
  <2>3. /\ end(u) \in Results /\ end(u).kind = u.kind /\ end(u).anchor = u.anchor /\ end(u).missing = u.missing
        /\ end(u).ambiguous = u.ambiguous /\ end(u).unsure = b /\ end(u).autoreaped = c
    BY <2>1, <2>2 DEF Results
  <2>4. QED BY <2>3 DEF b, c
<1> HIDE DEF end
<1>9. CASE ~w.reaped
  <2> DEFINE u == IF Reaches[k] THEN Waiting ELSE Drop(Nobody)
  <2>1. u \in Results /\ u.kind = (IF Reaches[k] THEN "Wait" ELSE "Drop") /\ u.missing = Nobody
    BY <1>8 DEF Results
  <2>2. r = end(u)
    BY <1>3, <1>9
  <2> HIDE DEF u
  <2>3. r \in Results /\ r.kind = u.kind /\ r.missing = u.missing
    BY <1>e, <2>1, <2>2
  <2>4. QED BY <2>1, <2>3, <1>9 DEF Outcome
<1>10. CASE w.reaped /\ w.parent \in tick.live
  <2> DEFINE u == At(w.parent)
  <2>1. u \in Results /\ u.kind = "At" /\ u.anchor = w.parent /\ u.missing = Nobody /\ u.ambiguous = FALSE /\ u.unsure = FALSE /\ u.autoreaped = FALSE
    BY <1>1, <1>8, <1>10 DEF Results
  <2>2. r = end(u)
    BY <1>4, <1>10
  <2> HIDE DEF u
  <2>3. /\ r \in Results /\ r.kind = u.kind /\ r.anchor = u.anchor /\ r.missing = u.missing
        /\ r.ambiguous = u.ambiguous
        /\ (r.unsure <=> u.unsure \/ k \in tick.after)
        /\ (r.autoreaped <=> u.autoreaped \/ (w.reaped /\ w.autoreaped))
    BY <1>e, <2>1, <2>2
  <2>4. QED BY <2>1, <2>3, <1>10 DEF Outcome
<1>11. CASE w.reaped /\ w.parent \notin tick.live /\ w.parent \notin Watched
  <2> DEFINE m == IF w.parent \in DOMAIN unread THEN w.parent ELSE Nobody
             u == Drop(m)
  <2>1. u \in Results /\ u.kind = "Drop" /\ u.missing = m
    BY <1>1, <1>8 DEF Results
  <2>2. r = end(u)
    BY <1>5, <1>11
  <2> HIDE DEF u
  <2>3. r \in Results /\ r.kind = u.kind /\ r.missing = u.missing
    BY <1>e, <2>1, <2>2
  <2>4. QED BY <2>1, <2>3, <1>11 DEF Outcome
<1>12. CASE w.reaped /\ w.parent \notin tick.live /\ w.parent \in Watched /\ Reaper(k) = "Host"
  <2> DEFINE u == Drop(Nobody)
  <2>1. u \in Results /\ u.kind = "Drop" /\ u.missing = Nobody
    BY <1>8 DEF Results
  <2>2. r = end(u)
    BY <1>6, <1>12
  <2> HIDE DEF u
  <2>3. r \in Results /\ r.kind = u.kind /\ r.missing = u.missing
    BY <1>e, <2>1, <2>2
  <2>4. QED BY <2>1, <2>3, <1>12 DEF Outcome
<1>13. CASE w.reaped /\ w.parent \notin tick.live /\ w.parent \in Watched /\ Reaper(k) # "Host"
  <2> DEFINE c == a.ambiguous \/ Reaper(k) = "Unknown"
             u == [a EXCEPT !.ambiguous = c]
  <2>1. a \in Results
    BY <1>13
  <2>2. r = end(u)
    BY <1>7, <1>13, <2>1 DEF Results
  <2>3. c \in BOOLEAN
    BY <2>1 DEF Results
  <2> HIDE DEF c, a
  <2>4. /\ u \in Results /\ u.kind = a.kind /\ u.anchor = a.anchor /\ u.missing = a.missing /\ u.ambiguous = c
        /\ u.unsure = a.unsure /\ u.autoreaped = a.autoreaped
    BY <2>1, <2>3 DEF Results
  <2> HIDE DEF u
  <2>5. /\ r \in Results /\ r.kind = u.kind /\ r.anchor = u.anchor /\ r.missing = u.missing
        /\ r.ambiguous = u.ambiguous
        /\ (r.unsure <=> u.unsure \/ k \in tick.after)
        /\ (r.autoreaped <=> u.autoreaped \/ (w.reaped /\ w.autoreaped))
    BY <1>e, <2>2, <2>4
  <2>6. QED BY <2>4, <2>5, <1>13 DEF Outcome, c, a
<1>14. QED BY <1>9, <1>10, <1>11, <1>12, <1>13

\* Every watch's result.
LEMMA Outcomes ==
  ASSUME Probe
  PROVE  \A k \in Watched : Resolution[k] \in Results /\ Outcome(k)
<1> DEFINE D == {k \in Watched : Resolution[k] \in Results}
<1>1. D = Watched
  <2> SUFFICES ASSUME D # Watched PROVE FALSE
    OBVIOUS
  <2>1. PICK k \in Watched \ D : reapWatch[k].parent \in Watched => reapWatch[k].parent \in D
    BY Uplinks, Topmost
  <2>2. Resolution[k] \in Results
    BY <2>1, OutcomeOf
  <2>3. QED BY <2>1, <2>2
<1>2. QED BY <1>1, OutcomeOf, Uplinks DEF ParentsUp

---------------------------------------------------------------------------
(* What the end of a tick does.                                           *)

\* The sets and functions of EndTick.
IsAt(k, p) == Resolution[k].kind = "At" /\ Resolution[k].anchor = p
Taken      == {y \in Readings : \A k \in Watched : ~(IsAt(k, y) /\ Resolution[k].unsure)}
Sampled    == Taken \cap Base
Takings(p) == {k \in Watched : IsAt(k, p) /\ ~Resolution[k].ambiguous /\ ~Resolution[k].autoreaped}
Sample(p)  == Remainder(p, Takings(p))
Stays(k)   == Resolution[k].kind # "Drop" /\ ~(Resolution[k].kind = "At" /\ Resolution[k].anchor \in Taken)
Broken(k)  == Resolution[k].missing # Nobody /\ unread[Resolution[k].missing] \in tick.snap
Doubted(k) == Broken(k) \/ (Resolution[k].kind = "At" /\ Resolution[k].ambiguous /\ Resolution[k].anchor \in Sampled)

\* The amounts are natural numbers.
LEMMA Lasts ==
  ASSUME Probe
  PROVE  /\ \A k \in Watched : reapWatch[k].last \in [Procs -> Nat]
         /\ \A p \in Readings : tick.read[p] \in [Procs -> Nat]
         /\ \A p \in Base : prevPIDIO[p].s \in [Procs -> Nat]
BY DEF Probe, ProbeTypes

\* A sample, when one watch at most has q.
LEMMA SampleIs ==
  ASSUME Probe, NEW p \in Sampled
  PROVE  /\ Sample(p) \in [Procs -> Int]
         /\ \A q \in Procs : \A z : (\A k \in Watched \ {z} : reapWatch[k].last[q] = 0) =>
              Sample(p)[q] = tick.read[p][q] - prevPIDIO[p].s[q] - (IF z \in Takings(p) THEN reapWatch[z].last[q] ELSE 0)
<1> DEFINE T == Takings(p)
           f == [k \in T |-> reapWatch[k].last]
           u == Sum(f, T)
<1>1. T \subseteq Procs /\ T \subseteq Watched /\ p \in Readings /\ p \in Base
  BY DEF Takings, Sampled, Taken, Probe, ProbeTypes
<1> HIDE DEF T
<1>2. \A k \in T : f[k] = reapWatch[k].last /\ f[k] \in [Procs -> Int]
  BY <1>1, Lasts
<1> HIDE DEF f
<1>3. /\ u \in [Procs -> Int]
      /\ \A q \in Procs : \A z : (\A k \in T \ {z} : f[k][q] = 0) => u[q] = IF z \in T THEN f[z][q] ELSE 0
  BY <1>1, <1>2, SumIs
<1>4. Sample(p) = Minus(Minus(tick.read[p], prevPIDIO[p].s), u)
  BY DEF Sample, Remainder, u, f, T
<1> HIDE DEF u
<1>5. tick.read[p] \in [Procs -> Nat] /\ prevPIDIO[p].s \in [Procs -> Nat]
  BY <1>1, Lasts
<1>6. Sample(p) \in [Procs -> Int] /\ \A q \in Procs : Sample(p)[q] = tick.read[p][q] - prevPIDIO[p].s[q] - u[q]
  BY <1>3, <1>4, <1>5 DEF Minus
<1>7. ASSUME NEW q \in Procs, NEW z, \A k \in Watched \ {z} : reapWatch[k].last[q] = 0
      PROVE  u[q] = IF z \in T THEN reapWatch[z].last[q] ELSE 0
  <2>1. \A k \in T \ {z} : f[k][q] = 0
    BY <1>1, <1>2, <1>7
  <2>2. u[q] = IF z \in T THEN f[z][q] ELSE 0
    BY <1>3, <2>1
  <2>3. QED BY <2>2, <1>2
<1>8. QED BY <1>6, <1>7 DEF T

\* What the end of a tick changes.
LEMMA EndTickStep ==
  ASSUME Kernel, Probe, EndTick, UNCHANGED <<tree, tracked, under>>
  PROVE  /\ setup' = setup /\ st' = st /\ par' = par /\ used' = used /\ held' = held /\ tracked' = tracked /\ under' = under
         /\ \A x : Waited(x)' = Waited(x)
         /\ \A q, a : Rose(q, a)' = Rose(q, a)
         /\ tick.pc = "after" /\ tick.todo = {}
         /\ \A x : x \in Watched' <=> x \in Watched /\ Stays(x)
         /\ \A x \in Watched' : reapWatch'[x] = reapWatch[x]
         /\ \A x : x \in Base' <=> x \in Base \/ x \in Taken
         /\ \A x \in Base' : prevPIDIO'[x].s = IF x \in Taken THEN tick.read[x] ELSE prevPIDIO[x].s
         /\ DOMAIN unread' = {} /\ Readings' = {} /\ InTick /\ ~InTick'
         /\ \A x : x \in reapNoted' <=> x \in reapNoted /\ x \in tick.snap
         /\ \A x : x \in noted' <=> x \in noted /\ (x \in tick.snap \/ x \in Watched')
         /\ tick' = [pc |-> "between", todo |-> {}, snap |-> {}, live |-> {}, read |-> <<>>, after |-> {}]
         /\ \A q \in Procs : q \in doubtful' <=> q \in doubtful \/ \E k \in Watched : Doubted(k) /\ reapWatch[k].last[q] > 0
         /\ doubtful' \subseteq Procs
         /\ negative' = (negative \/ \E p \in Sampled, q \in Procs : Sample(p)[q] < 0)
         /\ reported' \in [Procs -> Int]
         /\ \A q \in Procs : \A z : (\A p \in Sampled \ {z} : Sample(p)[q] = 0) =>
              reported'[q] = reported[q] + IF z \in Sampled THEN Sample(z)[q] ELSE 0
<1> DEFINE res      == Resolution
           dropped  == {p \in Watched : res[p].kind = "Drop"}
           at       == {p \in Watched : res[p].kind = "At"}
           taken    == DOMAIN tick.read \ Unsure(res, at)
           sampled  == taken \cap DOMAIN prevPIDIO
           Kids(p)  == {k \in at : res[k].anchor = p}
           Takes(p) == {k \in Kids(p) : ~res[k].ambiguous /\ ~res[k].autoreaped}
           samples  == [p \in sampled |-> Remainder(p, Takes(p))]
           doubts   == Breaks(res) \cup {k \in at : res[k].ambiguous /\ res[k].anchor \in sampled}
           away     == UNION {Kids(p) : p \in taken}
           watches  == Kept(reapWatch, Watched \ (dropped \cup away))
           Root0(p) == IF p \in sampled THEN prevPIDIO[p].root ELSE RootParentOf(p, tick.snap)
           fresh    == [p \in taken |-> [s |-> tick.read[p], root |-> Root0(p)]]
           parents  == {reapWatch[p].parent : p \in Watched \ dropped}
<1>1. /\ tick.pc = "after" /\ tick.todo = {}
      /\ reapWatch' = watches
      /\ noted' = noted \cap (tick.snap \cup DOMAIN watches)
      /\ unread' = Kept(unread, parents)
      /\ prevPIDIO' = Over(fresh, prevPIDIO)
      /\ reapNoted' = reapNoted \cap tick.snap
      /\ tick' = Between
      /\ reported' = Plus(reported, Sum(samples, sampled))
      /\ doubtful' = doubtful \cup UNION {Carries(reapWatch[k].last) : k \in doubts}
      /\ negative' = (negative \/ \E p \in sampled, q \in Procs : samples[p][q] < 0)
  BY DEF EndTick
<1>2. taken = Taken
  BY DEF Unsure, Taken, IsAt, Readings
<1>3. sampled = Sampled
  BY <1>2 DEF Sampled, Base
<1>4. \A p : Takes(p) = Takings(p)
  BY DEF Takings, IsAt
<1>5. samples = [p \in Sampled |-> Sample(p)]
  BY <1>3, <1>4 DEF Sample
<1>6. \A x : x \in Watched \ (dropped \cup away) <=> x \in Watched /\ Stays(x)
  <2>1. \A x : x \in away <=> x \in Watched /\ Resolution[x].kind = "At" /\ Resolution[x].anchor \in taken
    <3> HIDE DEF taken, res
    <3>1. \A x : x \in away <=> \E p \in taken : x \in at /\ res[x].anchor = p
      <4>1. \A x : x \in away <=> \E p \in taken : x \in Kids(p)
        <5> HIDE DEF Kids
        <5>1. QED OBVIOUS
      <4>2. \A x, p : x \in Kids(p) <=> x \in at /\ res[x].anchor = p
        <5> HIDE DEF at
        <5>1. QED OBVIOUS
      <4>3. QED BY <4>1, <4>2
    <3>2. \A x : x \in at <=> x \in Watched /\ res[x].kind = "At"
      OBVIOUS
    <3>3. \A x : x \in away <=> x \in Watched /\ res[x].kind = "At" /\ res[x].anchor \in taken
      <4> HIDE DEF away, at
      <4>1. QED BY <3>1, <3>2
    <3>4. QED BY <3>3 DEF res
  <2>2. \A x : x \in dropped <=> x \in Watched /\ Resolution[x].kind = "Drop"
    OBVIOUS
  <2> HIDE DEF away, dropped
  <2>3. QED BY <1>2, <2>1, <2>2 DEF Stays
<1>7. \A k : k \in doubts <=> k \in Watched /\ Doubted(k)
  BY <1>3 DEF Breaks, Doubted, Broken
<1>8. \A x \in taken : fresh[x].s = tick.read[x]
  OBVIOUS
<1> HIDE DEF samples, doubts, away, dropped, at, taken, sampled, res
<1>9. /\ \A x : x \in DOMAIN watches <=> x \in Watched /\ Stays(x)
      /\ \A x \in DOMAIN watches : watches[x] = reapWatch[x]
  BY <1>6 DEF Kept, Watched
<1> HIDE DEF watches
<1>10. /\ \A x : x \in Watched' <=> x \in Watched /\ Stays(x)
       /\ \A x \in Watched' : reapWatch'[x] = reapWatch[x]
       /\ \A x : x \in noted' <=> x \in noted /\ (x \in tick.snap \/ x \in Watched')
       /\ \A x : x \in reapNoted' <=> x \in reapNoted /\ x \in tick.snap
  BY <1>1, <1>9 DEF Watched
<1>11. /\ \A x : x \in Base' <=> x \in Base \/ x \in Taken
       /\ \A x \in Base' : prevPIDIO'[x].s = IF x \in Taken THEN tick.read[x] ELSE prevPIDIO[x].s
  <2>1. DOMAIN fresh = Taken /\ \A x \in Taken : fresh[x].s = tick.read[x]
    BY <1>2, <1>8
  <2> HIDE DEF fresh
  <2>2. prevPIDIO' = Over(fresh, prevPIDIO)
    BY <1>1
  <2>3. QED BY <2>1, <2>2 DEF Over, Base
<1>12. DOMAIN unread' = {}
  <2>1. DOMAIN unread' = DOMAIN unread \cap parents
    BY <1>1 DEF Kept
  <2>2. ASSUME NEW k \in Watched, Resolution[k].kind # "Drop" PROVE reapWatch[k].parent \notin DOMAIN unread
    <3>1. Outcome(k) /\ Reaches[k] = ReachStep(k, Reaches)
      BY Outcomes, Uplinks
    <3>2. reapWatch[k].parent \in tick.live \/ reapWatch[k].parent \in Watched
      BY <3>1, <2>2 DEF Outcome, ReachStep
    <3>3. QED BY <3>2 DEF Probe, NotedOnce
  <2>3. QED BY <2>1, <2>2 DEF dropped, res
<1>13. /\ tick' = [pc |-> "between", todo |-> {}, snap |-> {}, live |-> {}, read |-> <<>>, after |-> {}]
       /\ Readings' = {} /\ InTick /\ ~InTick'
  <2>1. tick' = [pc |-> "between", todo |-> {}, snap |-> {}, live |-> {}, read |-> <<>>, after |-> {}]
    BY <1>1 DEF Between
  <2>2. tick'.read = <<>> /\ tick'.pc = "between"
    BY <2>1
  <2>3. QED BY <1>1, <2>1, <2>2 DEF Readings, InTick
<1>14. /\ \A q \in Procs : q \in doubtful' <=> q \in doubtful \/ \E k \in Watched : Doubted(k) /\ reapWatch[k].last[q] > 0
       /\ doubtful' \subseteq Procs
  <2>1. doubtful \subseteq Procs
    BY DEF Probe, ProbeTypes
  <2>2. QED BY <1>1, <1>7, <2>1 DEF Carries
<1>15. negative' = (negative \/ \E p \in Sampled, q \in Procs : Sample(p)[q] < 0)
  <2>1. negative' = (negative \/ \E p \in Sampled, q \in Procs : samples[p][q] < 0)
    BY <1>1, <1>3
  <2>2. \A p \in Sampled : samples[p] = Sample(p)
    BY <1>5
  <2>3. QED BY <2>1, <2>2
<1>16. /\ reported' \in [Procs -> Int]
       /\ \A q \in Procs : \A z : (\A p \in Sampled \ {z} : Sample(p)[q] = 0) =>
              reported'[q] = reported[q] + IF z \in Sampled THEN Sample(z)[q] ELSE 0
  <2>1. Sampled \subseteq Procs /\ reported \in [Procs -> Int]
    BY DEF Probe, ProbeTypes, Sampled
  <2>2. \A p \in Sampled : samples[p] = Sample(p) /\ samples[p] \in [Procs -> Int]
    BY <1>5, SampleIs
  <2> DEFINE v == Sum(samples, Sampled)
  <2>3. /\ v \in [Procs -> Int]
        /\ \A q \in Procs : \A z : (\A p \in Sampled \ {z} : samples[p][q] = 0) => v[q] = IF z \in Sampled THEN samples[z][q] ELSE 0
    BY <2>1, <2>2, SumIs
  <2>4. reported' = Plus(reported, v)
    BY <1>1, <1>3
  <2> HIDE DEF v
  <2>5. reported' \in [Procs -> Int] /\ \A q \in Procs : reported'[q] = reported[q] + v[q]
    BY <2>1, <2>3, <2>4 DEF Plus
  <2>6. \A q \in Procs : \A z : (\A p \in Sampled \ {z} : Sample(p)[q] = 0) => v[q] = IF z \in Sampled THEN Sample(z)[q] ELSE 0
    BY <2>2, <2>3
  <2>7. QED BY <2>5, <2>6
<1>17. setup' = setup /\ st' = st /\ par' = par /\ used' = used /\ held' = held /\ tracked' = tracked /\ under' = under
  BY DEF tree
<1>18. \A x : Waited(x)' = Waited(x)
  BY <1>17 DEF Waited
<1>19. \A q, a : Rose(q, a)' = Rose(q, a)
  BY <1>18 DEF Rose
<1>20. QED BY <1>1, <1>10, <1>11, <1>12, <1>13, <1>14, <1>15, <1>16, <1>17, <1>18, <1>19

\* EndTick keeps it.
LEMMA EndTickProbe ==
  ASSUME Kernel, Probe, EndTick, UNCHANGED <<tree, tracked, under>>
  PROVE  Probe'
<1>a. /\ setup' = setup /\ st' = st /\ par' = par /\ tracked' = tracked /\ under' = under
      /\ \A x : Waited(x)' = Waited(x)
  BY EndTickStep
<1>b. /\ tick.pc = "after" /\ tick.todo = {} /\ InTick /\ ~InTick'
      /\ \A x : x \in Watched' => x \in Watched
      /\ \A x \in Watched' : reapWatch'[x] = reapWatch[x]
      /\ DOMAIN unread' = {} /\ Readings' = {}
      /\ tick' = [pc |-> "between", todo |-> {}, snap |-> {}, live |-> {}, read |-> <<>>, after |-> {}]
  BY EndTickStep
<1>c. /\ \A x : x \in Base' <=> x \in Base \/ x \in Taken
      /\ \A x \in Base' : prevPIDIO'[x].s = IF x \in Taken THEN tick.read[x] ELSE prevPIDIO[x].s
      /\ \A x : x \in reapNoted' <=> x \in reapNoted /\ x \in tick.snap
      /\ \A x : x \in noted' <=> x \in noted /\ (x \in tick.snap \/ x \in Watched')
  BY EndTickStep
<1>d. reported' \in [Procs -> Int] /\ doubtful' \subseteq Procs /\ negative' \in BOOLEAN
  <2>1. reported' \in [Procs -> Int] /\ doubtful' \subseteq Procs
    BY EndTickStep
  <2>2. negative' = (negative \/ \E p \in Sampled, q \in Procs : Sample(p)[q] < 0)
    BY EndTickStep
  <2>3. negative' \in BOOLEAN
    BY <2>2
  <2>4. QED BY <2>1, <2>3
<1>e. tick'.pc = "between" /\ tick'.todo = {} /\ tick'.snap = {} /\ tick'.live = {} /\ tick'.read = <<>> /\ tick'.after = {}
  BY <1>b
<1>f. Taken \subseteq Readings
  BY DEF Taken
<1>t. /\ Watched \subseteq Procs /\ Base \subseteq Procs /\ Readings \subseteq tick.live /\ tick.live \subseteq tick.snap
      /\ tick.snap \subseteq Procs /\ reapNoted \subseteq Procs /\ Base \subseteq tick.snap
  BY <1>b DEF Probe, ProbeTypes, Phases
<1>1. ProbeTypes'
  <2>1. \A p \in Base' : prevPIDIO'[p].s \in [Procs -> Nat]
    BY <1>c, <1>f, Lasts
  <2>2. \A k \in Watched' : LET w == reapWatch'[k] IN
       /\ w = [parent |-> w.parent, last |-> w.last, reaped |-> w.reaped, autoreaped |-> w.autoreaped, root |-> w.root]
       /\ w.last \in [Procs -> Nat] /\ w.reaped \in BOOLEAN /\ w.autoreaped \in BOOLEAN
       /\ w.parent \in Procs \cup {Host, Outside, Nobody}
    BY <1>b DEF Probe, ProbeTypes
  <2>3. Watched' \subseteq Procs /\ Base' \subseteq Procs /\ reapNoted' \subseteq Procs
    BY <1>b, <1>c, <1>f, <1>t
  <2>4. QED BY <2>1, <2>2, <2>3, <1>b, <1>d, <1>e DEF ProbeTypes
<1>2. Phases'
  BY <1>b, <1>e DEF Phases
<1>3. Snapshot'
  BY <1>b, <1>e DEF Snapshot
<1>4. NotedOnce'
  <2>1. Ends' = Ends
    BY <1>a DEF Ends
  <2>2. \A p \in Procs : tracked[p] \in {"ended", "announced"} => p \in reapNoted'
    BY <1>b, <1>c DEF Probe, Snapshot, NotedOnce
  <2>3. \A p \in Base' : tracked[p] # "never" /\ (tracked[p] # "live" => p \in reapNoted')
    BY <1>c, <1>f, <1>t DEF Probe, Snapshot, NotedOnce
  <2>4. Watched' \cup reapNoted' \cup DOMAIN unread' \subseteq Ends
    BY <1>b, <1>c DEF Probe, NotedOnce
  <2>5. QED BY <1>a, <1>b, <2>1, <2>2, <2>3, <2>4 DEF NotedOnce
<1>5. WatchFacts'
  <2>1. ASSUME NEW k \in Watched'
        PROVE LET w == reapWatch'[k] IN
       /\ w.reaped => st[k] = "gone"
       /\ w.autoreaped => w.reaped /\ k # Root /\ BornTo[k] \in setup.ignores
       /\ w.parent \in Procs => k # Root /\ w.parent = BornTo[k]
       /\ w.parent \notin Procs => par[k] \notin Procs
    BY <1>b DEF Probe, WatchFacts
  <2>2. \A k \in Base' \cup Watched' \cup Readings' : st[k] = "gone" /\ par[k] = Host /\ k # Root => k \in noted'
    BY <1>b, <1>c, <1>f, <1>t DEF Probe, WatchFacts
  <2>3. QED BY <2>1, <2>2, <1>a, <1>b, <1>e DEF WatchFacts
<1>6. QED BY <1>1, <1>2, <1>3, <1>4, <1>5 DEF Probe

---------------------------------------------------------------------------
(* The chain from a watch to its anchor.                                  *)

\* The tick has looked at everything.
Settling == tick.pc = "after" /\ tick.todo = {}

\* A watch resolved to an anchor: all between them are watched and reaped.
Anchored(k, p) ==
  /\ p \in tick.live /\ p \in Line(k) /\ p # k
  /\ \A b \in Line(k) : p \in Line(b) /\ b # p =>
       /\ b \in Watched /\ reapWatch[b].reaped /\ b # Root /\ reapWatch[b].parent = BornTo[b]
       /\ b \in tick.after => Resolution[k].unsure
       /\ ~Resolution[k].ambiguous => BornTo[b] = p \/ Reaper(b) = "Parent"

\* What is watched, followed, or unread is apart.
LEMMA Apart ==
  ASSUME Probe
  PROVE  /\ Watched \subseteq Procs /\ tick.live \subseteq Procs /\ DOMAIN unread \subseteq Procs /\ Base \subseteq Procs
         /\ Readings \subseteq tick.live
         /\ \A x : ~(x \in Watched /\ x \in tick.live) /\ ~(x \in DOMAIN unread /\ x \in tick.live) /\ ~(x \in Watched /\ x \in DOMAIN unread)
         /\ \A x \in tick.live : tracked[x] = "live"
         /\ \A k \in Watched : /\ reapWatch[k].reaped \in BOOLEAN
                               /\ reapWatch[k].parent \in Procs => k # Root /\ reapWatch[k].parent = BornTo[k]
<1>1. /\ Watched \subseteq Procs /\ tick.live \subseteq Procs /\ DOMAIN unread \subseteq Procs /\ Base \subseteq Procs
      /\ Readings \subseteq tick.live
  BY DEF Probe, ProbeTypes
<1>2. \A x \in tick.live : tracked[x] = "live"
  BY DEF Probe, Snapshot
<1>3. \A x : ~(x \in Watched /\ x \in tick.live) /\ ~(x \in DOMAIN unread /\ x \in tick.live) /\ ~(x \in Watched /\ x \in DOMAIN unread)
  BY <1>2 DEF Probe, NotedOnce, Ends
<1>4. \A k \in Watched : /\ reapWatch[k].reaped \in BOOLEAN
                         /\ reapWatch[k].parent \in Procs => k # Root /\ reapWatch[k].parent = BornTo[k]
  BY DEF Probe, ProbeTypes, WatchFacts
<1>5. QED BY <1>1, <1>2, <1>3, <1>4

\* Between a watch and its anchor are watches that were found reaped.
LEMMA AnchorChain ==
  ASSUME Probe
  PROVE  \A k \in Watched : Resolution[k].kind = "At" => Anchored(k, Resolution[k].anchor)
<1> DEFINE D == {k \in Watched : Resolution[k].kind = "At" => Anchored(k, Resolution[k].anchor)}
<1> SUFFICES ASSUME D # Watched PROVE FALSE
  OBVIOUS
<1>1. PICK k \in Watched \ D : reapWatch[k].parent \in Watched => reapWatch[k].parent \in D
  BY Uplinks, Topmost
<1> DEFINE c == reapWatch[k].parent
           p == Resolution[k].anchor
<1>2. k \in Watched /\ k \in Procs /\ Outcome(k) /\ Resolution[k].kind = "At"
  BY <1>1, Outcomes, Apart
<1>3. reapWatch[k].reaped /\ (c \in tick.live \/ c \in Watched)
  BY <1>2, Apart DEF Outcome
<1>4. k # Root /\ c = BornTo[k] /\ c \in Procs /\ c \in Line(k) /\ c # k
  BY <1>2, <1>3, Apart, Bearing, LineIn
<1>5. CASE c \in tick.live
  <2>1. p = c /\ (Resolution[k].unsure <=> k \in tick.after)
    BY <1>2, <1>3, <1>5 DEF Outcome
  <2>2. ASSUME NEW b \in Line(k), c \in Line(b), b # c PROVE b = k
    <3>1. b # k => b \in Line(c)
      BY <1>4, LineStep, <1>2
    <3>2. QED BY <3>1, <2>2, <1>4, LineAnti
  <2>3. Anchored(k, p)
    BY <2>1, <2>2, <1>2, <1>3, <1>4, <1>5 DEF Anchored
  <2>4. QED BY <2>3, <1>1
<1>6. CASE c \notin tick.live
  <2>1. c \in D /\ c \in Watched
    BY <1>1, <1>3, <1>6
  <2>2. /\ Reaper(k) # "Host" /\ Resolution[c].kind = "At" /\ p = Resolution[c].anchor
        /\ Resolution[k].ambiguous <=> Resolution[c].ambiguous \/ Reaper(k) = "Unknown"
        /\ Resolution[k].unsure <=> Resolution[c].unsure \/ k \in tick.after
    BY <1>2, <1>3, <1>6, <2>1 DEF Outcome
  <2>3. Anchored(c, p)
    BY <2>1, <2>2
  <2>4. p \in Line(k) /\ p # k
    <3>1. p \in Line(c)
      BY <2>3 DEF Anchored
    <3>2. p \in Line(k)
      BY <3>1, <1>4, <1>2, LineIn
    <3>3. QED BY <3>1, <3>2, <1>2, <1>4, LineAnti
  <2>5. Reaper(k) # "Unknown" => Reaper(k) = "Parent"
    BY <2>2 DEF Reaper, WhoReaped
  <2>6. ASSUME NEW b \in Line(k), p \in Line(b), b # p
        PROVE  /\ b \in Watched /\ reapWatch[b].reaped /\ b # Root /\ reapWatch[b].parent = BornTo[b]
               /\ b \in tick.after => Resolution[k].unsure
               /\ ~Resolution[k].ambiguous => BornTo[b] = p \/ Reaper(b) = "Parent"
    <3>1. CASE b = k
      BY <3>1, <1>2, <1>3, <1>4, <2>2, <2>5
    <3>2. CASE b # k
      <4>1. b \in Line(c)
        BY <3>2, <1>2, <1>4, LineStep
      <4>2. QED BY <4>1, <2>6, <2>3, <2>2 DEF Anchored
    <3>3. QED BY <3>1, <3>2
  <2>7. Anchored(k, p)
    BY <2>3, <2>4, <2>6 DEF Anchored
  <2>8. QED BY <2>7, <1>1
<1>7. QED BY <1>5, <1>6

\* One up a line, from a process that its parent waited for.
LEMMA StepUp ==
  ASSUME Kernel, Probe, Settling, NEW b \in Watched, Waited(b)
  PROVE  LET c == BornTo[b] IN
         /\ b # Root /\ c \in Procs
         /\ c \in tick.live => IF reapWatch[b].reaped THEN IsAt(b, c) /\ Resolution[b].autoreaped = FALSE ELSE Resolution[b].kind = "Wait"
         /\ c \in Watched => /\ Resolution[b].kind = Resolution[c].kind /\ Resolution[b].anchor = Resolution[c].anchor
                             /\ Resolution[b].missing = Resolution[c].missing
                             /\ Resolution[b].autoreaped = Resolution[c].autoreaped
         /\ c \in DOMAIN unread => Resolution[b].kind = "Drop" /\ Resolution[b].missing = c
<1> DEFINE c == BornTo[b]
           w == reapWatch[b]
<1>1. b \in Procs /\ st[b] = "gone" /\ par[b] \in Procs /\ w.reaped \in BOOLEAN
  BY Apart DEF Waited
<1>2. b # Root /\ par[b] = c /\ c \in Procs
  BY <1>1 DEF Kernel, Parents
<1>3. w.parent = c
  BY <1>1, <1>2, Apart DEF Probe, WatchFacts
<1>4. ~w.autoreaped
  BY <1>1, <1>2 DEF Probe, WatchFacts, Kernel, Parents
<1>5. Reaper(b) # "Host"
  <2>1. b \notin noted
    BY <1>1, <1>2, Nowhere DEF Kernel, Parents
  <2>2. QED BY <2>1 DEF Reaper, WhoReaped
<1>6. ~w.reaped => c \in tick.live
  BY <1>2, <1>3 DEF Probe, WatchFacts, Settling
<1>7. Outcome(b) /\ Reaches[b] = ReachStep(b, Reaches) /\ Resolution[b] \in Results
  BY Outcomes, Uplinks
<1>8. CASE c \in tick.live
  <2>1. Reaches[b]
    BY <1>3, <1>7, <1>8 DEF ReachStep
  <2>2. w.reaped => Resolution[b].kind = "At" /\ Resolution[b].anchor = c /\ (Resolution[b].autoreaped <=> w.autoreaped)
    BY <1>3, <1>7, <1>8 DEF Outcome
  <2>3. ~w.reaped => Resolution[b].kind = "Wait"
    BY <2>1, <1>7 DEF Outcome
  <2>4. Resolution[b].autoreaped \in BOOLEAN
    BY <1>7 DEF Results
  <2>5. QED BY <2>2, <2>3, <2>4, <1>1, <1>2, <1>4, <1>8, Apart DEF IsAt
<1>9. CASE c \in Watched
  <2>1. c \notin tick.live /\ c \notin DOMAIN unread /\ w.reaped
    BY <1>6, <1>9, Apart
  <2>2. /\ Resolution[b].kind = Resolution[c].kind /\ Resolution[b].anchor = Resolution[c].anchor
        /\ Resolution[b].missing = Resolution[c].missing
        /\ Resolution[b].autoreaped <=> Resolution[c].autoreaped \/ w.autoreaped
    BY <1>3, <1>5, <1>7, <1>9, <2>1 DEF Outcome
  <2>3. Resolution[b].autoreaped \in BOOLEAN /\ Resolution[c].autoreaped \in BOOLEAN
    <3>1. Resolution[c] \in Results
      BY <1>9, Outcomes
    <3>2. QED BY <1>7, <3>1 DEF Results
  <2>4. QED BY <2>1, <2>2, <2>3, <1>2, <1>4
<1>10. CASE c \in DOMAIN unread
  <2>1. c \notin tick.live /\ c \notin Watched /\ w.reaped
    BY <1>6, <1>10, Apart
  <2>2. Resolution[b].kind = "Drop" /\ Resolution[b].missing = c
    BY <1>3, <1>7, <1>10, <2>1 DEF Outcome
  <2>3. QED BY <2>1, <2>2, <1>2
<1>11. QED BY <1>2, <1>8, <1>9, <1>10

---------------------------------------------------------------------------
(* An account at the end of a tick, and the reading above it.             *)

\* A process between an account and where its use has got to.
LEMMA Link ==
  ASSUME NEW q \in Procs, NEW a, Rose(q, a), NEW x, Rose(q, x), NEW b \in Line(a), x \in Line(b), b # x
  PROVE  b \in Procs /\ b \in Line(q) /\ b # Root /\ Waited(b) /\ Rose(q, b) /\ BornTo[b] \in Line(a) /\ x \in Line(BornTo[b]) /\ Rose(q, BornTo[b])
<1>1. a \in Procs /\ a \in Line(q) /\ b \in Procs /\ b \in Line(q)
  BY RoseIn, LineIn
<1>2. Waited(b)
  BY <1>1 DEF Rose
<1>3. Rose(q, b)
  BY <1>1, RoseUnder
<1>4. b # Root /\ x \in Line(BornTo[b])
  BY <1>1, LineStep
<1>5. QED BY <1>1, <1>2, <1>3, <1>4, RoseOn, LineIn

\* An account's line is tracked, watched, or known to be unread.
LEMMA OnTheLine ==
  ASSUME Probe, Accounts, Settling, NEW q \in Procs, NEW a \in Procs, Has(a, q), NEW x \in Line(a), Rose(q, x)
  PROVE  x \in tick.live \/ x \in Watched \/ x \in DOMAIN unread
<1>1. tracked[x] = "live" \/ x \in Watched \/ x \in DOMAIN unread
  BY DEF Accounts
<1>2. x \in Procs /\ InTick
  BY LineIn DEF Settling, InTick
<1>3. tracked[x] = "live" => x \in tick.live
  <2>1. a \in Base \/ a \in Watched
    BY DEF Has, Acc
  <2>2. QED BY <1>2, <2>1 DEF Probe, Snapshot
<1>4. QED BY <1>1, <1>3

\* An unread process's parent is the one it was registered under.
LEMMA UnreadUnder ==
  ASSUME Kernel, Probe, NEW c \in DOMAIN unread, c # Root
  PROVE  c \in Procs /\ unread[c] = BornTo[c]
<1>1. c \in Procs /\ tracked[c] # "never" /\ unread[c] = under[c]
  BY Apart DEF Probe, NotedOnce, Ends
<1>2. QED BY <1>1 DEF Kernel, Entered

\* Use that went through an unread process is a chain break.
LEMMA Gap ==
  ASSUME Kernel, Probe, Accounts, NEW q \in Procs, NEW a \in Procs, Has(a, q),
         NEW c \in DOMAIN unread, c # Root, c \in Line(a), Rose(q, c), Waited(c), NEW b, Resolution[b].missing = c
  PROVE  Broken(b)
<1>1. c \in Procs /\ unread[c] = BornTo[c]
  BY UnreadUnder
<1>2. BornTo[c] \in tick.snap
  BY DEF Accounts
<1>3. QED BY <1>1, <1>2, Nowhere DEF Broken

\* The reading that has what a watch has is that of the anchor, or the chain is broken.
LEMMA ReadAbove ==
  ASSUME Kernel, Probe, Accounts, Readouts, Settling, NEW q \in Procs, NEW a \in Watched, Has(a, q), NEW y \in Procs, HasRead(y, q)
  PROVE  /\ y \in Line(a) /\ y # a /\ y # q
         /\ (IsAt(a, y) /\ Resolution[a].autoreaped = FALSE) \/ (Resolution[a].kind = "Drop" /\ Broken(a))
<1>1. a \in Procs /\ y \in tick.live /\ y \notin Watched /\ y \notin DOMAIN unread /\ y # a
  BY Apart DEF HasRead
<1>2. Rose(q, a) /\ Rose(q, y) /\ y \in Line(a) /\ a \in Line(q)
  BY <1>1, RoseIn DEF Accounts, Readouts
<1>3. y # q
  BY <1>1, <1>2, LineAnti
<1> DEFINE Ok(b) == (IsAt(b, y) /\ Resolution[b].autoreaped = FALSE) \/ (Resolution[b].kind = "Drop" /\ Broken(b))
           G == {b \in Procs : b \in DOMAIN unread \/ (b \in Watched /\ Ok(b))}
<1>4. ASSUME NEW b \in Line(a), y \in Line(b), b # y, BornTo[b] = y \/ BornTo[b] \in G PROVE b \in G
  <2> DEFINE c == BornTo[b]
  <2>1. b \in Procs /\ b \in Line(q) /\ b # Root /\ Waited(b) /\ Rose(q, b) /\ c \in Line(a) /\ y \in Line(c) /\ Rose(q, c)
    BY <1>2, <1>4, Link
  <2>2. b \notin tick.live /\ (b \in Watched => reapWatch[b].reaped)
    BY <1>4, <2>1 DEF Readouts, Settling
  <2>3. b \in Watched \/ b \in DOMAIN unread
    BY <1>1, <2>1, <2>2, OnTheLine
  <2>4. CASE b \in Watched /\ c = y
    <3>1. IsAt(b, y) /\ Resolution[b].autoreaped = FALSE
      BY <2>1, <2>2, <2>4, <1>1, StepUp
    <3>2. QED BY <3>1, <2>1, <2>4
  <2>5. CASE b \in Watched /\ c \in Watched /\ Ok(c)
    <3>1. Resolution[b].kind = Resolution[c].kind /\ Resolution[b].anchor = Resolution[c].anchor
          /\ Resolution[b].missing = Resolution[c].missing /\ Resolution[b].autoreaped = Resolution[c].autoreaped
      BY <2>1, <2>5, StepUp
    <3>2. Ok(b)
      BY <3>1, <2>5 DEF IsAt, Broken
    <3>3. QED BY <3>2, <2>1, <2>5
  <2>6. CASE b \in Watched /\ c \in DOMAIN unread
    <3>1. Resolution[b].kind = "Drop" /\ Resolution[b].missing = c
      BY <2>1, <2>6, StepUp
    <3>2. c # y /\ c \in Procs
      BY <1>1, <2>6, Apart
    <3>3. c # Root /\ Waited(c)
      BY <3>2, <2>1, <1>2, Link
    <3>4. Broken(b)
      BY <3>1, <3>3, <2>1, <2>6, <1>1, Gap
    <3>5. QED BY <3>1, <3>4, <2>1, <2>6
  <2>7. QED BY <2>1, <2>3, <2>4, <2>5, <2>6, <1>4
<1> HIDE DEF G
<1>5. \A b \in Line(a) : y \in Line(b) /\ b # y => b \in G
  BY <1>1, <1>2, <1>4, DownTheLine
<1>6. a \in G
  BY <1>1, <1>2, <1>5, LineIn
<1>7. Ok(a)
  BY <1>6, Apart DEF G
<1>8. QED BY <1>1, <1>2, <1>3, <1>7

\* Where use has got to a watch or an unread process that is dropped, the account is dropped too.
LEMMA OverAbove ==
  ASSUME Kernel, Probe, Accounts, Climbed, Settling, NEW q \in Procs, NEW a \in Watched, Has(a, q),
         NEW x \in Line(a), Rose(q, x), x \in DOMAIN unread \/ (x \in Watched /\ ~Stays(x))
  PROVE  ~Stays(a)
<1>1. a \in Procs /\ Rose(q, a) /\ x \in Procs
  BY Apart, LineIn DEF Accounts
<1> DEFINE G == {b \in Procs : b \in DOMAIN unread \/ (b \in Watched /\ ~Stays(b))}
<1>2. ASSUME NEW b \in Line(a), x \in Line(b), b # x, BornTo[b] \in G PROVE b \in G
  <2> DEFINE c == BornTo[b]
  <2>1. b \in Procs /\ b \in Line(q) /\ Waited(b) /\ Rose(q, b)
    BY <1>1, <1>2, Link
  <2>2. b \notin tick.live
    BY <1>1, <1>2, <2>1 DEF Climbed, Settling
  <2>3. b \in Watched \/ b \in DOMAIN unread
    BY <1>1, <2>1, <2>2, OnTheLine
  <2>4. CASE b \in Watched /\ c \in Watched /\ ~Stays(c)
    <3>1. Resolution[b].kind = Resolution[c].kind /\ Resolution[b].anchor = Resolution[c].anchor
      BY <2>1, <2>4, StepUp
    <3>2. QED BY <3>1, <2>1, <2>4 DEF Stays
  <2>5. CASE b \in Watched /\ c \in DOMAIN unread
    <3>1. Resolution[b].kind = "Drop"
      BY <2>1, <2>5, StepUp
    <3>2. QED BY <3>1, <2>1, <2>5 DEF Stays
  <2>6. QED BY <2>1, <2>3, <2>4, <2>5, <1>2
<1>3. x \in G
  BY <1>1
<1> HIDE DEF G
<1>4. \A b \in Line(a) : x \in Line(b) /\ b # x => b \in G
  BY <1>1, <1>2, <1>3, DownTheLine
<1>5. a \in G
  BY <1>1, <1>3, <1>4, LineIn
<1>6. QED BY <1>5, Apart DEF G

\* The reading that has what a baseline has is of the same process.
LEMMA ReadLive ==
  ASSUME Kernel, Probe, Accounts, Readouts, Settling, NEW q \in Procs, NEW a \in Procs, Has(a, q), a \notin Watched, NEW y \in Procs, HasRead(y, q)
  PROVE  y = a
<1>1. a \in Base /\ tracked[a] = "live" /\ InTick
  BY DEF Has, Acc, Settling, InTick
<1>2. a \in tick.live
  BY <1>1, LineIn DEF Probe, Snapshot
<1>3. y \in Line(a) /\ Rose(q, a)
  BY DEF Accounts
<1>4. a \in Line(q)
  BY <1>3, RoseIn
<1>5. QED BY <1>2, <1>3, <1>4 DEF Readouts, Settling

\* A watch dropped that no reading has is over, or its chain is broken.
LEMMA Unfinished ==
  ASSUME Kernel, Probe, Accounts, Counted, Settling, NEW q \in Procs, NEW a \in Watched, Has(a, q), ~Stays(a),
         \A y \in Procs : ~HasRead(y, q)
  PROVE  Finished(q) \/ Broken(a)
<1>1. a \in Procs /\ Rose(q, a) /\ a \in Line(q)
  BY Apart, RoseIn DEF Accounts
<1>2. \A y \in Readings : tick.read[y][q] = 0
  BY Apart, Lasts DEF HasRead
<1>3. \A p \in Procs : par[p] \in Procs => p # Root
  BY DEF Kernel, Parents
<1>4. PICK x \in Procs : Rose(q, x) /\ ~Waited(x)
  BY <1>3, Bearing, Resting
<1>5. x \in Line(a) /\ x \in Line(q)
  <2>1. x = a => x \in Line(a)
    BY LineIn
  <2>2. QED BY <2>1, <1>1, <1>4, RoseOrder, RoseIn
<1>6. SUFFICES ASSUME ~(st[x] # "alive" /\ par[x] \notin Procs) PROVE Broken(a)
  BY <1>2, <1>4 DEF Finished
<1>7. st[x] # "gone" /\ (st[x] # "alive" => par[x] \in Procs)
  BY <1>4, <1>6 DEF Waited
<1>8. CASE Resolution[a].kind = "At" /\ Resolution[a].anchor \in Taken
  <2> DEFINE p == Resolution[a].anchor
  <2>1. Anchored(a, p)
    BY <1>8, AnchorChain
  <2>2. p \in Line(a) /\ p \in Procs /\ ~Resolution[a].unsure /\ p \in Readings
    BY <2>1, <1>8, <1>1, LineIn DEF Anchored, Taken, IsAt
  <2>3. x \in Line(p)
    <3>1. CASE p \in Line(x) /\ x # p
      <4>1. x \in Watched /\ reapWatch[x].reaped
        BY <3>1, <2>1, <1>5 DEF Anchored
      <4>2. QED BY <4>1, <1>7 DEF Probe, WatchFacts
    <3>2. QED BY <3>1, <2>2, <1>1, <1>5, LineLinear, LineIn
  <2>4. ASSUME NEW b \in Line(a), p \in Line(b), b # p PROVE Settled(b)
    <3>1. b \in Watched /\ reapWatch[b].reaped /\ b \notin tick.after
      BY <2>1, <2>2, <2>4 DEF Anchored
    <3>2. b \in Procs /\ b \in Line(q)
      BY <1>1, <2>4, LineIn
    <3>3. x \in Line(b) /\ x # b
      <4>1. x \in Line(b)
        BY <2>3, <2>4, <3>2, LineIn
      <4>2. x # b
        BY <2>3, <2>4, <2>2, <3>2, LineAnti
      <4>3. QED BY <4>1, <4>2
    <3>4. Waited(b)
      BY <3>2, <3>3, <1>4 DEF Rose
    <3>5. QED BY <3>1, <3>4 DEF Settled
  <2>5. reapWatch[a].last[q] > 0
    BY DEF Has, Bal
  <2>6. tick.read[p][q] >= reapWatch[a].last[q]
    BY <2>2, <2>4, <2>5 DEF Counted, Settling, InTick
  <2>7. reapWatch[a].last[q] \in Nat /\ tick.read[p][q] \in Nat
    BY <2>2, Lasts
  <2>8. tick.read[p][q] > 0
    BY <2>5, <2>6, <2>7
  <2>9. QED BY <2>8, <2>2, <1>2
<1>9. CASE Resolution[a].kind = "Drop"
  <2> DEFINE G == {b \in Procs : b \in tick.live \/ b \in DOMAIN unread \/ (b \in Watched /\ (Resolution[b].kind # "Drop" \/ Broken(b)))}
  <2>1. x \in G
    <3>1. CASE x \in Watched
      <4>1. st[x] # "alive" /\ par[x] \in Procs
        BY <3>1, <1>7 DEF Probe, NotedOnce, Ends, Kernel, Entered
      <4>2. ~reapWatch[x].reaped /\ reapWatch[x].parent \in Procs
        BY <3>1, <4>1, <1>7 DEF Probe, WatchFacts
      <4>3. reapWatch[x].parent \in tick.live
        BY <3>1, <4>2 DEF Probe, WatchFacts, Settling
      <4>4. Outcome(x) /\ Reaches[x] = ReachStep(x, Reaches)
        BY <3>1, Outcomes, Uplinks
      <4>5. Resolution[x].kind = "Wait"
        BY <4>2, <4>3, <4>4 DEF Outcome, ReachStep
      <4>6. QED BY <4>5, <3>1
    <3>2. QED BY <3>1, <1>1, <1>4, <1>5, OnTheLine
  <2>2. ASSUME NEW b \in Line(a), x \in Line(b), b # x, BornTo[b] \in G PROVE b \in G
    <3> DEFINE c == BornTo[b]
    <3>1. b \in Procs /\ b # Root /\ Waited(b) /\ Rose(q, b) /\ c \in Line(a) /\ x \in Line(c) /\ Rose(q, c)
      BY <1>1, <1>4, <2>2, Link
    <3>2. b \in tick.live \/ b \in Watched \/ b \in DOMAIN unread
      BY <1>1, <3>1, OnTheLine
    <3>3. CASE b \in Watched /\ c \in tick.live
      <4>1. Resolution[b].kind # "Drop"
        BY <3>1, <3>3, StepUp DEF IsAt
      <4>2. QED BY <4>1, <3>1, <3>3
    <3>4. CASE b \in Watched /\ c \in Watched /\ (Resolution[c].kind # "Drop" \/ Broken(c))
      <4>1. Resolution[b].kind = Resolution[c].kind /\ Resolution[b].missing = Resolution[c].missing
        BY <3>1, <3>4, StepUp
      <4>2. QED BY <4>1, <3>1, <3>4 DEF Broken
    <3>5. CASE b \in Watched /\ c \in DOMAIN unread
      <4>1. Resolution[b].missing = c
        BY <3>1, <3>5, StepUp
      <4>2. CASE c = x
        <5>1. st[x] # "alive" /\ tracked[x] \notin {"never", "live"}
          BY <3>5, <4>2 DEF Probe, NotedOnce, Ends, Kernel, Entered
        <5>2. x # Root /\ par[x] = BornTo[x] /\ st[BornTo[x]] = "alive" /\ BornTo[x] \in Procs
          BY <5>1, <1>7 DEF Kernel, Parents
        <5>3. tracked[BornTo[x]] = "live"
          BY <5>1, <5>2 DEF Kernel, Entered
        <5>4. BornTo[x] \in Line(a)
          BY <5>2, <1>1, <1>5, LineIn
        <5>5. BornTo[x] \in tick.live
          BY <5>2, <5>3, <5>4, <1>1 DEF Probe, Snapshot, Settling, InTick
        <5>6. unread[x] = BornTo[x] /\ BornTo[x] \in tick.snap
          BY <5>2, <5>5, <3>5, <4>2, UnreadUnder DEF Probe, ProbeTypes
        <5>7. Broken(b)
          BY <4>1, <4>2, <5>6, Nowhere DEF Broken
        <5>8. QED BY <5>7, <3>1, <3>5
      <4>3. CASE c # x
        <5>1. c # Root /\ Waited(c)
          BY <4>3, <3>1, <1>1, <1>4, Link
        <5>2. Broken(b)
          BY <4>1, <5>1, <3>1, <3>5, <1>1, Gap
        <5>3. QED BY <5>2, <3>1, <3>5
      <4>4. QED BY <4>2, <4>3
    <3>6. QED BY <3>1, <3>2, <3>3, <3>4, <3>5, <2>2
  <2> HIDE DEF G
  <2>3. \A b \in Line(a) : x \in Line(b) /\ b # x => b \in G
    BY <1>1, <1>5, <2>1, <2>2, DownTheLine
  <2>4. a \in G
    BY <1>1, <1>5, <2>1, <2>3, LineIn
  <2>5. QED BY <2>4, <1>9, Apart DEF G
<1>10. QED BY <1>8, <1>9 DEF Stays

---------------------------------------------------------------------------
(* The accounts, step by step.                                            *)

\* The accounts' part of the invariant.
Sums == Accounts /\ Readouts /\ Climbed /\ Counted /\ Once /\ RemainderNotNegative

\* It holds at the start, when nothing is accounted for.
LEMMA Sums0 ==
  ASSUME DiskInit
  PROVE  Sums
<1>1. Watched = {} /\ Base = {} /\ Readings = {} /\ ~InTick /\ tick.pc # "after" /\ ~negative /\ \A q \in Procs : reported[q] = 0
  BY DEF DiskInit, Between, Watched, Base, Readings, InTick, Nothing
<1>2. \A a, q \in Procs : ~Has(a, q) /\ ~HasRead(a, q)
  BY <1>1 DEF Has, Acc, HasRead
<1>3. QED BY <1>1, <1>2 DEF Sums, Accounts, Readouts, Climbed, Counted, Once, RemainderNotNegative

\* Accounts are what they were.
LEMMA AccountsSame ==
  ASSUME Watched' = Watched, \A k \in Watched : reapWatch'[k].last = reapWatch[k].last, Base' = Base,
         \A b \in Base : prevPIDIO'[b].s = prevPIDIO[b].s, \A b \in Base : tracked'[b] = "live" <=> tracked[b] = "live"
  PROVE  /\ \A a : Acc(a)' <=> Acc(a)
         /\ \A a : Acc(a) => Bal(a)' = Bal(a)
         /\ \A a, q : Has(a, q)' <=> Has(a, q)
BY DEF Acc, Bal, Has

\* A step that moves no account and no reading keeps it.
LEMMA QuietSums ==
  ASSUME Sums, st' = st, par' = par, used' = used, setup' = setup, \A a \in Procs : tracked'[a] = "live" <=> tracked[a] = "live",
         Watched' = Watched, reapWatch' = reapWatch, Base' = Base, Base \subseteq Procs, prevPIDIO' = prevPIDIO,
         Readings' = {}, DOMAIN unread = {}, unread' = unread, tick'.pc # "after", Readings = {},
         reported' = reported, doubtful' = doubtful, negative' = negative
  PROVE  Sums'
<1>1. /\ \A x : Waited(x)' = Waited(x)
      /\ \A q, a : Rose(q, a)' = Rose(q, a)
  BY DEF Waited, Rose
<1>2. /\ \A a : Acc(a)' <=> Acc(a)
      /\ \A a : Acc(a) => Bal(a)' = Bal(a)
      /\ \A a, q : Has(a, q)' <=> Has(a, q)
  BY AccountsSame
<1>3. \A y, q : ~HasRead(y, q)'
  BY DEF HasRead
<1>4. Accounts'
  <2> SUFFICES ASSUME NEW a \in Procs, NEW q \in Procs, Has(a, q)
    PROVE
    /\ Rose(q, a) /\ Bal(a)'[q] <= used[q]
    /\ \A b \in Procs : Has(b, q)' => a = b
    /\ \A x \in Line(a) : Rose(q, x) => tracked'[x] = "live" \/ x \in Watched \/ x \in DOMAIN unread
    /\ \A m \in Line(a) \ {Root} : tracked'[m] = "live" /\ Waited(m) /\ tracked'[BornTo[m]] # "live" => ~Rose(q, m)
    BY <1>1, <1>2, <1>3 DEF Accounts
  <2>1. Bal(a)' = Bal(a) /\ Line(a) \subseteq Procs /\ \A m \in Line(a) \ {Root} : BornTo[m] \in Procs
    BY <1>2, LineIn, Bearing DEF Has
  <2>2. QED BY <1>2, <2>1 DEF Sums, Accounts
<1>5. Readouts' /\ Climbed' /\ Counted'
  BY <1>3 DEF Readouts, Climbed, Counted
<1>6. Once'
  <2> SUFFICES ASSUME NEW q \in Procs \ doubtful
               PROVE  reported[q] <= 0 \/ (\E a \in Procs : Acc(a)' /\ reported[q] <= Bal(a)'[q]) \/ (Finished(q)' /\ reported[q] <= used[q])
    BY DEF Once
  <2>1. Finished(q) => Finished(q)'
    BY <1>1 DEF Finished
  <2>2. QED BY <1>2, <2>1 DEF Sums, Once
<1>7. RemainderNotNegative'
  BY DEF Sums, RemainderNotNegative
<1>8. QED BY <1>4, <1>5, <1>6, <1>7 DEF Sums

\* BeginTick keeps it.
LEMMA BeginTickSums ==
  ASSUME Kernel, Probe, Sums, BeginTick, TreeSame
  PROVE  Sums'
<1>1. /\ tick.pc = "between"
      /\ tick' = [pc |-> "before", todo |-> Watched \ Reaped, snap |-> tick.snap, live |-> tick.live, read |-> tick.read, after |-> tick.after]
      /\ prevPIDIO' = prevPIDIO /\ reapWatch' = reapWatch /\ unread' = unread
      /\ reported' = reported /\ doubtful' = doubtful /\ negative' = negative
  BY DEF BeginTick, Probe, ProbeTypes
<1>2. tick'.pc = "before" /\ tick'.read = tick.read
  BY <1>1
<1>3. Readings = {} /\ DOMAIN unread = {} /\ Base \subseteq Procs
  BY <1>1 DEF Probe, ProbeTypes, Phases, InTick
<1>4. Watched' = Watched /\ Base' = Base /\ Readings' = {}
  BY <1>1, <1>2, <1>3 DEF Watched, Base, Readings
<1>5. st' = st /\ par' = par /\ used' = used /\ setup' = setup /\ tracked' = tracked
  BY SameTree
<1>6. tick'.pc # "after"
  BY <1>2
<1>7. QED BY <1>1, <1>3, <1>4, <1>5, <1>6, QuietSums

\* TakeSnapshot keeps it.
LEMMA TakeSnapshotSums ==
  ASSUME Kernel, Probe, Sums, TakeSnapshot, TreeSame
  PROVE  Sums'
<1> DEFINE live == {p \in Entries : tracked[p] = "live"}
<1>1. /\ tick.pc \in {"between", "before"}
      /\ tick' = [pc |-> "read", todo |-> live, snap |-> Entries, live |-> live, read |-> tick.read, after |-> tick.after]
      /\ prevPIDIO' = prevPIDIO /\ reapWatch' = reapWatch /\ unread' = unread
      /\ reported' = reported /\ doubtful' = doubtful /\ negative' = negative
  BY DEF TakeSnapshot, Probe, ProbeTypes
<1>2. tick'.pc = "read" /\ tick'.read = tick.read
  BY <1>1
<1>3. Readings = {} /\ DOMAIN unread = {} /\ Base \subseteq Procs
  BY <1>1 DEF Probe, ProbeTypes, Phases, InTick
<1>4. Watched' = Watched /\ Base' = Base /\ Readings' = {}
  BY <1>1, <1>2, <1>3 DEF Watched, Base, Readings
<1>5. st' = st /\ par' = par /\ used' = used /\ setup' = setup /\ tracked' = tracked
  BY SameTree
<1>6. tick'.pc # "after"
  BY <1>2
<1>7. QED BY <1>1, <1>3, <1>4, <1>5, <1>6, QuietSums

\* Stop keeps it: what it drops from the table had ended.
LEMMA StopSums ==
  ASSUME Kernel, Probe, Sums, Stop, UNCHANGED tree
  PROVE  Sums'
<1>1. /\ setup' = setup /\ st' = st /\ par' = par /\ used' = used
      /\ \A p \in Procs : tracked'[p] = IF tracked[p] \in {"ended", "announced"} THEN "dropped" ELSE tracked[p]
  BY StopStep
<1>2. /\ Watched' = Watched /\ reapWatch' = reapWatch /\ Base' = Base /\ prevPIDIO' = prevPIDIO
      /\ unread' = unread /\ DOMAIN unread = {} /\ Readings' = {} /\ Readings = {}
      /\ tick' = [pc |-> "stopped", todo |-> {}, snap |-> {}, live |-> {}, read |-> <<>>, after |-> {}]
      /\ reported' = reported /\ doubtful' = doubtful /\ negative' = negative
  BY StopStep
<1>3. tick'.pc # "after"
  BY <1>2
<1>4. \A a \in Procs : tracked'[a] = "live" <=> tracked[a] = "live"
  BY <1>1
<1>5. Base \subseteq Procs
  BY Apart
<1>6. QED BY <1>1, <1>2, <1>3, <1>4, <1>5, QuietSums

\* Look keeps it.
LEMMA LookSums ==
  ASSUME Kernel, Probe, Sums, NEW p \in Procs, Look(p), TreeSame
  PROVE  Sums'
<1>a. /\ setup' = setup /\ st' = st /\ par' = par /\ used' = used /\ tracked' = tracked
      /\ \A x : Waited(x)' = Waited(x)
      /\ \A q, a : Rose(q, a)' = Rose(q, a)
  BY SameTree
<1>b. /\ p \in tick.todo /\ p \in Watched /\ Watched' = Watched
      /\ \A k \in Watched \ {p} : reapWatch'[k] = reapWatch[k]
      /\ tick'.pc = tick.pc /\ tick'.todo = tick.todo \ {p} /\ tick'.snap = tick.snap /\ tick'.live = tick.live
      /\ tick'.read = tick.read
      /\ tick'.after = IF tick.pc = "after" /\ st[p] = "gone" THEN tick.after \cup {p} ELSE tick.after
  BY LookStep
<1>c. /\ prevPIDIO' = prevPIDIO /\ unread' = unread
      /\ reported' = reported /\ doubtful' = doubtful /\ negative' = negative
      /\ Base' = Base /\ Readings' = Readings /\ (InTick <=> tick.pc = "after") /\ InTick' = InTick
  BY LookStep
<1>d. reapWatch'[p].last = reapWatch[p].last /\ (reapWatch'[p].reaped <=> st[p] = "gone")
  <2> DEFINE w == reapWatch'[p]
  <2>1. /\ w = [parent |-> w.parent, last |-> reapWatch[p].last, reaped |-> w.reaped, autoreaped |-> w.autoreaped, root |-> reapWatch[p].root]
        /\ w.reaped <=> st[p] = "gone"
    BY LookWatch
  <2> HIDE DEF w
  <2>2. w.last = reapWatch[p].last /\ (w.reaped <=> st[p] = "gone")
    BY <2>1
  <2>3. QED BY <2>2 DEF w
<1>e. \A k \in Watched : reapWatch'[k].last = reapWatch[k].last
  BY <1>b, <1>d
<1>1. /\ \A a : Acc(a)' <=> Acc(a)
      /\ \A a : Acc(a) => Bal(a)' = Bal(a)
      /\ \A a, q : Has(a, q)' <=> Has(a, q)
      /\ \A y, q : HasRead(y, q)' <=> HasRead(y, q)
  <2>1. \A y, q : HasRead(y, q)' <=> HasRead(y, q)
    BY <1>b, <1>c DEF HasRead
  <2>2. QED BY <2>1, <1>a, <1>b, <1>c, <1>e, AccountsSame
<1>2. Accounts'
  <2> SUFFICES ASSUME NEW a \in Procs, NEW q \in Procs, Has(a, q)
    PROVE
    /\ Rose(q, a) /\ Bal(a)'[q] <= used[q]
    /\ \A b \in Procs : Has(b, q)' => a = b
    /\ \A x \in Line(a) : Rose(q, x) => tracked[x] = "live" \/ x \in Watched \/ x \in DOMAIN unread
    /\ \A m \in Line(a) \ {Root} : tracked[m] = "live" /\ Waited(m) /\ tracked[BornTo[m]] # "live" => ~Rose(q, m)
    /\ \A m \in DOMAIN unread \ {Root} : Waited(m) /\ m \in Line(a) /\ Rose(q, m) => BornTo[m] \in tick.snap
    /\ a \in Readings => tick.read[a][q] >= Bal(a)'[q]
    /\ \A y \in Procs : HasRead(y, q)' => y \in Line(a)
    BY <1>1, <1>a, <1>b, <1>c DEF Accounts
  <2>1. Bal(a)' = Bal(a)
    BY <1>1 DEF Has
  <2>2. QED BY <1>1, <2>1 DEF Sums, Accounts
\* Whoever use has passed was waited for, so it is found reaped.
<1>f. ASSUME NEW b, b \in Watched => b \in tick.todo \/ reapWatch[b].reaped, Waited(b)
      PROVE  b \in Watched => b \in tick'.todo \/ reapWatch'[b].reaped
  BY <1>b, <1>d, <1>f DEF Waited
<1>3. Readouts'
  <2> SUFFICES ASSUME NEW y \in Procs, NEW q \in Procs, HasRead(y, q)
    PROVE
    /\ Rose(q, y) /\ tick.read[y][q] <= used[q] /\ (y # q => tick.read[y][q] = used[q])
    /\ \A z \in Procs : HasRead(z, q)' => y = z
    /\ \A m \in Line(y) \ {Root} : tracked[m] = "live" /\ Waited(m) /\ tracked[BornTo[m]] # "live" => ~Rose(q, m)
    /\ tick.pc # "read"
    /\ tick.pc = "after" => \A b \in Line(q) : y \in Line(b) /\ b # y =>
          b \notin tick.live /\ (b \in Watched => b \in tick'.todo \/ reapWatch'[b].reaped)
    BY <1>1, <1>a, <1>b, <1>c DEF Readouts
  <2>1. tick.pc # "read"
    BY LookStep
  <2>2. ASSUME tick.pc = "after", NEW b \in Line(q), y \in Line(b), b # y
        PROVE  b \notin tick.live /\ (b \in Watched => b \in tick'.todo \/ reapWatch'[b].reaped)
    <3>1. Waited(b) /\ b \notin tick.live /\ (b \in Watched => b \in tick.todo \/ reapWatch[b].reaped)
      BY <2>2 DEF Sums, Readouts, Rose
    <3>2. QED BY <3>1, <1>f
  <2>3. QED BY <2>1, <2>2, <1>1 DEF Sums, Readouts
<1>4. Climbed'
  <2> SUFFICES ASSUME tick.pc = "after", NEW x \in Procs, NEW q \in Procs, x \in Watched \cup DOMAIN unread, Rose(q, x),
                      NEW b \in Line(q), x \in Line(b), b # x
               PROVE  b \notin tick.live /\ (b \in Watched => b \in tick'.todo \/ reapWatch'[b].reaped)
    BY <1>a, <1>b, <1>c DEF Climbed
  <2>1. Waited(b) /\ b \notin tick.live /\ (b \in Watched => b \in tick.todo \/ reapWatch[b].reaped)
    BY DEF Sums, Climbed, Rose
  <2>2. QED BY <2>1, <1>f
<1>5. Counted'
  <2>1. ASSUME InTick, NEW b, Settled(b)' PROVE Settled(b)
    BY <2>1, <1>a, <1>b, <1>c, <1>d DEF Settled
  <2>2. QED BY <2>1, <1>b, <1>c, <1>e DEF Sums, Counted
<1>6. Once'
  <2> SUFFICES ASSUME NEW q \in Procs \ doubtful
               PROVE  reported[q] <= 0 \/ (\E a \in Procs : Acc(a)' /\ reported[q] <= Bal(a)'[q]) \/ (Finished(q)' /\ reported[q] <= used[q])
    BY <1>a, <1>c DEF Once
  <2>1. Finished(q) => Finished(q)'
    BY <1>a, <1>b, <1>c DEF Finished
  <2>2. QED BY <1>1, <2>1 DEF Sums, Once
<1>7. RemainderNotNegative'
  BY <1>a, <1>c DEF Sums, RemainderNotNegative
<1>8. QED BY <1>2, <1>3, <1>4, <1>5, <1>6, <1>7 DEF Sums

\* What rises is waited for by a living parent.
LEMMA RoseMoves ==
  ASSUME Kernel, TreeNext
  PROVE  /\ \A x \in Procs : Waited(x)' /\ ~Waited(x) => x # Root /\ st[x] = "zombie" /\ BornTo[x] \in Procs /\ st[BornTo[x]] = "alive"
         /\ \A q \in Procs : \A a : Rose(q, a)' /\ ~Rose(q, a) =>
              \E z \in Procs : z # Root /\ st[z] = "zombie" /\ a = BornTo[z] /\ a \in Procs /\ st[a] = "alive" /\ Rose(q, z)
<1>1. CASE \E p \in Procs : Wait(p)
  <2> PICK p \in Procs : Wait(p)
    BY <1>1
  <2>1. QED BY WaitMoves
<1>2. CASE ~\E p \in Procs : Wait(p)
  <2>1. \/ \E p \in Procs : Use(p) \/ Exit(p) \/ HostWaits(p) \/ Register(p)
        \/ Announce \/ Commit \/ UNCHANGED tree
    BY <1>2 DEF TreeNext
  <2>2. QED BY <2>1, StayedPut
<1>3. QED BY <1>1, <1>2

\* A living process above a registered one is tracked.
LEMMA AliveTracked ==
  ASSUME Kernel, NEW a \in Procs, tracked[a] # "never", NEW x \in Line(a), st[x] = "alive"
  PROVE  x \in Procs /\ tracked[x] = "live"
BY EnteredUp DEF Kernel, Entered

\* No use is lost between a process waited for and its parent.
LEMMA NoGap ==
  ASSUME Kernel, TreeNext, NEW q \in Procs, NEW a \in Procs, tracked[a] # "never",
         \A m \in Line(a) \ {Root} : tracked[m] = "live" /\ Waited(m) /\ tracked[BornTo[m]] # "live" => ~Rose(q, m)
  PROVE  \A m \in Line(a) \ {Root} : tracked'[m] = "live" /\ Waited(m)' /\ tracked'[BornTo[m]] # "live" => ~Rose(q, m)'
<1> SUFFICES ASSUME NEW m \in Line(a) \ {Root}, tracked'[m] = "live", Waited(m)', tracked'[BornTo[m]] # "live", Rose(q, m)'
             PROVE  FALSE
  OBVIOUS
<1>1. m \in Procs /\ BornTo[m] \in Procs /\ BornTo[m] \in Line(a) /\ tracked[m] # "never"
  BY LineIn, Bearing, EnteredUp DEF Kernel
<1>2. tracked[m] = "live" /\ tracked[BornTo[m]] # "live"
  BY <1>1, TableMoves
<1>3. Waited(m)
  BY <1>1, <1>2, RoseMoves, AliveTracked
<1>4. Rose(q, m)
  BY <1>1, <1>3, RoseMoves DEF Waited
<1>5. QED BY <1>2, <1>3, <1>4

\* The kernel's steps keep it: use rises to the living, who are tracked.
LEMMA KernelSums ==
  ASSUME Kernel, Kernel', Probe, Sums, KernelStep
  PROVE  Sums'
<1>a. TreeNext /\ UNCHANGED disk
  BY DEF KernelStep
<1>b. Forward
  BY <1>a, Onward
<1> USE <1>a, <1>b
<1>c. /\ \A x \in Procs : Waited(x) => Waited(x)'
      /\ \A q \in Procs : \A a : Rose(q, a) => Rose(q, a)'
  BY WaitedOn
<1>d. /\ Watched' = Watched /\ Base' = Base /\ Readings' = Readings /\ InTick' = InTick
      /\ tick' = tick /\ reapWatch' = reapWatch /\ prevPIDIO' = prevPIDIO /\ reapNoted' = reapNoted /\ unread' = unread
      /\ reported' = reported /\ doubtful' = doubtful /\ negative' = negative
  BY DiskSame
<1>e. Watched \subseteq Procs /\ Base \subseteq Procs /\ Readings \subseteq Procs /\ DOMAIN unread \subseteq Procs
  BY Apart
<1>f. \A b \in Base : tracked'[b] = "live" <=> tracked[b] = "live"
  BY <1>e, TableMoves DEF Probe, NotedOnce
<1>g. \A a \in Watched \cup Base \cup DOMAIN unread : tracked[a] # "never"
  BY DEF Probe, NotedOnce, Ends
<1>h. \A a \in Watched \cup DOMAIN unread : st[a] # "alive"
  BY <1>e DEF Probe, NotedOnce, Ends, Kernel, Entered
<1>i. \A q \in Procs : used[q] \in Nat /\ used'[q] \in Nat /\ used'[q] >= used[q] /\ (st[q] # "alive" => used'[q] = used[q])
  BY DEF Forward, Kernel, TreeTypes
<1>1. /\ \A a : Acc(a)' <=> Acc(a)
      /\ \A a : Acc(a) => Bal(a)' = Bal(a)
      /\ \A a, q : Has(a, q)' <=> Has(a, q)
      /\ \A y, q : HasRead(y, q)' <=> HasRead(y, q)
  <2>1. \A y, q : HasRead(y, q)' <=> HasRead(y, q)
    BY <1>d DEF HasRead
  <2>2. QED BY <2>1, <1>d, <1>f, AccountsSame
<1>2. Accounts'
  <2> SUFFICES ASSUME NEW a \in Procs, NEW q \in Procs, Has(a, q)
    PROVE
    /\ Rose(q, a)' /\ Bal(a)'[q] <= used'[q]
    /\ \A b \in Procs : Has(b, q)' => a = b
    /\ \A x \in Line(a) : Rose(q, x)' => tracked'[x] = "live" \/ x \in Watched \/ x \in DOMAIN unread
    /\ \A m \in Line(a) \ {Root} : tracked'[m] = "live" /\ Waited(m)' /\ tracked'[BornTo[m]] # "live" => ~Rose(q, m)'
    /\ \A m \in DOMAIN unread \ {Root} : Waited(m)' /\ m \in Line(a) /\ Rose(q, m)' => BornTo[m] \in tick.snap
    /\ a \in Readings => tick.read[a][q] >= Bal(a)'[q]
    /\ \A y \in Procs : HasRead(y, q)' => y \in Line(a)
    BY <1>1, <1>d DEF Accounts
  <2>1. Bal(a)' = Bal(a) /\ tracked[a] # "never" /\ a \in Watched \cup Base
    BY <1>1, <1>g DEF Has, Acc
  <2>2. Bal(a)[q] \in Nat
    BY <2>1, Lasts DEF Bal
  <2>3. Rose(q, a)' /\ Bal(a)'[q] <= used'[q]
    <3>1. Rose(q, a) /\ Bal(a)[q] <= used[q]
      BY DEF Sums, Accounts
    <3>2. QED BY <3>1, <2>1, <2>2, <1>c, <1>i
  <2>4. ASSUME NEW x \in Line(a), Rose(q, x)'
        PROVE  tracked'[x] = "live" \/ x \in Watched \/ x \in DOMAIN unread
    <3>1. x \in Procs
      BY LineIn
    <3>2. tracked[x] = "live" \/ x \in Watched \/ x \in DOMAIN unread
      <4>1. CASE Rose(q, x)
        BY <4>1 DEF Sums, Accounts
      <4>2. CASE ~Rose(q, x)
        BY <4>2, <2>4, <2>1, RoseMoves, AliveTracked
      <4>3. QED BY <4>1, <4>2
    <3>3. QED BY <3>1, <3>2, TableMoves
  <2>5. \A m \in Line(a) \ {Root} : tracked'[m] = "live" /\ Waited(m)' /\ tracked'[BornTo[m]] # "live" => ~Rose(q, m)'
    <3>1. \A m \in Line(a) \ {Root} : tracked[m] = "live" /\ Waited(m) /\ tracked[BornTo[m]] # "live" => ~Rose(q, m)
      BY DEF Sums, Accounts
    <3>2. QED BY <3>1, <2>1, NoGap
  <2>6. ASSUME NEW m \in DOMAIN unread \ {Root}, Waited(m)', m \in Line(a), Rose(q, m)'
        PROVE  BornTo[m] \in tick.snap
    <3>1. m \in Procs /\ st[m] # "alive" /\ Rose(q, m)
      BY <2>6, <1>e, <1>h, RoseMoves
    <3>2. CASE Waited(m)
      BY <2>6, <3>1, <3>2 DEF Sums, Accounts
    <3>3. CASE ~Waited(m)
      <4>1. BornTo[m] \in Procs /\ st[BornTo[m]] = "alive" /\ BornTo[m] \in Line(a)
        BY <2>6, <3>1, <3>3, RoseMoves, LineIn
      <4>2. tracked[BornTo[m]] = "live"
        BY <4>1, <2>1, AliveTracked
      <4>3. InTick /\ tick.live \subseteq tick.snap
        BY DEF Probe, Phases, InTick, ProbeTypes
      <4>4. BornTo[m] \in tick.live
        BY <4>1, <4>2, <4>3, <2>1 DEF Probe, Snapshot
      <4>5. QED BY <4>3, <4>4
    <3>4. QED BY <3>2, <3>3
  <2>7. QED BY <1>1, <2>1, <2>3, <2>4, <2>5, <2>6 DEF Sums, Accounts
<1>3. Readouts'
  <2> SUFFICES ASSUME NEW y \in Procs, NEW q \in Procs, HasRead(y, q)
    PROVE
    /\ Rose(q, y)' /\ tick.read[y][q] <= used'[q] /\ (y # q => tick.read[y][q] = used'[q])
    /\ \A z \in Procs : HasRead(z, q)' => y = z
    /\ \A m \in Line(y) \ {Root} : tracked'[m] = "live" /\ Waited(m)' /\ tracked'[BornTo[m]] # "live" => ~Rose(q, m)'
    /\ tick.pc = "read" => \A p \in Procs : Rose(q, p)' /\ st'[p] # "gone" => p \in tick.live \ tick.todo
    /\ tick.pc = "after" => \A b \in Line(q) : y \in Line(b) /\ b # y =>
          b \notin tick.live /\ (b \in Watched => b \in tick.todo \/ reapWatch[b].reaped)
    BY <1>1, <1>d DEF Readouts
  <2>1. Rose(q, y) /\ tick.read[y][q] <= used[q] /\ (y # q => tick.read[y][q] = used[q])
    BY DEF Sums, Readouts
  <2>2. tracked[y] # "never" /\ tick.read[y][q] \in Nat
    <3>1. y \in Readings
      BY DEF HasRead
    <3>2. QED BY <3>1, Lasts, Apart
  <2>3. Rose(q, y)' /\ tick.read[y][q] <= used'[q] /\ (y # q => tick.read[y][q] = used'[q])
    <3>1. y # q => st[q] = "gone"
      BY <2>1, RoseIn DEF Waited
    <3>2. QED BY <2>1, <2>2, <3>1, <1>c, <1>i
  <2>4. \A m \in Line(y) \ {Root} : tracked'[m] = "live" /\ Waited(m)' /\ tracked'[BornTo[m]] # "live" => ~Rose(q, m)'
    <3>1. \A m \in Line(y) \ {Root} : tracked[m] = "live" /\ Waited(m) /\ tracked[BornTo[m]] # "live" => ~Rose(q, m)
      BY DEF Sums, Readouts
    <3>2. QED BY <3>1, <2>2, NoGap
  <2>5. ASSUME tick.pc = "read", NEW p \in Procs, Rose(q, p)', st'[p] # "gone"
        PROVE  p \in tick.live \ tick.todo
    <3>0. \A x \in Procs : Rose(q, x) /\ st[x] # "gone" => x \in tick.live \ tick.todo
      BY <2>5 DEF Sums, Readouts
    <3>1. CASE Rose(q, p)
      BY <3>0, <3>1, <2>5 DEF Forward
    <3>2. CASE ~Rose(q, p)
      <4>1. PICK z \in Procs : z # Root /\ st[z] = "zombie" /\ p = BornTo[z] /\ st[p] = "alive" /\ Rose(q, z)
        BY <3>2, <2>5, RoseMoves
      <4>2. z \in tick.live \ tick.todo
        BY <4>1, <3>0
      <4>3. p \notin tick.todo /\ tracked[z] = "live" /\ z \in tick.snap /\ InTick
        BY <4>1, <4>2, <2>5 DEF Probe, Phases, Snapshot, ProbeTypes, InTick
      <4>4. p \in Line(z)
        BY <4>1, LineIn
      <4>5. tracked[p] = "live"
        BY <4>1, <4>3, <4>4, AliveTracked
      <4>6. p \in tick.live
        BY <4>3, <4>4, <4>5 DEF Probe, Snapshot
      <4>7. QED BY <4>3, <4>6
    <3>3. QED BY <3>1, <3>2
  <2>6. QED BY <1>1, <2>3, <2>4, <2>5 DEF Sums, Readouts
<1>4. Climbed'
  <2> SUFFICES ASSUME tick.pc = "after", NEW x \in Procs, NEW q \in Procs, x \in Watched \cup DOMAIN unread, Rose(q, x)',
                      NEW b \in Line(q), x \in Line(b), b # x
               PROVE  b \notin tick.live /\ (b \in Watched => b \in tick.todo \/ reapWatch[b].reaped)
    BY <1>d DEF Climbed
  <2>1. Rose(q, x)
    BY <1>h, RoseMoves
  <2>2. QED BY <2>1 DEF Sums, Climbed
<1>5. Counted'
  <2>1. ASSUME NEW b, Settled(b)' PROVE Settled(b)
    <3>1. b \in Watched /\ reapWatch[b].reaped /\ b \notin tick.after /\ Waited(b)'
      BY <2>1, <1>d DEF Settled
    <3>2. b \in Procs /\ st[b] = "gone"
      BY <3>1, <1>e DEF Probe, WatchFacts
    <3>3. QED BY <3>1, <3>2, RoseMoves DEF Settled
  <2>2. QED BY <2>1, <1>d DEF Sums, Counted
<1>6. Once'
  <2> SUFFICES ASSUME NEW q \in Procs \ doubtful
               PROVE  reported[q] <= 0 \/ (\E a \in Procs : Acc(a)' /\ reported[q] <= Bal(a)'[q]) \/ (Finished(q)' /\ reported[q] <= used'[q])
    BY <1>d DEF Once
  <2>1. ASSUME Finished(q) PROVE Finished(q)'
    <3>1. PICK x \in Procs : Rose(q, x) /\ st[x] # "alive" /\ par[x] \notin Procs
      BY <2>1 DEF Finished
    <3>2. Rose(q, x)' /\ st'[x] # "alive" /\ par'[x] \notin Procs
      BY <3>1, <1>c DEF Forward
    <3>3. QED BY <3>2, <2>1, <1>d DEF Finished
  <2>2. reported[q] \in Int
    BY DEF Probe, ProbeTypes
  <2>3. QED BY <1>1, <1>i, <2>1, <2>2 DEF Sums, Once
<1>7. RemainderNotNegative'
  BY <1>d DEF Sums, RemainderNotNegative, Forward
<1>8. QED BY <1>2, <1>3, <1>4, <1>5, <1>6, <1>7 DEF Sums

\* ReadPIDIO reads it.
Readable(p) == st[p] = "alive" /\ p \notin setup.unreadable

\* What a reading changes.
LEMMA ReadStep ==
  ASSUME Kernel, Probe, NEW p \in Procs, ReadPIDIO(p), TreeSame
  PROVE  /\ tick.pc = "read" /\ p \in tick.todo /\ p \in tick.live /\ p \notin Readings /\ InTick /\ InTick'
         /\ tick'.pc = "read" /\ tick'.todo = tick.todo \ {p} /\ tick'.snap = tick.snap /\ tick'.live = tick.live /\ tick'.after = tick.after
         /\ Watched' = Watched /\ reapWatch' = reapWatch /\ Base' = Base /\ prevPIDIO' = prevPIDIO /\ unread' = unread
         /\ reported' = reported /\ doubtful' = doubtful /\ negative' = negative
         /\ \A y : y \in Readings' <=> y \in Readings \/ (y = p /\ Readable(p))
         /\ \A y \in Readings : tick'.read[y] = tick.read[y]
         /\ Readable(p) => tick'.read[p] = Total(p)
<1> DEFINE more == Over([x \in {p} |-> Total(x)], tick.read)
           read == IF st[p] = "alive" /\ p \notin setup.unreadable THEN more ELSE tick.read
<1>1. /\ tick.pc = "read" /\ p \in tick.todo
      /\ tick' = [pc |-> "read", todo |-> tick.todo \ {p}, snap |-> tick.snap, live |-> tick.live, read |-> read, after |-> tick.after]
      /\ prevPIDIO' = prevPIDIO /\ reapWatch' = reapWatch /\ reapNoted' = reapNoted /\ unread' = unread
      /\ reported' = reported /\ doubtful' = doubtful /\ negative' = negative
  BY DEF ReadPIDIO, Probe, ProbeTypes
<1>2. /\ tick'.pc = "read" /\ tick'.todo = tick.todo \ {p} /\ tick'.snap = tick.snap /\ tick'.live = tick.live
      /\ tick'.read = read /\ tick'.after = tick.after
  BY <1>1
<1>3. p \in tick.live /\ p \notin Readings
  BY <1>1 DEF Probe, Phases
<1>4. IF Readable(p)
      THEN DOMAIN read = Readings \cup {p} /\ read[p] = Total(p) /\ \A y \in Readings : read[y] = tick.read[y]
      ELSE read = tick.read
  <2>1. DOMAIN more = Readings \cup {p} /\ more[p] = Total(p) /\ \A y \in Readings \ {p} : more[y] = tick.read[y]
    BY DEF Over, Readings
  <2> HIDE DEF more
  <2>2. QED BY <1>3, <2>1 DEF Readable
<1> HIDE DEF read, more
<1>5. Watched' = Watched /\ Base' = Base /\ Readings' = DOMAIN read /\ InTick /\ InTick'
  BY <1>1, <1>2 DEF Watched, Base, Readings, InTick
<1>6. (\A y : y \in Readings' <=> y \in Readings \/ (y = p /\ Readable(p))) /\ (\A y \in Readings : read[y] = tick.read[y])
  BY <1>4, <1>5 DEF Readings
<1>7. QED BY <1>1, <1>2, <1>3, <1>4, <1>5, <1>6

\* ReadPIDIO keeps it: use in an earlier reading cannot get to this one.
LEMMA ReadSums ==
  ASSUME Kernel, Ledger, Probe, Sums, NEW p \in Procs, ReadPIDIO(p), TreeSame
  PROVE  Sums'
<1>a. /\ setup' = setup /\ st' = st /\ par' = par /\ used' = used /\ tracked' = tracked
      /\ \A x : Waited(x)' = Waited(x)
      /\ \A q, a : Rose(q, a)' = Rose(q, a)
  BY SameTree
<1>b. /\ tick.pc = "read" /\ p \in tick.todo /\ p \in tick.live /\ p \notin Readings /\ InTick /\ InTick'
      /\ tick'.pc = "read" /\ tick'.todo = tick.todo \ {p} /\ tick'.snap = tick.snap /\ tick'.live = tick.live /\ tick'.after = tick.after
      /\ Watched' = Watched /\ reapWatch' = reapWatch /\ Base' = Base /\ prevPIDIO' = prevPIDIO /\ unread' = unread
      /\ reported' = reported /\ doubtful' = doubtful /\ negative' = negative
      /\ \A y : y \in Readings' <=> y \in Readings \/ (y = p /\ Readable(p))
      /\ \A y \in Readings : tick'.read[y] = tick.read[y]
  BY ReadStep
<1>c. \A q \in Procs : Readable(p) => tick'.read[p][q] = (IF Rose(q, p) THEN used[q] ELSE 0) /\ st[p] = "alive" /\ ~Waited(p)
  BY ReadStep DEF Ledger, Readable, Waited
<1>d. \A q \in Procs : used[q] \in Nat
  BY DEF Kernel, TreeTypes
<1>e. \A y, q \in Procs : HasRead(y, q)' <=> HasRead(y, q) \/ (y = p /\ Readable(p) /\ Rose(q, p) /\ used[q] > 0)
  BY <1>b, <1>c DEF HasRead
<1>f. ASSUME NEW q \in Procs, NEW z \in Procs, HasRead(z, q), Readable(p), Rose(q, p) PROVE FALSE
  <2>1. p \in tick.live \ tick.todo
    BY <1>f, <1>b, <1>c DEF Sums, Readouts
  <2>2. QED BY <2>1, <1>b
<1>1. /\ \A a : Acc(a)' <=> Acc(a)
      /\ \A a : Acc(a) => Bal(a)' = Bal(a)
      /\ \A a, q : Has(a, q)' <=> Has(a, q)
  BY <1>a, <1>b, AccountsSame
<1>2. Accounts'
  <2> SUFFICES ASSUME NEW a \in Procs, NEW q \in Procs, Has(a, q)
    PROVE
    /\ Rose(q, a) /\ Bal(a)'[q] <= used[q]
    /\ \A b \in Procs : Has(b, q)' => a = b
    /\ \A x \in Line(a) : Rose(q, x) => tracked[x] = "live" \/ x \in Watched \/ x \in DOMAIN unread
    /\ \A m \in Line(a) \ {Root} : tracked[m] = "live" /\ Waited(m) /\ tracked[BornTo[m]] # "live" => ~Rose(q, m)
    /\ \A m \in DOMAIN unread \ {Root} : Waited(m) /\ m \in Line(a) /\ Rose(q, m) => BornTo[m] \in tick.snap
    /\ a \in Readings' => tick'.read[a][q] >= Bal(a)'[q]
    /\ \A y \in Procs : HasRead(y, q)' => y \in Line(a)
    BY <1>1, <1>a, <1>b DEF Accounts
  <2>1. Bal(a)' = Bal(a)
    BY <1>1 DEF Has
  <2>2. Rose(q, a) /\ Bal(a)[q] <= used[q]
    BY DEF Sums, Accounts
  <2>3. a \in Readings' => tick'.read[a][q] >= Bal(a)[q]
    <3>1. CASE a \in Readings
      BY <3>1, <1>b DEF Sums, Accounts
    <3>2. CASE a = p /\ Readable(p)
      <4>1. Bal(a)[q] \in Nat
        <5>1. a \in Watched \/ a \in Base
          BY DEF Has, Acc
        <5>2. QED BY <5>1, Lasts DEF Bal
      <4>2. QED BY <3>2, <4>1, <2>2, <1>c, <1>d
    <3>3. QED BY <3>1, <3>2, <1>b
  <2>4. ASSUME NEW y \in Procs, HasRead(y, q)' PROVE y \in Line(a)
    <3>1. CASE HasRead(y, q)
      BY <3>1 DEF Sums, Accounts
    <3>2. CASE y = p /\ Readable(p) /\ Rose(q, p)
      BY <3>2, <2>2, <1>c, RoseOrder, LineIn
    <3>3. QED BY <3>1, <3>2, <2>4, <1>e
  <2>5. QED BY <1>1, <2>1, <2>2, <2>3, <2>4 DEF Sums, Accounts
<1>3. Readouts'
  <2> SUFFICES ASSUME NEW y \in Procs, NEW q \in Procs, HasRead(y, q)'
    PROVE
    /\ Rose(q, y) /\ tick'.read[y][q] <= used[q] /\ (y # q => tick'.read[y][q] = used[q])
    /\ \A z \in Procs : HasRead(z, q)' => y = z
    /\ \A m \in Line(y) \ {Root} : tracked[m] = "live" /\ Waited(m) /\ tracked[BornTo[m]] # "live" => ~Rose(q, m)
    /\ \A r \in Procs : Rose(q, r) /\ st[r] # "gone" => r \in tick.live \ tick'.todo
    BY <1>a, <1>b DEF Readouts
  <2>1. CASE HasRead(y, q)
    <3>1. y \in Readings
      BY <2>1 DEF HasRead
    <3>2. \A z \in Procs : HasRead(z, q)' => HasRead(z, q)
      BY <2>1, <1>e, <1>f
    <3>3. QED BY <2>1, <3>1, <3>2, <1>b DEF Sums, Readouts
  <2>2. CASE y = p /\ Readable(p) /\ Rose(q, p)
    <3>1. tick'.read[y][q] = used[q] /\ ~Waited(p)
      BY <2>2, <1>c
    <3>2. \A z \in Procs : HasRead(z, q)' => y = z
      BY <2>2, <1>e, <1>f
    <3>3. ASSUME NEW m \in Line(p), Waited(m) PROVE ~Rose(q, m)
      BY <2>2, <3>1, <3>3, RoseIn DEF Rose
    <3>4. ASSUME NEW r \in Procs, Rose(q, r), st[r] # "gone" PROVE r = p
      BY <2>2, <3>1, <3>4, RoseOrder DEF Waited
    <3>5. QED BY <2>2, <3>1, <3>2, <3>3, <3>4, <1>b, <1>d
  <2>3. QED BY <2>1, <2>2, <1>e
<1>4. Climbed'
  BY <1>b DEF Climbed
<1>5. Counted'
  <2> SUFFICES ASSUME NEW a \in Watched, NEW y \in Readings', NEW q \in Procs, y \in Line(a), reapWatch[a].last[q] > 0,
                      \A b \in Line(a) : y \in Line(b) /\ b # y => Settled(b)'
               PROVE  tick'.read[y][q] >= reapWatch[a].last[q]
    BY <1>b DEF Counted
  <2>1. \A b : Settled(b)' => Settled(b)
    BY <1>a, <1>b DEF Settled
  <2>2. CASE y \in Readings
    BY <2>1, <2>2, <1>b DEF Sums, Counted
  <2>3. CASE y = p /\ Readable(p)
    <3>0. a \in Procs
      BY Apart
    <3>1. Has(a, q) /\ Bal(a) = reapWatch[a].last
      BY DEF Has, Acc, Bal
    <3>2. Rose(q, a) /\ reapWatch[a].last[q] <= used[q]
      BY <3>0, <3>1 DEF Sums, Accounts
    <3>3. Rose(a, p)
      BY <2>1, <2>3 DEF Rose, Settled
    <3>4. Rose(q, p)
      BY <3>2, <3>3, RoseTrans
    <3>5. QED BY <2>3, <3>2, <3>4, <1>c
  <2>4. QED BY <2>2, <2>3, <1>b
<1>6. Once'
  <2> SUFFICES ASSUME NEW q \in Procs \ doubtful
               PROVE  reported[q] <= 0 \/ (\E a \in Procs : Acc(a)' /\ reported[q] <= Bal(a)'[q]) \/ (Finished(q)' /\ reported[q] <= used[q])
    BY <1>a, <1>b DEF Once
  <2>1. ASSUME Finished(q) PROVE Finished(q)'
    <3>1. PICK x \in Procs : Rose(q, x) /\ st[x] # "alive" /\ par[x] \notin Procs
      BY <2>1 DEF Finished
    <3>2. Readable(p) => ~Rose(q, p)
      BY <3>1, <1>c, RoseOrder DEF Waited
    <3>3. \A y \in Readings' : tick'.read[y][q] = 0
      BY <2>1, <3>2, <1>b, <1>c DEF Finished
    <3>4. QED BY <3>1, <3>3, <1>a DEF Finished
  <2>2. QED BY <1>1, <2>1 DEF Sums, Once
<1>7. RemainderNotNegative'
  BY <1>a, <1>b DEF Sums, RemainderNotNegative
<1>8. QED BY <1>2, <1>3, <1>4, <1>5, <1>6, <1>7 DEF Sums

\* Poll keeps it: a baseline becomes a watch with the same amounts.
LEMMA PollSums ==
  ASSUME Kernel, Probe, Sums, Poll, UNCHANGED tree
  PROVE  Sums'
<1>a. /\ setup' = setup /\ st' = st /\ par' = par /\ used' = used
      /\ \A r \in Procs : tracked'[r] = IF r \in Found THEN "ended" ELSE tracked[r]
      /\ \A x : Waited(x)' = Waited(x)
      /\ \A q, a : Rose(q, a)' = Rose(q, a)
  BY PollStep
<1>b. /\ tick.pc = "read" /\ InTick /\ InTick'
      /\ \A x \in Found : x \in tick.live /\ x \notin Watched
      /\ \A x : x \in Watched' <=> x \in Watched \/ (x \in Found /\ x \in Base)
      /\ \A k \in Watched : reapWatch'[k] = reapWatch[k]
      /\ \A x : x \in DOMAIN unread' <=> x \in Found /\ x \notin Base
      /\ \A x : x \in Base' <=> x \in Base /\ x \in tick.snap
      /\ \A x \in Base' : prevPIDIO'[x] = prevPIDIO[x]
      /\ tick'.pc = "after" /\ tick'.snap = tick.snap /\ tick'.after = tick.after
      /\ \A x : x \in tick'.todo <=> x \in Watched' /\ ~(x \in Watched /\ reapWatch[x].reaped)
      /\ \A x : x \in tick'.live <=> x \in tick.live /\ x \notin Found
      /\ \A x : x \in Readings' <=> x \in Readings /\ x \notin Found
      /\ \A y \in Readings' : tick'.read[y] = tick.read[y]
      /\ reported' = reported /\ doubtful' = doubtful /\ negative' = negative
  BY PollStep
<1>c. \A k : k \in Found /\ k \in Base => reapWatch'[k].last = prevPIDIO[k].s /\ reapWatch'[k].reaped = FALSE
  <2> SUFFICES ASSUME NEW k, k \in Found /\ k \in Base
               PROVE  reapWatch'[k].last = prevPIDIO[k].s /\ reapWatch'[k].reaped = FALSE
    OBVIOUS
  <2> DEFINE w == reapWatch'[k]
  <2>1. w = [parent |-> under[k], last |-> prevPIDIO[k].s, reaped |-> FALSE, autoreaped |-> FALSE, root |-> prevPIDIO[k].root]
    BY PollStep
  <2> HIDE DEF w
  <2>2. w.last = prevPIDIO[k].s /\ w.reaped = FALSE
    BY <2>1
  <2>3. QED BY <2>2 DEF w
<1>d. /\ DOMAIN unread = {} /\ tick.live \subseteq tick.snap /\ tick.snap \subseteq Procs /\ Watched \subseteq Procs /\ Base \subseteq Procs
      /\ \A x : x \in tick.live => tracked[x] = "live" /\ x \notin Watched
      /\ Readings \subseteq tick.live
  <2>1. DOMAIN unread = {} /\ tick.live \subseteq tick.snap /\ tick.snap \subseteq Procs
    BY <1>b DEF Probe, Phases, ProbeTypes
  <2>2. QED BY <2>1, Apart
<1>e. \A x : x \in Found <=> x \in tick.live /\ st[x] # "alive"
  BY DEF Found
\* What is tracked under an account or a reading is in the tick.
<1>f. ASSUME NEW a \in Base \cup Watched \cup tick.snap, NEW x \in Line(a), tracked[x] = "live"
      PROVE  x \in Procs /\ x \in tick.live
  <2>1. a \in Procs
    BY <1>d
  <2>2. x \in Procs
    BY <2>1, LineIn
  <2>3. QED BY <1>f, <1>b, <2>1, <2>2 DEF Probe, Snapshot
<1>g. ASSUME NEW a \in Base \cup Watched \cup tick.snap, NEW m \in Line(a), tracked'[m] = "live", Waited(m)
      PROVE  FALSE
  <2>1. m \in Procs
    BY <1>d, LineIn
  <2>2. tracked[m] = "live" /\ m \notin Found /\ st[m] = "gone"
    BY <2>1, <1>g, <1>a DEF Waited
  <2>3. QED BY <2>2, <1>e, <1>f
<1>h. ASSUME NEW b, Waited(b)
      PROVE  b \notin tick'.live /\ (b \in Watched' => b \in tick'.todo \/ reapWatch'[b].reaped)
  <2>1. st[b] = "gone"
    BY <1>h DEF Waited
  <2>2. b \notin tick'.live
    BY <2>1, <1>b, <1>e
  <2>3. QED BY <2>2, <1>b
<1>1. /\ \A a : Acc(a)' <=> Acc(a)
      /\ \A a : Acc(a) => Bal(a)' = Bal(a)
  <2>1. \A a : a \in Base /\ tracked[a] = "live" => a \in tick.live /\ a \in tick.snap
    BY <1>d, <1>f, LineIn
  <2>2. \A a : Acc(a)' <=> Acc(a)
    <3> SUFFICES ASSUME NEW a PROVE Acc(a)' <=> Acc(a)
      OBVIOUS
    <3>1. Acc(a)' <=> a \in Watched' \/ (a \in Base' /\ tracked'[a] = "live")
      BY DEF Acc
    <3>2. Acc(a) <=> a \in Watched \/ (a \in Base /\ tracked[a] = "live")
      BY DEF Acc
    <3>3. a \in Base => (tracked'[a] = "live" <=> tracked[a] = "live" /\ a \notin Found)
      BY <1>a, <1>d
    <3>4. a \in Found => tracked[a] = "live"
      BY <1>b, <1>d
    <3>5. QED BY <3>1, <3>2, <3>3, <3>4, <2>1, <1>b
  <2>3. ASSUME NEW a, Acc(a) PROVE Bal(a)' = Bal(a)
    <3>1. CASE a \in Watched
      BY <3>1, <1>b DEF Bal
    <3>2. CASE a \notin Watched /\ a \in Found
      BY <3>2, <2>3, <1>b, <1>c DEF Bal, Acc
    <3>3. CASE a \notin Watched /\ a \notin Found
      <4>1. a \notin Watched' /\ a \in Base'
        BY <3>3, <2>3, <2>1, <1>b DEF Acc
      <4>2. QED BY <4>1, <3>3, <1>b DEF Bal
    <3>4. QED BY <3>1, <3>2, <3>3
  <2>4. QED BY <2>2, <2>3
<1>2. /\ \A a, q : Has(a, q)' <=> Has(a, q)
      /\ \A y, q : HasRead(y, q)' <=> HasRead(y, q) /\ y \notin Found
  BY <1>1, <1>b DEF Has, HasRead
<1>3. Accounts'
  <2> SUFFICES ASSUME NEW a \in Procs, NEW q \in Procs, Has(a, q)
    PROVE
    /\ Rose(q, a) /\ Bal(a)'[q] <= used[q]
    /\ \A b \in Procs : Has(b, q)' => a = b
    /\ \A x \in Line(a) : Rose(q, x) => tracked'[x] = "live" \/ x \in Watched' \/ x \in DOMAIN unread'
    /\ \A m \in Line(a) \ {Root} : tracked'[m] = "live" /\ Waited(m) /\ tracked'[BornTo[m]] # "live" => ~Rose(q, m)
    /\ \A m \in DOMAIN unread' \ {Root} : Waited(m) /\ m \in Line(a) /\ Rose(q, m) => BornTo[m] \in tick.snap
    /\ a \in Readings' => tick'.read[a][q] >= Bal(a)'[q]
    /\ \A y \in Procs : HasRead(y, q)' => y \in Line(a)
    BY <1>2, <1>a, <1>b DEF Accounts
  <2>1. Bal(a)' = Bal(a) /\ a \in Base \cup Watched
    BY <1>1 DEF Has, Acc
  <2>2. ASSUME NEW x \in Line(a), Rose(q, x) PROVE tracked'[x] = "live" \/ x \in Watched' \/ x \in DOMAIN unread'
    <3>1. tracked[x] = "live" \/ x \in Watched
      BY <2>2, <1>d DEF Sums, Accounts
    <3>2. x \in Procs
      BY LineIn
    <3>3. QED BY <3>1, <3>2, <1>a, <1>b
  <2>3. \A m \in Line(a) \ {Root} : tracked'[m] = "live" /\ Waited(m) /\ tracked'[BornTo[m]] # "live" => ~Rose(q, m)
    BY <2>1, <1>g
  <2>4. ASSUME NEW m \in DOMAIN unread' \ {Root}, Waited(m), m \in Line(a), Rose(q, m)
        PROVE  BornTo[m] \in tick.snap
    <3>1. tracked[m] = "live"
      BY <1>b, <1>d
    <3>2. tracked[BornTo[m]] = "live"
      BY <2>4, <3>1 DEF Sums, Accounts
    <3>3. BornTo[m] \in Line(a)
      BY <2>4, LineIn
    <3>4. QED BY <3>2, <3>3, <2>1, <1>f, <1>d
  <2>5. a \in Readings' => tick'.read[a][q] >= Bal(a)'[q]
    BY <2>1, <1>b DEF Sums, Accounts
  <2>6. QED BY <1>2, <2>1, <2>2, <2>3, <2>4, <2>5 DEF Sums, Accounts
<1>4. Readouts'
  <2> SUFFICES ASSUME NEW y \in Procs, NEW q \in Procs, HasRead(y, q), y \notin Found
    PROVE
    /\ Rose(q, y) /\ tick'.read[y][q] <= used[q] /\ (y # q => tick'.read[y][q] = used[q])
    /\ \A z \in Procs : HasRead(z, q)' => y = z
    /\ \A m \in Line(y) \ {Root} : tracked'[m] = "live" /\ Waited(m) /\ tracked'[BornTo[m]] # "live" => ~Rose(q, m)
    /\ \A b \in Line(q) : y \in Line(b) /\ b # y =>
          b \notin tick'.live /\ (b \in Watched' => b \in tick'.todo \/ reapWatch'[b].reaped)
    BY <1>2, <1>a, <1>b DEF Readouts
  <2>1. y \in Readings /\ y \in Readings' /\ y \in tick.snap
    BY <1>b, <1>d DEF HasRead
  <2>2. \A m \in Line(y) \ {Root} : tracked'[m] = "live" /\ Waited(m) /\ tracked'[BornTo[m]] # "live" => ~Rose(q, m)
    BY <2>1, <1>g
  <2>3. /\ Rose(q, y) /\ tick.read[y][q] <= used[q] /\ (y # q => tick.read[y][q] = used[q])
        /\ \A z \in Procs : HasRead(z, q) => y = z
    BY DEF Sums, Readouts
  <2>4. ASSUME NEW b \in Line(q), y \in Line(b), b # y
        PROVE  b \notin tick'.live /\ (b \in Watched' => b \in tick'.todo \/ reapWatch'[b].reaped)
    BY <2>3, <2>4, <1>h DEF Rose
  <2>5. QED BY <2>1, <2>2, <2>3, <2>4, <1>2, <1>b
<1>5. Climbed'
  <2> SUFFICES ASSUME NEW x \in Procs, NEW q \in Procs, Rose(q, x), NEW b \in Line(q), x \in Line(b), b # x
               PROVE  b \notin tick'.live /\ (b \in Watched' => b \in tick'.todo \/ reapWatch'[b].reaped)
    BY <1>a DEF Climbed
  <2>1. QED BY <1>h DEF Rose
<1>6. Counted'
  <2> SUFFICES ASSUME NEW a \in Watched', NEW y \in Readings', NEW q \in Procs, y \in Line(a), reapWatch'[a].last[q] > 0,
                      \A b \in Line(a) : y \in Line(b) /\ b # y => Settled(b)'
               PROVE  tick'.read[y][q] >= reapWatch'[a].last[q]
    BY DEF Counted
  <2>1. \A b : Settled(b)' => Settled(b)
    <3> SUFFICES ASSUME NEW b, Settled(b)' PROVE Settled(b)
      OBVIOUS
    <3>1. b \in Watched' /\ reapWatch'[b].reaped /\ b \notin tick.after /\ Waited(b)
      BY <1>a, <1>b DEF Settled
    <3>2. b \in Watched
      BY <3>1, <1>b, <1>c
    <3>3. QED BY <3>1, <3>2, <1>b DEF Settled
  <2>2. a \in Procs /\ y # a
    BY <1>b, <1>d
  <2>3. a \in Watched
    BY <2>1, <2>2, LineIn DEF Settled
  <2>4. QED BY <2>1, <2>3, <1>b DEF Sums, Counted
<1>7. Once'
  <2> SUFFICES ASSUME NEW q \in Procs \ doubtful
               PROVE  reported[q] <= 0 \/ (\E a \in Procs : Acc(a)' /\ reported[q] <= Bal(a)'[q]) \/ (Finished(q)' /\ reported[q] <= used[q])
    BY <1>a, <1>b DEF Once
  <2>1. Finished(q) => Finished(q)'
    BY <1>a, <1>b DEF Finished
  <2>2. QED BY <1>1, <2>1 DEF Sums, Once
<1>8. RemainderNotNegative'
  BY <1>a, <1>b DEF Sums, RemainderNotNegative
<1>9. QED BY <1>3, <1>4, <1>5, <1>6, <1>7, <1>8 DEF Sums

---------------------------------------------------------------------------
(* The accounts at the end of a tick.                                     *)

\* The account of what a sample reads.
LEMMA SampleOf ==
  ASSUME Kernel, Probe, Sums, NEW p \in Sampled, NEW q \in Procs
  PROVE  /\ p \in Taken /\ p \in Readings /\ p \in tick.live /\ p \in Procs /\ tick.read[p][q] \in Nat
         /\ (\A a \in Procs : ~Has(a, q)) => Sample(p)[q] = tick.read[p][q]
         /\ \A a \in Procs : Has(a, q) /\ a \notin Watched => Sample(p)[q] = tick.read[p][q] - (IF p = a THEN Bal(a)[q] ELSE 0)
         /\ \A a \in Watched : Has(a, q) => Sample(p)[q] = tick.read[p][q] - (IF a \in Takings(p) THEN reapWatch[a].last[q] ELSE 0)
<1>1. p \in Taken /\ p \in Base /\ p \in Readings /\ p \in tick.live /\ p \in Procs /\ p \notin Watched /\ tracked[p] = "live"
  BY Apart DEF Sampled, Taken
<1>2. tick.read[p][q] \in Nat /\ prevPIDIO[p].s[q] \in Nat /\ \A k \in Watched : k \in Procs /\ reapWatch[k].last[q] \in Nat
  BY <1>1, Lasts, Apart
<1>3. Bal(p) = prevPIDIO[p].s /\ (prevPIDIO[p].s[q] > 0 <=> Has(p, q))
  BY <1>1 DEF Has, Acc, Bal
<1>4. \A k \in Watched : Bal(k) = reapWatch[k].last /\ (reapWatch[k].last[q] > 0 <=> Has(k, q))
  BY DEF Has, Acc, Bal
<1>5. \A a, b \in Procs : Has(a, q) /\ Has(b, q) => a = b
  BY DEF Sums, Accounts
<1>6. \A z : (\A k \in Watched \ {z} : reapWatch[k].last[q] = 0) =>
              Sample(p)[q] = tick.read[p][q] - prevPIDIO[p].s[q] - (IF z \in Takings(p) THEN reapWatch[z].last[q] ELSE 0)
  BY SampleIs
<1>7. ASSUME \A a \in Procs : ~Has(a, q) PROVE Sample(p)[q] = tick.read[p][q]
  <2>1. prevPIDIO[p].s[q] = 0 /\ \A k \in Watched \ {p} : reapWatch[k].last[q] = 0
    BY <1>7, <1>1, <1>2, <1>3, <1>4
  <2>2. p \notin Takings(p)
    BY <1>1 DEF Takings
  <2>3. QED BY <2>1, <2>2, <1>2, <1>6
<1>8. ASSUME NEW a \in Procs, Has(a, q), a \notin Watched
      PROVE  Sample(p)[q] = tick.read[p][q] - (IF p = a THEN Bal(a)[q] ELSE 0)
  <2>1. \A k \in Watched \ {p} : reapWatch[k].last[q] = 0
    BY <1>8, <1>2, <1>4, <1>5
  <2>2. prevPIDIO[p].s[q] = IF p = a THEN Bal(a)[q] ELSE 0
    BY <1>8, <1>1, <1>2, <1>3, <1>5
  <2>3. p \notin Takings(p)
    BY <1>1 DEF Takings
  <2>4. QED BY <2>1, <2>2, <2>3, <1>2, <1>6
<1>9. ASSUME NEW a \in Watched, Has(a, q)
      PROVE  Sample(p)[q] = tick.read[p][q] - (IF a \in Takings(p) THEN reapWatch[a].last[q] ELSE 0)
  <2>1. \A k \in Watched \ {a} : reapWatch[k].last[q] = 0
    BY <1>9, <1>2, <1>4, <1>5
  <2>2. prevPIDIO[p].s[q] = 0
    BY <1>9, <1>1, <1>2, <1>3, <1>5
  <2>3. QED BY <2>1, <2>2, <1>2, <1>6
<1>10. QED BY <1>1, <1>2, <1>7, <1>8, <1>9

\* What a sample subtracts is in its reading, when no wait folds into nobody.
LEMMA TakenCovers ==
  ASSUME Kernel, Probe, Counted, Settling, setup.ignores = {}, NEW p \in Taken, NEW a \in Takings(p), NEW q \in Procs,
         reapWatch[a].last[q] > 0
  PROVE  tick.read[p][q] >= reapWatch[a].last[q]
<1>1. a \in Watched /\ Resolution[a].kind = "At" /\ Resolution[a].anchor = p /\ ~Resolution[a].ambiguous /\ ~Resolution[a].unsure /\ p \in Readings
  BY DEF Takings, Taken, IsAt
<1>2. Anchored(a, p) /\ InTick
  BY <1>1, AnchorChain DEF Settling, InTick
<1>3. ASSUME NEW b \in Line(a), p \in Line(b), b # p PROVE Settled(b)
  <2>1. /\ b \in Watched /\ reapWatch[b].reaped /\ b # Root /\ b \notin tick.after /\ p \in tick.live
        /\ BornTo[b] = p \/ Reaper(b) = "Parent"
    BY <1>1, <1>2, <1>3 DEF Anchored
  <2>2. b \in Procs /\ st[b] = "gone"
    BY <2>1, Apart DEF Probe, WatchFacts
  <2>3. CASE BornTo[b] = p
    <3>1. Waited(b)
      BY <2>1, <2>3, <1>2 DEF Probe, WatchFacts, Settling
    <3>2. QED BY <2>1, <3>1 DEF Settled
  <2>4. CASE Reaper(b) = "Parent"
    <3>1. b \notin noted /\ setup.reaper
      BY <2>4 DEF Reaper, WhoReaped
    <3>2. par[b] # Host
      BY <2>1, <2>2, <3>1 DEF Probe, WatchFacts
    <3>3. par[b] \in Procs
      BY <2>2, <3>1, <3>2 DEF Kernel, Parents, TreeTypes
    <3>4. QED BY <2>1, <2>2, <3>3 DEF Settled, Waited
  <2>5. QED BY <2>1, <2>3, <2>4
<1>4. p \in Line(a)
  BY <1>2 DEF Anchored
<1>5. QED BY <1>1, <1>2, <1>3, <1>4 DEF Counted

\* Along an account's line of which no link is missing, what use has reached is tracked.
LEMMA LiveUp ==
  ASSUME NEW q \in Procs, NEW a \in Procs, a \in Line(q), tracked[a] = "live",
         \A m \in Line(a) \ {Root} : tracked[m] = "live" /\ Waited(m) /\ tracked[BornTo[m]] # "live" => ~Rose(q, m)
  PROVE  \A x \in Line(a) : Rose(q, x) => tracked[x] = "live"
<1> DEFINE S == {m \in Line(a) : Rose(q, m) => tracked[m] = "live"}
<1>1. a \in S /\ S \subseteq Procs
  BY LineIn
<1>2. ASSUME NEW m \in S \ {Root} PROVE BornTo[m] \in S
  <2>1. m \in Procs /\ m \in Line(a) /\ BornTo[m] \in Line(a) /\ BornTo[m] \in Line(m) /\ BornTo[m] # m /\ m \in Line(q)
    BY <1>1, LineIn, Bearing
  <2>2. ASSUME Rose(q, BornTo[m]) PROVE tracked[BornTo[m]] = "live"
    <3>1. Rose(q, m) /\ Waited(m)
      BY <2>1, <2>2, RoseUnder DEF Rose
    <3>2. tracked[m] = "live"
      BY <3>1
    <3>3. QED BY <2>1, <3>1, <3>2
  <2>3. QED BY <2>1, <2>2
<1>3. Line(a) \subseteq S
  BY <1>1, <1>2, LineWithin DEF Closed
<1>4. QED BY <1>3

\* What the end of a tick leaves as accounts.
LEMMA NewAccounts ==
  ASSUME Kernel, Probe, Sums, EndTick, UNCHANGED <<tree, tracked, under>>
  PROVE  \A a, q \in Procs :
           /\ Acc(a)' <=> (a \in Watched /\ Stays(a)) \/ a \in Taken \/ (a \in Base /\ tracked[a] = "live")
           /\ a \in Watched /\ Stays(a) => Bal(a)' = reapWatch[a].last /\ Bal(a) = reapWatch[a].last
           /\ a \in Taken => Bal(a)' = tick.read[a] /\ a \in Readings /\ a \notin Watched /\ tracked[a] = "live"
           /\ a \in Base /\ tracked[a] = "live" /\ a \notin Taken => Bal(a)' = Bal(a) /\ a \notin Watched
<1> SUFFICES ASSUME NEW a \in Procs
    PROVE  /\ Acc(a)' <=> (a \in Watched /\ Stays(a)) \/ a \in Taken \/ (a \in Base /\ tracked[a] = "live")
           /\ a \in Watched /\ Stays(a) => Bal(a)' = reapWatch[a].last /\ Bal(a) = reapWatch[a].last
           /\ a \in Taken => Bal(a)' = tick.read[a] /\ a \in Readings /\ a \notin Watched /\ tracked[a] = "live"
           /\ a \in Base /\ tracked[a] = "live" /\ a \notin Taken => Bal(a)' = Bal(a) /\ a \notin Watched
  OBVIOUS
<1>1. /\ tracked' = tracked
      /\ \A x : x \in Watched' <=> x \in Watched /\ Stays(x)
      /\ \A x \in Watched' : reapWatch'[x] = reapWatch[x]
      /\ \A x : x \in Base' <=> x \in Base \/ x \in Taken
      /\ \A x \in Base' : prevPIDIO'[x].s = IF x \in Taken THEN tick.read[x] ELSE prevPIDIO[x].s
  BY EndTickStep
<1>2. a \in Taken => a \in Readings /\ a \in tick.live
  BY Apart DEF Taken
<1>3. tracked[a] = "live" => a \notin Watched
  BY DEF Probe, NotedOnce, Ends
<1>4. a \in tick.live => tracked[a] = "live"
  BY Apart
<1>5. QED BY <1>1, <1>2, <1>3, <1>4 DEF Acc, Bal

\* An account at the end of a tick is one kept, or a reading taken.
LEMMA KeptOrTaken ==
  ASSUME Kernel, Probe, Sums, EndTick, UNCHANGED <<tree, tracked, under>>, NEW a \in Procs, NEW q \in Procs, Has(a, q)'
  PROVE  \/ a \in Watched /\ Stays(a) /\ Has(a, q) /\ Bal(a)' = Bal(a)
         \/ a \in Taken /\ HasRead(a, q) /\ Bal(a)' = tick.read[a] /\ tracked[a] = "live"
         \/ a \notin Watched /\ a \notin Taken /\ Has(a, q) /\ Bal(a)' = Bal(a) /\ tracked[a] = "live"
<1>1. Acc(a)' /\ Bal(a)'[q] > 0
  BY DEF Has
<1>2. CASE a \in Watched /\ Stays(a)
  BY <1>1, <1>2, NewAccounts DEF Has, Acc
<1>3. CASE a \in Taken
  BY <1>1, <1>3, NewAccounts DEF HasRead
<1>4. CASE a \in Base /\ tracked[a] = "live" /\ a \notin Taken
  BY <1>1, <1>4, NewAccounts DEF Has, Acc
<1>5. QED BY <1>1, <1>2, <1>3, <1>4, NewAccounts

\* One account has q after the tick: a reading taken ends the watch it has in it.
LEMMA EndTickAccounts ==
  ASSUME Kernel, Probe, Sums, EndTick, UNCHANGED <<tree, tracked, under>>
  PROVE  Accounts'
<1>0. Settling
  BY EndTickStep DEF Settling
<1>1. /\ used' = used /\ tracked' = tracked /\ DOMAIN unread' = {} /\ Readings' = {}
      /\ \A x : Waited(x)' = Waited(x)
      /\ \A q, a : Rose(q, a)' = Rose(q, a)
      /\ \A x : x \in Watched' <=> x \in Watched /\ Stays(x)
  BY EndTickStep
<1>2. \A y, q : ~HasRead(y, q)'
  BY <1>1 DEF HasRead
<1> SUFFICES ASSUME NEW a \in Procs, NEW q \in Procs, Has(a, q)'
    PROVE
    /\ Rose(q, a) /\ Bal(a)'[q] <= used[q]
    /\ \A b \in Procs : Has(b, q)' => a = b
    /\ \A x \in Line(a) : Rose(q, x) => tracked[x] = "live" \/ x \in Watched'
    /\ \A m \in Line(a) \ {Root} : tracked[m] = "live" /\ Waited(m) /\ tracked[BornTo[m]] # "live" => ~Rose(q, m)
  BY <1>1, <1>2 DEF Accounts
<1>3. Has(a, q) => /\ Rose(q, a) /\ Bal(a)[q] <= used[q]
                   /\ \A b \in Procs : Has(b, q) => a = b
                   /\ \A x \in Line(a) : Rose(q, x) => tracked[x] = "live" \/ x \in Watched \/ x \in DOMAIN unread
                   /\ \A m \in Line(a) \ {Root} : tracked[m] = "live" /\ Waited(m) /\ tracked[BornTo[m]] # "live" => ~Rose(q, m)
  BY DEF Sums, Accounts
<1>4. HasRead(a, q) => /\ Rose(q, a) /\ tick.read[a][q] <= used[q]
                       /\ \A b \in Procs : HasRead(b, q) => a = b
                       /\ \A m \in Line(a) \ {Root} : tracked[m] = "live" /\ Waited(m) /\ tracked[BornTo[m]] # "live" => ~Rose(q, m)
  BY DEF Sums, Readouts
<1>5. \/ a \in Watched /\ Stays(a) /\ Has(a, q) /\ Bal(a)' = Bal(a)
      \/ a \in Taken /\ HasRead(a, q) /\ Bal(a)' = tick.read[a] /\ tracked[a] = "live"
      \/ a \notin Watched /\ a \notin Taken /\ Has(a, q) /\ Bal(a)' = Bal(a) /\ tracked[a] = "live"
  BY KeptOrTaken
\* An account kept and a reading taken are not of the same use.
<1>6. ASSUME NEW x \in Procs, NEW y \in Procs, Has(x, q), (x \in Watched /\ Stays(x)) \/ (x \notin Watched /\ x \notin Taken),
             y \in Taken, HasRead(y, q)
      PROVE  FALSE
  <2>1. CASE x \in Watched /\ Stays(x)
    <3>1. (IsAt(x, y) /\ Resolution[x].autoreaped = FALSE) \/ (Resolution[x].kind = "Drop" /\ Broken(x))
      BY <1>0, <1>6, <2>1, ReadAbove DEF Sums
    <3>2. QED BY <3>1, <1>6, <2>1 DEF Stays, IsAt
  <2>2. CASE x \notin Watched /\ x \notin Taken
    BY <1>0, <1>6, <2>2, ReadLive DEF Sums
  <2>3. QED BY <1>6, <2>1, <2>2
<1>7. Rose(q, a) /\ Bal(a)'[q] <= used[q]
  BY <1>3, <1>4, <1>5
<1>8. ASSUME NEW b \in Procs, Has(b, q)' PROVE a = b
  <2>1. \/ b \in Watched /\ Stays(b) /\ Has(b, q)
        \/ b \in Taken /\ HasRead(b, q)
        \/ b \notin Watched /\ b \notin Taken /\ Has(b, q)
    BY <1>8, KeptOrTaken
  <2>2. QED BY <2>1, <1>3, <1>4, <1>5, <1>6
<1>9. \A m \in Line(a) \ {Root} : tracked[m] = "live" /\ Waited(m) /\ tracked[BornTo[m]] # "live" => ~Rose(q, m)
  BY <1>3, <1>4, <1>5
<1>10. ASSUME NEW x \in Line(a), Rose(q, x) PROVE tracked[x] = "live" \/ x \in Watched'
  <2>1. CASE a \in Watched /\ Stays(a) /\ Has(a, q)
    <3>1. tracked[x] = "live" \/ x \in Watched \/ x \in DOMAIN unread
      BY <2>1, <1>3, <1>10
    <3>2. ~(x \in DOMAIN unread \/ (x \in Watched /\ ~Stays(x)))
      BY <2>1, <1>0, <1>10, OverAbove DEF Sums
    <3>3. QED BY <3>1, <3>2, <1>1
  <2>2. CASE tracked[a] = "live"
    <3>1. a \in Line(q)
      BY <1>7, RoseIn
    <3>2. QED BY <3>1, <2>2, <1>9, <1>10, LiveUp
  <2>3. QED BY <2>1, <2>2, <1>5
<1>11. QED BY <1>7, <1>8, <1>9, <1>10

\* No remainder is negative: a watch is taken out of a reading it is in.
LEMMA EndTickRemainder ==
  ASSUME Kernel, Probe, Sums, EndTick, UNCHANGED <<tree, tracked, under>>
  PROVE  RemainderNotNegative'
<1>0. Settling /\ setup' = setup /\ negative' = (negative \/ \E p \in Sampled, q \in Procs : Sample(p)[q] < 0)
  BY EndTickStep DEF Settling
<1>a. setup.ignores = {} => ~negative
  BY DEF Sums, RemainderNotNegative
<1>b. ASSUME setup.ignores = {}, NEW p \in Sampled, NEW q \in Procs PROVE ~(Sample(p)[q] < 0)
  <2>2a. p \in Taken /\ p \in Readings /\ p \in Procs /\ tick.read[p][q] \in Nat
    BY SampleOf
  <2>2. CASE \A a \in Procs : ~Has(a, q)
    BY <2>2a, <2>2, SampleOf
  <2>3. CASE \E a \in Procs : Has(a, q) /\ a \notin Watched
    <3> PICK a \in Procs : Has(a, q) /\ a \notin Watched
      BY <2>3
    <3>1. Sample(p)[q] = tick.read[p][q] - (IF p = a THEN Bal(a)[q] ELSE 0)
      BY SampleOf
    <3>2. a \in Readings => tick.read[a][q] >= Bal(a)[q]
      BY DEF Sums, Accounts
    <3>3. Bal(a)[q] \in Nat
      BY Lasts DEF Has, Acc, Bal
    <3>4. QED BY <3>1, <3>2, <3>3, <2>2a
  <2>4. CASE \E a \in Procs : Has(a, q) /\ a \in Watched
    <3> PICK a \in Procs : Has(a, q) /\ a \in Watched
      BY <2>4
    <3>1. Sample(p)[q] = tick.read[p][q] - (IF a \in Takings(p) THEN reapWatch[a].last[q] ELSE 0)
      BY SampleOf
    <3>2. reapWatch[a].last[q] \in Nat /\ reapWatch[a].last[q] > 0
      BY Lasts DEF Has, Bal
    <3>3. a \in Takings(p) => tick.read[p][q] >= reapWatch[a].last[q]
      BY <3>2, <1>0, <1>b, <2>2a, TakenCovers DEF Sums
    <3>4. QED BY <3>1, <3>2, <3>3, <2>2a
  <2>5. QED BY <2>2, <2>3, <2>4
<1>c. QED BY <1>0, <1>a, <1>b, Zenon DEF RemainderNotNegative

\* What the tick reports of q is what its account grows by, less what was reported before.
LEMMA EndTickOnce ==
  ASSUME Kernel, Probe, Sums, EndTick, UNCHANGED <<tree, tracked, under>>
  PROVE  Once'
<1>0. Settling
  BY EndTickStep DEF Settling
<1>1. /\ st' = st /\ par' = par /\ used' = used /\ Readings' = {}
      /\ \A q, a : Rose(q, a)' = Rose(q, a)
      /\ \A q \in Procs : q \in doubtful' <=> q \in doubtful \/ \E k \in Watched : Doubted(k) /\ reapWatch[k].last[q] > 0
      /\ \A q \in Procs : \A z : (\A p \in Sampled \ {z} : Sample(p)[q] = 0) =>
           reported'[q] = reported[q] + IF z \in Sampled THEN Sample(z)[q] ELSE 0
  BY EndTickStep
<1>n. \A a, q \in Procs :
           /\ Acc(a)' <=> (a \in Watched /\ Stays(a)) \/ a \in Taken \/ (a \in Base /\ tracked[a] = "live")
           /\ a \in Watched /\ Stays(a) => Bal(a)' = reapWatch[a].last /\ Bal(a) = reapWatch[a].last
           /\ a \in Taken => Bal(a)' = tick.read[a] /\ a \in Readings /\ a \notin Watched /\ tracked[a] = "live"
           /\ a \in Base /\ tracked[a] = "live" /\ a \notin Taken => Bal(a)' = Bal(a) /\ a \notin Watched
  BY NewAccounts
<1> SUFFICES ASSUME NEW q \in Procs, q \notin doubtful'
             PROVE  reported'[q] <= 0 \/ (\E a \in Procs : Acc(a)' /\ reported'[q] <= Bal(a)'[q]) \/ (Finished(q)' /\ reported'[q] <= used[q])
  BY <1>1 DEF Once
<1>2. q \notin doubtful /\ \A k \in Watched : Doubted(k) => ~(reapWatch[k].last[q] > 0)
  BY <1>1
<1>3. /\ reported[q] \in Int /\ used[q] \in Nat
      /\ \A p \in Readings : p \in Procs /\ tick.read[p][q] \in Nat
      /\ \A p \in Watched : p \in Procs /\ reapWatch[p].last[q] \in Nat
      /\ \A p \in Sampled : p \in Taken /\ p \in Base /\ p \in Readings /\ p \in Procs
      /\ \A p \in Taken : p \in Readings
  BY Lasts, Apart DEF Probe, ProbeTypes, Kernel, TreeTypes, Sampled, Taken
<1>4. Finished(q) => Finished(q)'
  BY <1>1 DEF Finished
<1>5. reported[q] <= 0 \/ (\E a \in Procs : Acc(a) /\ reported[q] <= Bal(a)[q]) \/ (Finished(q) /\ reported[q] <= used[q])
  BY <1>2 DEF Sums, Once
<1>6. \A y \in Procs : HasRead(y, q) => ~Finished(q)
  BY <1>3 DEF HasRead, Finished
<1>7. /\ \A y, z \in Procs : HasRead(y, q) /\ HasRead(z, q) => y = z
      /\ \A p \in Readings : ~HasRead(p, q) => tick.read[p][q] = 0
  BY <1>3 DEF HasRead, Sums, Readouts
<1>8. \A a, b \in Procs : Has(a, q) /\ Has(b, q) => a = b
  BY DEF Sums, Accounts
<1>9. \A a \in Procs : Acc(a) => Bal(a)[q] \in Nat
  BY Lasts DEF Acc, Bal
\* Nothing accounts for its use so far.
<1>10. CASE \A a \in Procs : ~Has(a, q)
  <2>1. \A p \in Sampled : Sample(p)[q] = tick.read[p][q]
    BY <1>10, SampleOf
  <2>2. reported[q] <= 0 \/ (Finished(q) /\ reported[q] <= used[q])
    BY <1>5, <1>9, <1>10, <1>3 DEF Has
  <2>3. CASE \A y \in Procs : ~HasRead(y, q)
    <3>1. \A p \in Sampled : Sample(p)[q] = 0
      BY <2>1, <2>3, <1>3, <1>7
    <3>2. reported'[q] = reported[q]
      <4>1. reported'[q] = reported[q] + IF q \in Sampled THEN Sample(q)[q] ELSE 0
        BY <3>1, <1>1
      <4>2. QED BY <4>1, <3>1, <1>3
    <3>3. QED BY <3>2, <2>2, <1>4
  <2>4. CASE \E y \in Procs : HasRead(y, q)
    <3> PICK y \in Procs : HasRead(y, q)
      BY <2>4
    <3>1. reported[q] <= 0
      BY <2>2, <1>6
    <3>2. \A p \in Sampled \ {y} : Sample(p)[q] = 0
      BY <2>1, <1>3, <1>7
    <3>3. reported'[q] = reported[q] + IF y \in Sampled THEN tick.read[y][q] ELSE 0
      BY <3>2, <2>1, <1>1
    <3>4. CASE y \in Sampled
      <4>1. Acc(y)' /\ Bal(y)'[q] = tick.read[y][q] /\ tick.read[y][q] \in Nat
        BY <3>4, <1>n, <1>3
      <4>2. reported'[q] <= tick.read[y][q]
        BY <3>1, <3>3, <3>4, <4>1, <1>3
      <4>3. QED BY <4>1, <4>2
    <3>5. CASE y \notin Sampled
      BY <3>1, <3>3, <3>5, <1>3
    <3>6. QED BY <3>4, <3>5
  <2>5. QED BY <2>3, <2>4
\* The baseline of one that is followed does.
<1>11. CASE \E a \in Procs : Has(a, q) /\ a \notin Watched
  <2> PICK a \in Procs : Has(a, q) /\ a \notin Watched
    BY <1>11
  <2>1. a \in Base /\ tracked[a] = "live" /\ Bal(a)[q] \in Nat /\ Bal(a)[q] > 0
    BY <1>9 DEF Has, Acc
  <2>2. \A p \in Sampled : Sample(p)[q] = tick.read[p][q] - (IF p = a THEN Bal(a)[q] ELSE 0)
    BY SampleOf
  <2>3. \A y \in Procs : HasRead(y, q) => y = a
    BY <1>0, ReadLive DEF Sums
  <2>4. \A p \in Sampled \ {a} : Sample(p)[q] = 0
    BY <2>2, <2>3, <1>3, <1>7
  <2>5. reported'[q] = reported[q] + IF a \in Sampled THEN tick.read[a][q] - Bal(a)[q] ELSE 0
    BY <2>2, <2>4, <1>1
  <2>6. reported[q] <= Bal(a)[q] \/ (Finished(q) /\ reported[q] <= used[q])
    <3>1. \A b \in Procs : Acc(b) /\ reported[q] <= Bal(b)[q] => reported[q] <= Bal(a)[q]
      BY <2>1, <1>3, <1>8, <1>9 DEF Has
    <3>2. QED BY <3>1, <2>1, <1>3, <1>5
  <2>7. CASE a \in Sampled
    <3>1. Acc(a)' /\ Bal(a)'[q] = tick.read[a][q] /\ tick.read[a][q] \in Nat /\ a \in Readings
      BY <2>7, <1>n, <1>3
    <3>2. tick.read[a][q] >= Bal(a)[q]
      BY <3>1 DEF Sums, Accounts
    <3>3. ~Finished(q)
      BY <3>1, <3>2, <2>1, <1>3 DEF Finished
    <3>4. reported'[q] <= tick.read[a][q]
      BY <3>1, <3>3, <2>1, <2>5, <2>6, <2>7, <1>3
    <3>5. QED BY <3>1, <3>4
  <2>8. CASE a \notin Sampled
    <3>1. a \notin Taken
      BY <2>1, <2>8 DEF Sampled
    <3>2. Acc(a)' /\ Bal(a)' = Bal(a)
      BY <3>1, <2>1, <1>n
    <3>3. reported'[q] = reported[q]
      BY <2>5, <2>8, <1>3
    <3>4. QED BY <3>2, <3>3, <2>6, <1>4
  <2>9. QED BY <2>7, <2>8
\* The last reading of one that is watched does.
<1>12. CASE \E a \in Procs : Has(a, q) /\ a \in Watched
  <2> PICK a \in Procs : Has(a, q) /\ a \in Watched
    BY <1>12
  <2> DEFINE last == reapWatch[a].last[q]
  <2>1. Bal(a) = reapWatch[a].last /\ last \in Nat /\ last > 0 /\ last <= used[q] /\ ~Doubted(a)
    <3>1. Bal(a) = reapWatch[a].last /\ last > 0
      BY DEF Bal, Has
    <3>2. Bal(a)[q] <= used[q]
      BY DEF Sums, Accounts
    <3>3. QED BY <3>1, <3>2, <1>2, <1>3
  <2>a. ~Broken(a)
    BY <2>1 DEF Doubted
  <2>2. \A p \in Sampled : Sample(p)[q] = tick.read[p][q] - (IF a \in Takings(p) THEN last ELSE 0)
    BY SampleOf
  <2>3. \A b \in Procs : Acc(b) /\ reported[q] <= Bal(b)[q] => reported[q] <= last
    <3> SUFFICES ASSUME NEW b \in Procs, Acc(b), reported[q] <= Bal(b)[q] PROVE reported[q] <= last
      OBVIOUS
    <3>1. CASE Has(b, q)
      BY <3>1, <2>1, <1>8
    <3>2. CASE ~Has(b, q)
      BY <3>2, <2>1, <1>3, <1>9 DEF Has
    <3>3. QED BY <3>1, <3>2
  <2>b. \A p : a \in Takings(p) => p = Resolution[a].anchor
    BY DEF Takings, IsAt
  <2> HIDE DEF last
  <2>4. reported[q] <= last \/ (Finished(q) /\ reported[q] <= used[q])
    BY <2>1, <2>3, <1>3, <1>5
  <2>5. CASE \A y \in Procs : ~HasRead(y, q)
    <3> DEFINE z == Resolution[a].anchor
    <3>1. \A p \in Sampled : Sample(p)[q] = IF a \in Takings(p) THEN 0 - last ELSE 0
      BY <2>1, <2>2, <2>5, <1>3, <1>7
    <3>2. \A p \in Sampled \ {z} : Sample(p)[q] = 0
      BY <3>1, <2>b
    <3>3. reported'[q] = reported[q] + IF z \in Sampled THEN Sample(z)[q] ELSE 0
      BY <3>2, <1>1
    <3> HIDE DEF z
    <3>4. reported'[q] \in Int /\ reported'[q] <= reported[q]
      BY <3>1, <3>3, <2>1, <1>3
    <3>5. CASE Finished(q) /\ reported[q] <= used[q]
      BY <3>4, <3>5, <1>3, <1>4
    <3>6. CASE reported[q] <= last /\ Stays(a)
      <4>1. Acc(a)' /\ Bal(a)'[q] = last
        BY <3>6, <1>n DEF last
      <4>2. QED BY <4>1, <3>4, <3>6, <2>1, <1>3
    <3>7. CASE reported[q] <= last /\ ~Stays(a)
      <4>1. Finished(q)
        BY <3>7, <2>5, <2>a, <1>0, Unfinished DEF Sums
      <4>2. QED BY <4>1, <3>4, <3>7, <2>1, <1>3, <1>4
    <3>8. QED BY <3>5, <3>6, <3>7, <2>4
  <2>6. CASE \E y \in Procs : HasRead(y, q)
    <3> PICK y \in Procs : HasRead(y, q)
      BY <2>6
    <3>1. y # q /\ IsAt(a, y) /\ Resolution[a].autoreaped = FALSE
      BY <2>a, <1>0, ReadAbove DEF Sums
    <3>2. reported[q] <= last
      BY <2>4, <1>6
    <3>3. tick.read[y][q] = used[q] /\ y \in Readings
      BY <3>1 DEF Sums, Readouts, HasRead
    <3>4. \A p \in Sampled \ {y} : Sample(p)[q] = 0
      <4> SUFFICES ASSUME NEW p \in Sampled \ {y} PROVE Sample(p)[q] = 0
        OBVIOUS
      <4>1. tick.read[p][q] = 0
        BY <1>3, <1>7
      <4>2. a \notin Takings(p)
        BY <3>1, <2>b DEF IsAt
      <4>3. QED BY <4>1, <4>2, <2>2
    <3>5. reported'[q] = reported[q] + IF y \in Sampled THEN Sample(y)[q] ELSE 0
      BY <3>4, <1>1
    <3>6. CASE y \notin Taken
      <4>1. Stays(a)
        BY <3>1, <3>6 DEF Stays, IsAt
      <4>2. Acc(a)' /\ Bal(a)'[q] = last
        BY <4>1, <1>n DEF last
      <4>3. reported'[q] = reported[q]
        BY <3>5, <3>6, <1>3 DEF Sampled
      <4>4. QED BY <4>2, <4>3, <3>2
    <3>7. CASE y \in Taken /\ y \notin Sampled
      <4>1. Acc(y)' /\ Bal(y)'[q] = used[q]
        BY <3>3, <3>7, <1>n
      <4>2. reported'[q] <= used[q]
        BY <3>2, <3>5, <3>7, <2>1, <1>3
      <4>3. QED BY <4>1, <4>2
    <3>8. CASE y \in Sampled
      <4>1. y \in Taken /\ Acc(y)' /\ Bal(y)'[q] = used[q]
        BY <3>3, <3>8, <1>3, <1>n
      <4>2. ~Resolution[a].ambiguous
        BY <3>1, <3>8, <2>1 DEF Doubted, IsAt
      <4>3. a \in Takings(y)
        BY <3>1, <4>2 DEF Takings
      <4>4. Sample(y)[q] = used[q] - last
        BY <4>3, <3>3, <3>8, <2>2
      <4>5. reported'[q] <= used[q]
        BY <4>4, <3>2, <3>5, <3>8, <2>1, <1>3
      <4>6. QED BY <4>1, <4>5
    <3>9. QED BY <3>6, <3>7, <3>8
  <2>7. QED BY <2>5, <2>6
<1>13. QED BY <1>10, <1>11, <1>12

\* EndTick keeps it.
LEMMA EndTickSums ==
  ASSUME Kernel, Probe, Sums, EndTick, UNCHANGED <<tree, tracked, under>>
  PROVE  Sums'
<1>1. Readings' = {} /\ ~InTick'
  BY EndTickStep
<1>2. Readouts' /\ Climbed' /\ Counted'
  BY <1>1 DEF Readouts, HasRead, Climbed, Counted, InTick
<1>3. QED BY <1>2, EndTickAccounts, EndTickOnce, EndTickRemainder DEF Sums

---------------------------------------------------------------------------
(* The theorems.                                                          *)

\* The inductive invariant.
IndInv == Kernel /\ Ledger /\ Probe /\ Sums

\* It holds at the start.
LEMMA IndInvInit ==
  ASSUME DiskInit
  PROVE  IndInv
BY Kernel0, Ledger0, Probe0, Sums0 DEF IndInv, Kernel

\* The probe's steps keep it ...
LEMMA ProbeStep ==
  ASSUME IndInv,
         \/ SampleThread /\ UNCHANGED <<tree, table>>
         \/ (Poll \/ Stop) /\ UNCHANGED tree
         \/ EndTick /\ UNCHANGED <<tree, tracked, under>>
  PROVE  IndInv'
<1> USE DEF IndInv
<1>1. \A p \in tick.live : p \in Procs /\ tracked[p] = "live"
  BY Apart
<1>2. Kernel'
  BY <1>1, ProbeKernel
<1>3. Ledger'
  <2>1. UNCHANGED tree
    BY DEF tree
  <2>2. QED BY <1>2, <2>1, LedgerKept
<1>4. Probe' /\ Sums'
  <2>1. CASE SampleThread /\ UNCHANGED <<tree, table>>
    <3>1. TreeSame
      BY <2>1 DEF TreeSame
    <3>2. CASE BeginTick
      BY <3>1, <3>2, BeginTickProbe, BeginTickSums
    <3>3. CASE TakeSnapshot
      BY <3>1, <3>3, TakeSnapshotProbe, TakeSnapshotSums
    <3>4. CASE \E p \in Procs : Look(p)
      <4> PICK p \in Procs : Look(p)
        BY <3>4
      <4>1. QED BY <3>1, LookProbe, LookSums
    <3>5. CASE \E p \in Procs : ReadPIDIO(p)
      <4> PICK p \in Procs : ReadPIDIO(p)
        BY <3>5
      <4>1. QED BY <3>1, ReadProbe, ReadSums
    <3>6. QED BY <2>1, <3>2, <3>3, <3>4, <3>5 DEF SampleThread
  <2>2. CASE Poll /\ UNCHANGED tree
    BY <2>2, PollProbe, PollSums
  <2>3. CASE Stop /\ UNCHANGED tree
    BY <2>3, StopProbe, StopSums
  <2>4. CASE EndTick /\ UNCHANGED <<tree, tracked, under>>
    BY <2>4, EndTickProbe, EndTickSums
  <2>5. QED BY <2>1, <2>2, <2>3, <2>4
<1>5. QED BY <1>2, <1>3, <1>4

\* ... and so do the kernel's.
LEMMA TreeStep ==
  ASSUME IndInv, KernelStep
  PROVE  IndInv'
<1> USE DEF IndInv
<1>1. TreeNext /\ UNCHANGED disk
  BY DEF KernelStep
<1>2. Kernel'
  BY <1>1, UseKernel, ExitKernel, WaitKernel, HostWaitsKernel, RegisterKernel, FlushKernel DEF TreeNext
<1>3. Ledger'
  BY <1>1, <1>2, LedgerKept
<1>4. QED BY <1>1, <1>2, <1>3, KernelProbe, KernelSums

\* Every step keeps it.
LEMMA IndInvStep ==
  ASSUME IndInv, [DiskNext]_<<tree, table, disk>>
  PROVE  IndInv'
<1>1. CASE UNCHANGED <<tree, table, disk>>
  <2>1. st' = st /\ par' = par /\ used' = used /\ held' = held /\ setup' = setup /\ tracked' = tracked /\ under' = under /\ noted' = noted
    BY <1>1 DEF tree, table
  <2>2. /\ prevPIDIO' = prevPIDIO /\ reapWatch' = reapWatch /\ reapNoted' = reapNoted /\ unread' = unread
        /\ tick' = tick /\ reported' = reported /\ doubtful' = doubtful /\ negative' = negative
    BY <1>1 DEF disk
  <2>3. Kernel'
    BY <2>1 DEF IndInv, Kernel, TreeTypes, Parents, Entered
  <2>4. /\ \A x : Waited(x)' = Waited(x)
        /\ \A q, a : Rose(q, a)' = Rose(q, a)
        /\ \A x : Settled(x)' = Settled(x)
        /\ \A q : Finished(q)' = Finished(q)
    BY <2>1, <2>2 DEF Waited, Rose, Settled, Finished, Watched, Readings
  <2>5. Ledger'
    BY <2>1, <2>3, LedgerKept DEF IndInv, tree
  <2>6. Probe'
    BY <2>1, <2>2, <2>4 DEF IndInv, Probe, ProbeTypes, Phases, Snapshot, NotedOnce, WatchFacts, Watched, Base, Readings, InTick, Ends
  <2>7. /\ \A a : Acc(a)' = Acc(a)
        /\ \A a : Bal(a)' = Bal(a)
        /\ \A a, q : Has(a, q)' = Has(a, q) /\ HasRead(a, q)' = HasRead(a, q)
    BY <2>1, <2>2 DEF Acc, Bal, Has, HasRead, Watched, Base, Readings
  <2>8. Sums'
    <3>1. Accounts'
      BY <2>1, <2>2, <2>4, <2>7 DEF IndInv, Sums, Accounts, Watched, Readings
    <3>2. Readouts' /\ Climbed'
      BY <2>1, <2>2, <2>4, <2>7 DEF IndInv, Sums, Readouts, Climbed, Watched
    <3>3. Counted' /\ Once' /\ RemainderNotNegative'
      BY <2>1, <2>2, <2>4, <2>7 DEF IndInv, Sums, Counted, Once, RemainderNotNegative, Watched, Readings, InTick
    <3>4. QED BY <3>1, <3>2, <3>3 DEF Sums
  <2>9. QED BY <2>3, <2>5, <2>6, <2>8 DEF IndInv
<1>2. CASE DiskNext
  BY <1>2, ProbeStep, TreeStep DEF DiskNext, KernelStep
<1>3. QED BY <1>1, <1>2

\* The inductive invariant holds throughout.
THEOREM Invariance == DiskSpec => []IndInv
<1>1. DiskInit => IndInv
  BY IndInvInit
<1>2. IndInv /\ [DiskNext]_<<tree, table, disk>> => IndInv'
  BY IndInvStep
<1>3. QED BY <1>1, <1>2, PTL DEF DiskSpec

\* What it says of the two properties.
LEMMA IndInvGives ==
  ASSUME IndInv
  PROVE  NoDoubleCount /\ RemainderNotNegative
<1>1. ASSUME NEW q \in Procs \ doubtful PROVE reported[q] <= used[q]
  <2>1. reported[q] \in Int /\ used[q] \in Nat
    BY DEF IndInv, Probe, ProbeTypes, Kernel, TreeTypes
  <2>2. ASSUME NEW a \in Procs, Acc(a), reported[q] <= Bal(a)[q] PROVE reported[q] <= used[q]
    <3>1. Bal(a)[q] \in Nat
      BY <2>2, Lasts DEF IndInv, Acc, Bal
    <3>2. Has(a, q) => Bal(a)[q] <= used[q]
      BY DEF IndInv, Sums, Accounts
    <3>3. QED BY <2>1, <2>2, <3>1, <3>2 DEF Has
  <2>3. QED BY <2>1, <2>2 DEF IndInv, Sums, Once
<1>2. QED BY <1>1 DEF IndInv, Sums, NoDoubleCount

\* No unit of I/O is in two samples, unless a record says that it may be: the claim
\* disk_metrics.proto makes for what EndTick reports, whatever the setup and the tree
\* below the one listed root (Tree; two listed roots may break it, as the README says).
THEOREM NoDoubleCountCorrect == DiskSpec => []NoDoubleCount
BY Invariance, IndInvGives, PTL

\* While no process ignores SIGCHLD, no sample's remainder is negative: what EndTick
\* takes out of a reading is in it.
THEOREM RemainderNotNegativeCorrect == DiskSpec => []RemainderNotNegative
BY Invariance, IndInvGives, PTL

\* What a process used is at one place, with the process it has risen to, until it is gone.
THEOREM LedgerCorrect == DiskSpec => []Ledger
<1>1. IndInv => Ledger
  BY DEF IndInv
<1>2. QED BY <1>1, Invariance, PTL

\* The tree's, the table's and the probe's variables keep their types.
THEOREM TypeCorrect == DiskSpec => [](TreeTypes /\ ProbeTypes)
<1>1. IndInv => TreeTypes /\ ProbeTypes
  BY DEF IndInv, Kernel, Probe
<1>2. QED BY <1>1, Invariance, PTL
=============================================================================
