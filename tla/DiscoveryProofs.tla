--------------------------- MODULE DiscoveryProofs ---------------------------
(***************************************************************************)
(* Proofs about Discovery, for any set of processes, of numbers and of     *)
(* setups: every variable keeps its type, only the children of what is     *)
(* followed are, and only adopted orphans are waited for.                  *)
(*                                                                         *)
(* The argument has two halves.  The kernel's tree: two processes never    *)
(* have one number, a process that exists has a living parent, and the     *)
(* host's own children stay its own.  And what the scan thread's table may *)
(* say of it: an entry pins a process that had the entry's number.         *)
(***************************************************************************)
EXTENDS Discovery, SequenceTheorems, TLAPS

Numbers == Pids \cup {HostPid}
Parents == Procs \cup {Host, Outside, None}
Process == [st : {"unborn", "alive", "zombie", "gone"}, pid : Numbers, par : Parents, born : Parents]
Op      == [remove : BOOLEAN, pid : Numbers, descend : BOOLEAN]
Entry   == [proc : Procs \cup {Host}, root : BOOLEAN, scan : BOOLEAN, rec : BOOLEAN,
            first : Numbers, own : BOOLEAN]

---------------------------------------------------------------------------
(* The kernel's tree.                                                      *)

Typed == proc \in [Procs -> Process]

Tree ==
  /\ \A p \in Procs : Exists(p) => proc[p].pid \in Pids /\ proc[p].par \in Procs \cup {Host, Outside}
  /\ \A p, q \in Procs : Exists(p) /\ Exists(q) /\ proc[p].pid = proc[q].pid => p = q
  /\ \A p \in Procs : Exists(p) /\ proc[p].par \in Procs => proc[proc[p].par].st = "alive" /\ proc[p].par # p
  /\ \A p \in Procs : proc[p].born = Host => proc[p].par \in {Host, None}

\* What a step may do to a process: it lives once, with one number, and its
\* first parent is history.
LivesOn ==
  \A p \in Procs : proc[p].st # "unborn" =>
    /\ proc'[p].st # "unborn" /\ proc'[p].born = proc[p].born
    /\ Exists(p)' => Exists(p) /\ proc'[p].pid = proc[p].pid
    /\ proc'[p].st = "alive" => proc[p].st = "alive"

LEMMA Names ==
  /\ Host \notin Procs /\ Outside \notin Procs /\ None \notin Procs
  /\ Host # Outside /\ Host # None /\ Outside # None
  /\ HostPid \notin Pids /\ OutsidePid \notin Pids /\ OutsidePid # HostPid
BY ProcsAssumption, PidsAreNumbers, PidsAreFinite DEF Host, Outside, None, HostPid

LEMMA OwnerOf ==
  ASSUME NEW n
  PROVE  /\ n = HostPid => Owner(n) = Host
         /\ n # HostPid => \/ Owner(n) = None /\ \A p \in Procs : Exists(p) => proc[p].pid # n
                           \/ Owner(n) \in Procs /\ Exists(Owner(n)) /\ proc[Owner(n)].pid = n
<1>1. CASE n # HostPid /\ \E p \in Procs : Exists(p) /\ proc[p].pid = n
  <2>1. Owner(n) = CHOOSE p \in Procs : Exists(p) /\ proc[p].pid = n
    BY <1>1 DEF Owner
  <2> DEFINE Has(p) == p \in Procs /\ Exists(p) /\ proc[p].pid = n
  <2>2. \E p : Has(p)
    BY <1>1
  <2>3. Has(CHOOSE p : Has(p))
    BY <2>2
  <2>4. Owner(n) = CHOOSE p : Has(p)
    BY <2>1
  <2>. QED  BY <1>1, <2>3, <2>4
<1>2. CASE n # HostPid /\ ~\E p \in Procs : Exists(p) /\ proc[p].pid = n
  BY <1>2 DEF Owner
<1>3. CASE n = HostPid
  BY <1>3 DEF Owner
<1>. QED  BY <1>1, <1>2, <1>3

\* fork()
LEMMA ForkTree ==
  ASSUME Typed, Tree, NEW p \in Procs \cup {Host, Outside}, NEW c \in Procs, NEW n \in Pids, Fork(p, c, n)
  PROVE  Typed' /\ Tree' /\ LivesOn
<1> DEFINE child == [st |-> "alive", pid |-> n, par |-> p, born |-> p]
<1>1. /\ proc' = [proc EXCEPT ![c] = child] /\ proc[c].st = "unborn"
      /\ Alive(p) \/ p = Outside
  BY DEF Fork
<1>2. child \in Process
  BY DEF Process, Numbers, Parents
<1>3. Typed'
  BY <1>1, <1>2 DEF Typed
<1>4. proc'[c] = child /\ \A q \in Procs : q # c => proc'[q] = proc[q]
  BY <1>1 DEF Typed
<1>5. \A q \in Procs : Exists(q) => proc[q].pid # n
  <2>1. Owner(n) = None
    BY DEF Fork, NumberFree
  <2>. QED  BY <2>1, OwnerOf, Names
<1>6. proc'[c].st = "alive" /\ proc'[c].pid = n /\ proc'[c].par = p /\ proc'[c].born = p
  BY <1>4
<1> HIDE DEF child
<1>7. ~Exists(c) /\ \A q \in Procs : Exists(q)' <=> q = c \/ Exists(q)
  BY <1>1, <1>4, <1>6 DEF Exists
<1>8. p \in Procs => proc[p].st = "alive" /\ p # c
  BY <1>1, Names DEF Alive
<1>9. LivesOn
  BY <1>1, <1>4, <1>7 DEF LivesOn
<1>10. Tree'
  <2>1. \A q \in Procs : Exists(q)' => proc'[q].pid \in Pids /\ proc'[q].par \in Procs \cup {Host, Outside}
    BY <1>4, <1>6, <1>7 DEF Tree
  <2>2. \A q, r \in Procs : Exists(q)' /\ Exists(r)' /\ proc'[q].pid = proc'[r].pid => q = r
    BY <1>4, <1>5, <1>6, <1>7 DEF Tree
  <2>3. \A q \in Procs : Exists(q)' /\ proc'[q].par \in Procs => proc'[proc'[q].par].st = "alive" /\ proc'[q].par # q
    <3>. SUFFICES ASSUME NEW q \in Procs, Exists(q)', proc'[q].par \in Procs
                  PROVE  proc'[proc'[q].par].st = "alive" /\ proc'[q].par # q
      OBVIOUS
    <3>1. CASE q = c
      BY <1>4, <1>6, <1>8, <3>1
    <3>2. CASE q # c
      BY <1>4, <1>6, <1>7, <3>2 DEF Tree
    <3>. QED  BY <3>1, <3>2
  <2>4. \A q \in Procs : proc'[q].born = Host => proc'[q].par \in {Host, None}
    BY <1>4, <1>6 DEF Tree
  <2>. QED  BY <2>1, <2>2, <2>3, <2>4 DEF Tree
<1>. QED  BY <1>3, <1>9, <1>10

\* A process that is waited for is gone.
LEMMA ReapTreeStep ==
  ASSUME Typed, Tree, NEW p \in Procs, proc[p].st = "zombie", Reap(p)
  PROVE  Typed' /\ Tree' /\ LivesOn /\ proc'[p].st = "gone"
<1>1. proc' = [proc EXCEPT ![p] = [@ EXCEPT !.st = "gone", !.pid = HostPid, !.par = None]]
  BY DEF Reap, Gone
<1>2. proc[p] \in Process
  BY DEF Typed
<1>3. /\ proc'[p].st = "gone" /\ proc'[p].pid = HostPid /\ proc'[p].par = None /\ proc'[p].born = proc[p].born
      /\ proc'[p] \in Process
  BY <1>1, <1>2 DEF Typed, Process, Numbers, Parents
<1>4. \A q \in Procs : q # p => proc'[q] = proc[q]
  BY <1>1 DEF Typed
<1>5. Typed'
  BY <1>1, <1>3, <1>4 DEF Typed
<1>6. ~Exists(p)' /\ \A q \in Procs : q # p => (Exists(q)' <=> Exists(q))
  BY <1>3, <1>4 DEF Exists
<1>7. LivesOn
  BY <1>3, <1>4, <1>6 DEF LivesOn
<1>8. Tree'
  <2>1. \A q \in Procs : Exists(q)' => proc'[q].pid \in Pids /\ proc'[q].par \in Procs \cup {Host, Outside}
    BY <1>4, <1>6 DEF Tree
  <2>2. \A q, r \in Procs : Exists(q)' /\ Exists(r)' /\ proc'[q].pid = proc'[r].pid => q = r
    BY <1>4, <1>6 DEF Tree
  <2>3. \A q \in Procs : Exists(q)' /\ proc'[q].par \in Procs => proc'[proc'[q].par].st = "alive" /\ proc'[q].par # q
    BY <1>4, <1>6 DEF Tree
  <2>4. \A q \in Procs : proc'[q].born = Host => proc'[q].par \in {Host, None}
    BY <1>3, <1>4 DEF Tree
  <2>. QED  BY <2>1, <2>2, <2>3, <2>4 DEF Tree
<1>. QED  BY <1>3, <1>5, <1>7, <1>8

\* exit(): whatever the heir is.
LEMMA ExitTree ==
  ASSUME Typed, Tree, NEW p \in Procs, Exit(p)
  PROVE  Typed' /\ Tree' /\ LivesOn
<1>1. PICK heir \in {Host, Outside} :
        proc' = [q \in Procs |->
                   IF q = p
                   THEN IF proc[p].par = Outside THEN Gone(proc[p]) ELSE [proc[p] EXCEPT !.st = "zombie"]
                   ELSE IF proc[q].par = p
                        THEN IF proc[q].st = "zombie" /\ heir = Outside THEN Gone(proc[q])
                             ELSE [proc[q] EXCEPT !.par = heir]
                        ELSE proc[q]]
  <2> DEFINE To == IF subreaper /\ UnderHost[p] THEN Host ELSE Outside
  <2>1. To \in {Host, Outside}
    OBVIOUS
  <2>2. proc' = [q \in Procs |->
                   IF q = p
                   THEN IF proc[p].par = Outside THEN Gone(proc[p]) ELSE [proc[p] EXCEPT !.st = "zombie"]
                   ELSE IF proc[q].par = p
                        THEN IF proc[q].st = "zombie" /\ To = Outside THEN Gone(proc[q])
                             ELSE [proc[q] EXCEPT !.par = To]
                        ELSE proc[q]]
    BY DEF Exit
  <2> HIDE DEF To
  <2>. QED  BY <2>1, <2>2
<1>2. \A q \in Procs : /\ proc[q] \in Process
                       /\ Gone(proc[q]) \in Process /\ Gone(proc[q]).st = "gone" /\ Gone(proc[q]).par = None
                       /\ Gone(proc[q]).born = proc[q].born
                       /\ [proc[q] EXCEPT !.st = "zombie"] \in Process /\ [proc[q] EXCEPT !.par = heir] \in Process
  BY DEF Typed, Process, Numbers, Parents, Gone
<1>3. Typed'
  BY <1>1, <1>2 DEF Typed
<1>4. p \notin {Host, Outside, None} /\ proc[p].st = "alive"
  BY Names DEF Exit, Alive
\* p itself: a zombie, or gone at once.
<1>5. \/ /\ proc'[p].st = "zombie" /\ proc'[p].pid = proc[p].pid
         /\ proc'[p].par = proc[p].par /\ proc'[p].born = proc[p].born
      \/ proc'[p].st = "gone" /\ proc'[p].born = proc[p].born /\ proc'[p].par = None
  <2>1. proc'[p] = Gone(proc[p]) \/ proc'[p] = [proc[p] EXCEPT !.st = "zombie"]
    BY <1>1
  <2>. QED  BY <2>1, <1>2 DEF Process
\* Its children.
<1>6. \A q \in Procs : q # p /\ proc[q].par = p =>
        /\ proc'[q].born = proc[q].born
        /\ \/ proc'[q].st = proc[q].st /\ proc'[q].pid = proc[q].pid /\ proc'[q].par = heir
           \/ proc[q].st = "zombie" /\ proc'[q].st = "gone" /\ proc'[q].par = None
  <2>. SUFFICES ASSUME NEW q \in Procs, q # p, proc[q].par = p
                PROVE  /\ proc'[q].born = proc[q].born
                       /\ \/ proc'[q].st = proc[q].st /\ proc'[q].pid = proc[q].pid /\ proc'[q].par = heir
                          \/ proc[q].st = "zombie" /\ proc'[q].st = "gone" /\ proc'[q].par = None
    OBVIOUS
  <2>1. (proc[q].st = "zombie" /\ proc'[q] = Gone(proc[q])) \/ proc'[q] = [proc[q] EXCEPT !.par = heir]
    BY <1>1
  <2>. QED  BY <2>1, <1>2 DEF Process
<1>7. \A q \in Procs : q # p /\ proc[q].par # p => proc'[q] = proc[q]
  BY <1>1
<1>8. \A q \in Procs : Exists(q)' => Exists(q) /\ proc'[q].pid = proc[q].pid
  BY <1>4, <1>5, <1>6, <1>7 DEF Exists
<1>9. \A q \in Procs : /\ proc'[q].born = proc[q].born
                       /\ proc'[q].st = "alive" => q # p /\ proc[q].st = "alive"
                       /\ proc[q].st = "alive" /\ q # p => proc'[q].st = "alive"
                       /\ proc[q].st # "unborn" => proc'[q].st # "unborn"
  BY <1>4, <1>5, <1>6, <1>7
<1>10. LivesOn
  BY <1>8, <1>9 DEF LivesOn
\* What exists has the parent it had, or the heir.
<1>11. \A q \in Procs : Exists(q)' => \/ proc'[q].par = heir
                                      \/ proc'[q].par = proc[q].par /\ (q # p => proc[q].par # p)
  BY <1>5, <1>6, <1>7 DEF Exists
<1>12. Tree'
  <2>1. \A q \in Procs : Exists(q)' => proc'[q].pid \in Pids /\ proc'[q].par \in Procs \cup {Host, Outside}
    BY <1>8, <1>11 DEF Tree
  <2>2. \A q, r \in Procs : Exists(q)' /\ Exists(r)' /\ proc'[q].pid = proc'[r].pid => q = r
    BY <1>8 DEF Tree
  <2>3. \A q \in Procs : Exists(q)' /\ proc'[q].par \in Procs => proc'[proc'[q].par].st = "alive" /\ proc'[q].par # q
    <3>. SUFFICES ASSUME NEW q \in Procs, Exists(q)', proc'[q].par \in Procs
                  PROVE  proc'[proc'[q].par].st = "alive" /\ proc'[q].par # q
      OBVIOUS
    <3>1. Exists(q) /\ proc'[q].par = proc[q].par /\ (q # p => proc[q].par # p)
      BY <1>8, <1>11, Names
    <3>2. proc[proc[q].par].st = "alive" /\ proc[q].par # q
      BY <3>1 DEF Tree
    <3>3. proc[q].par # p
      BY <3>1, <3>2
    <3>. QED  BY <1>9, <3>1, <3>2, <3>3
  <2>4. \A q \in Procs : proc'[q].born = Host => proc'[q].par \in {Host, None}
    <3>. SUFFICES ASSUME NEW q \in Procs, proc'[q].born = Host
                  PROVE  proc'[q].par \in {Host, None}
      OBVIOUS
    <3>1. proc[q].par \in {Host, None}
      BY <1>9 DEF Tree
    <3>2. proc[q].par # p
      BY <1>4, <3>1
    <3>. QED  BY <1>5, <1>7, <3>1, <3>2
  <2>. QED  BY <2>1, <2>2, <2>3, <2>4 DEF Tree
<1>. QED  BY <1>3, <1>10, <1>12

\* The tree while no process moves.
LEMMA StillTree ==
  ASSUME Typed, Tree, proc' = proc
  PROVE  Typed' /\ Tree' /\ LivesOn
BY DEF Typed, Tree, LivesOn, Exists

---------------------------------------------------------------------------
(* The table, and what the scan thread and the pipe hold of it.            *)

\* An entry pins the process that had its number when it was opened, and has no
\* other while it exists.
Pins(n, q) ==
  IF n = HostPid THEN q = Host
  ELSE q \in Procs /\ proc[q].st # "unborn" /\ (Exists(q) => proc[q].pid = n)

\* A process the host did not start.
Foreign(q) == q \in Procs /\ proc[q].st # "unborn" /\ proc[q].born # Host

IsEntry(n, e) == e \in Entry /\ e.own /\ Pins(n, e.proc) /\ (e.first # HostPid => Foreign(e.proc))

TableInv == Followed \subseteq Numbers /\ \A n \in Followed : IsEntry(n, table[n])

Locals == [pc : {"none", "wait", "poll", "scan", "check"}, ops : Seq(Op), gone : SUBSET Numbers,
           alive : SUBSET Numbers, done : SUBSET Numbers, under : Numbers, kids : SUBSET Pids,
           kid : Numbers, pinned : Procs \cup {Host, None}]

\* Since the poll every entry is known as alive or as one to handle, and none is
\* left to handle when a child is registered.
ScanInv ==
  /\ ops \in Seq(Op) /\ scan \in Locals
  /\ scan.pc \in {"scan", "check"} => Followed \subseteq scan.alive \cup scan.gone
  /\ scan.pc \notin {"scan", "check"} => scan.kids = {}
  /\ scan.pc = "scan" => scan.gone \subseteq Followed
  /\ scan.kids # {} \/ scan.pc = "check" => scan.gone = {} /\ scan.under \in Followed
  /\ scan.pc = "check" => scan.kid \in Pids /\ Pins(scan.kid, scan.pinned)

\* What the host is told of is a process it did not start, whose exit the probes
\* were told of (noted forgets it when it is waited for).
NoticeInv ==
  /\ \A note \in notices : Foreign(note.start) /\ (note.start \in noted \/ proc[note.start].st = "gone")
  /\ noted \subseteq Procs /\ misreaped = FALSE

LEMMA PinsLast ==
  ASSUME Typed, LivesOn
  PROVE  /\ \A n, q : Pins(n, q) => Pins(n, q)'
         /\ \A q : Foreign(q) => Foreign(q)'
         /\ \A n, e : IsEntry(n, e) => IsEntry(n, e)'
<1>1. \A n, q : Pins(n, q) => Pins(n, q)'
  BY DEF Pins, LivesOn
<1>2. \A q : Foreign(q) => Foreign(q)'
  BY DEF Foreign, LivesOn
<1>3. \A n, e : IsEntry(n, e) => IsEntry(n, e)'
  BY <1>1, <1>2 DEF IsEntry, Pins, Foreign
<1>. QED  BY <1>1, <1>2, <1>3

\* What a step may do to the table: drop entries, and put in right ones.
TableMove ==
  /\ Followed' \subseteq Numbers
  /\ \A n \in Followed' : (n \in Followed /\ table'[n] = table[n]) \/ IsEntry(n, table'[n])

LEMMA TableKept ==
  ASSUME Typed, LivesOn, TableInv, TableMove
  PROVE  TableInv'
<1>1. \A n \in Followed' : IsEntry(n, table'[n])
  BY DEF TableInv, TableMove
<1>2. \A n, e : IsEntry(n, e) => IsEntry(n, e)'
  BY PinsLast
<1>3. \A n \in Followed' : IsEntry(n, table[n])'
  <2>. SUFFICES ASSUME NEW n \in Followed'  PROVE IsEntry(n, table[n])'
    OBVIOUS
  <2>1. PICK e : e = table'[n]
    OBVIOUS
  <2>2. IsEntry(n, e)'
    BY <1>1, <1>2, <2>1
  <2>. QED  BY <2>1, <2>2 DEF IsEntry, Pins, Foreign, Exists
<1>. QED  BY <1>3 DEF TableInv, TableMove

LEMMA TableStays ==
  ASSUME TableInv, table' = table
  PROVE  TableMove
BY DEF TableInv, TableMove, Followed

\* The operators on tables.
LEMMA WithoutMoves ==
  ASSUME TableInv, NEW n, table' = Without(n, table)
  PROVE  TableMove /\ Followed' = Followed \ {n}
BY DEF TableInv, TableMove, Without, Followed

LEMMA WithMoves ==
  ASSUME TableInv, NEW n \in Numbers, NEW e, IsEntry(n, e), table' = With(n, e, table)
  PROVE  TableMove /\ Followed' = Followed \cup {n}
BY DEF TableInv, TableMove, With, Followed

LEMMA AppliedMoves ==
  ASSUME Typed, TableInv, NEW op \in Op, table' = Applied(table, op)
  PROVE  TableMove
<1> DEFINE n == op.pid
<1>1. n \in Numbers /\ op.descend \in BOOLEAN
  BY DEF Op
<1>2. CASE op.remove
  <2>1. table' = table \/ table' = Without(n, table)
    BY <1>2 DEF Applied, Dropped
  <2>. QED  BY <2>1, TableStays, WithoutMoves
<1>3. CASE ~op.remove /\ n \in Followed
  <2> DEFINE e == [table[n] EXCEPT !.root = TRUE, !.scan = op.descend, !.rec = op.descend /\ Recursive]
  <2>1. table' = [table EXCEPT ![n] = e]
    BY <1>3 DEF Applied, Listed, Followed
  <2>2. IsEntry(n, table[n]) /\ table[n] \in Entry
    BY <1>3 DEF TableInv, IsEntry
  <2>3. e \in Entry /\ e.own = table[n].own /\ e.proc = table[n].proc /\ e.first = table[n].first
    BY <1>1, <2>2, ProcsAssumption DEF Entry
  <2>4. IsEntry(n, e)
    BY <2>2, <2>3 DEF IsEntry
  <2> HIDE DEF e
  <2>5. Followed' = Followed /\ table'[n] = e /\ \A k \in Followed : k # n => table'[k] = table[k]
    BY <1>3, <2>1 DEF Followed
  <2>. QED  BY <2>4, <2>5 DEF TableMove, TableInv
<1>4. CASE ~op.remove /\ n \notin Followed
  <2>1. CASE Owner(n) = None
    BY <1>4, <2>1, TableStays DEF Applied, Listed, Followed
  <2>2. CASE Owner(n) # None
    <3> DEFINE e == [proc |-> Owner(n), root |-> TRUE, scan |-> op.descend, rec |-> op.descend /\ Recursive,
                     first |-> HostPid, own |-> TRUE]
    <3>1. table' = With(n, e, table)
      BY <1>4, <2>2 DEF Applied, Listed, Followed
    <3>2. Pins(n, Owner(n)) /\ Owner(n) \in Procs \cup {Host}
      <4>1. CASE n = HostPid
        BY <4>1, OwnerOf DEF Pins
      <4>2. CASE n # HostPid
        <5>1. Owner(n) \in Procs /\ Exists(Owner(n)) /\ proc[Owner(n)].pid = n
          BY <2>2, <4>2, OwnerOf
        <5>. QED  BY <4>2, <5>1 DEF Pins, Exists
      <4>. QED  BY <4>1, <4>2
    <3>3. IsEntry(n, e)
      <4>1. e \in Entry
        BY <1>1, <3>2, ProcsAssumption DEF Entry, Numbers
      <4>. QED  BY <3>2, <4>1 DEF IsEntry
    <3> HIDE DEF e
    <3>. QED  BY <1>1, <3>1, <3>3, WithMoves
  <2>. QED  BY <2>1, <2>2
<1>. QED  BY <1>2, <1>3, <1>4

---------------------------------------------------------------------------
(* The steps.                                                              *)

Inv == Typed /\ Tree /\ TableInv /\ ScanInv /\ NoticeInv

\* A process that is gone stays gone.
LEMMA GoneStays ==
  ASSUME LivesOn, Typed', NEW p \in Procs, proc[p].st = "gone"
  PROVE  proc'[p].st = "gone"
BY DEF LivesOn, Typed, Process, Exists

\* ReapAdoptedChild, of a process that is not the host's own and whose exit the
\* probes know of.
LEMMA ReapAdopted ==
  ASSUME Typed, Tree, misreaped = FALSE, NEW q, NEW start, NEW told,
         Foreign(start), start \in told, ReapAdoptedChild(q, start, told)
  PROVE  /\ Typed' /\ Tree' /\ LivesOn
         /\ misreaped' = FALSE /\ noted' \subseteq told
         /\ \A p \in told : p \in noted' \/ (p \in Procs /\ proc'[p].st = "gone")
<1>1. CASE Ours(q, start)
  <2>1. q \in Procs /\ proc[q].st = "zombie" /\ q = start
    BY <1>1 DEF Ours
  <2>2. Reap(q) /\ noted' = told \ {q} /\ misreaped' = (misreaped \/ proc[q].born = Host \/ q \notin told)
    BY <1>1 DEF ReapAdoptedChild
  <2>3. Typed' /\ Tree' /\ LivesOn /\ proc'[q].st = "gone"
    BY <2>1, <2>2, ReapTreeStep
  <2>. QED  BY <2>1, <2>2, <2>3 DEF Foreign
<1>2. CASE ~Ours(q, start)
  BY <1>2, StillTree DEF ReapAdoptedChild
<1>. QED  BY <1>1, <1>2

\* The notices after a step that reaps: those that stay in the pipe, and one.
LEMMA NoticesKept ==
  ASSUME NoticeInv, LivesOn, Typed', misreaped' = FALSE, noted' \subseteq Procs,
         \A p \in noted : p \in noted' \/ (p \in Procs /\ proc'[p].st = "gone"),
         \A note \in notices' : \/ note \in notices
                                \/ Foreign(note.start) /\ (note.start \in noted' \/ proc'[note.start].st = "gone")
  PROVE  NoticeInv'
<1>1. \A q : Foreign(q) => Foreign(q)'
  BY DEF Foreign, LivesOn
<1>2. \A note \in notices' : Foreign(note.start)' /\ (note.start \in noted' \/ proc'[note.start].st = "gone")
  <2>. SUFFICES ASSUME NEW note \in notices'
                PROVE  Foreign(note.start)' /\ (note.start \in noted' \/ proc'[note.start].st = "gone")
    OBVIOUS
  <2>1. Foreign(note.start)
    BY DEF NoticeInv
  <2>2. Foreign(note.start)'
    BY <1>1, <2>1 DEF Foreign
  <2>3. note.start \in noted' \/ proc'[note.start].st = "gone"
    BY <2>1, GoneStays DEF NoticeInv, Foreign
  <2>. QED  BY <2>2, <2>3
<1>. QED  BY <1>2 DEF NoticeInv, Foreign

LEMMA MaybeReap ==
  ASSUME Typed, Tree, NoticeInv, NEW n, NEW e, IsEntry(n, e), MaybeReapAdopted(n, e)
  PROVE  Typed' /\ Tree' /\ LivesOn /\ NoticeInv'
<1>1. CASE UNCHANGED <<proc, notices, noted, misreaped>>
  <2>1. Typed' /\ Tree' /\ LivesOn
    BY <1>1, StillTree
  <2>. QED  BY <1>1, <2>1, NoticesKept DEF NoticeInv
<1>2. CASE ~UNCHANGED <<proc, notices, noted, misreaped>>
  <2>1. mode # "None" /\ e.first # HostPid
    BY <1>2 DEF MaybeReapAdopted, Adopted
  <2>2. Foreign(e.proc)
    BY <2>1 DEF IsEntry
  <2> DEFINE told == noted \cup {e.proc}
  <2>3. told \subseteq Procs /\ e.proc \in told /\ misreaped = FALSE
    BY <2>2 DEF NoticeInv, Foreign
  <2>4. CASE notices' = notices /\ ReapAdoptedChild(e.proc, e.proc, told)
    <3>1. /\ Typed' /\ Tree' /\ LivesOn
          /\ misreaped' = FALSE /\ noted' \subseteq told
          /\ \A p \in told : p \in noted' \/ (p \in Procs /\ proc'[p].st = "gone")
      BY <2>2, <2>3, <2>4, ReapAdopted
    <3>. QED  BY <2>3, <2>4, <3>1, NoticesKept
  <2>5. CASE /\ noted' = told /\ UNCHANGED <<proc, misreaped>>
             /\ notices' \subseteq notices \cup {[pid |-> n, start |-> e.proc]}
    <3>1. Typed' /\ Tree' /\ LivesOn
      BY <2>5, StillTree
    <3>2. \A note \in notices' : note \in notices \/ note.start = e.proc
      BY <2>5
    <3>. QED  BY <2>2, <2>3, <2>5, <3>1, <3>2, NoticesKept
  <2>. QED  BY <1>2, <2>4, <2>5 DEF MaybeReapAdopted
<1>. QED  BY <1>1, <1>2

\* What the scan thread holds while another actor steps.
LEMMA ScanKept ==
  ASSUME Typed, LivesOn, ScanInv, scan' = scan, table' = table, ops' \in Seq(Op)
  PROVE  ScanInv'
<1>1. \A n, q : Pins(n, q) => Pins(n, q)'
  BY PinsLast
<1>2. scan.pc = "check" => Pins(scan.kid, scan.pinned)'
  BY <1>1 DEF ScanInv, Pins, Exists
<1>. QED  BY <1>2 DEF ScanInv, Pins, Exists, Followed

\* The scan thread between two scans holds nothing.
LEMMA WaitsClean ==
  /\ Idle \in Locals /\ Idle.pc = "none" /\ Idle.kids = {}
  /\ [Idle EXCEPT !.pc = "wait"] \in Locals
  /\ [Idle EXCEPT !.pc = "wait"].pc = "wait" /\ [Idle EXCEPT !.pc = "wait"].kids = {}
<1>1. <<>> \in Seq(Op)
  OBVIOUS
<1>. QED  BY <1>1 DEF Idle, Locals, Numbers

LEMMA InitInv == Init => Inv
<1>. SUFFICES ASSUME Init PROVE Inv
  OBVIOUS
<1>1. Min(Pids) \in Pids /\ First \in Procs
  BY ProcsAssumption, PidsAreFinite
<1>2. \A p \in Procs : \/ p = First /\ proc[p] = [st |-> "alive", pid |-> Min(Pids), par |-> Host, born |-> Host]
                       \/ p # First /\ proc[p] = Unborn
  BY DEF Init
<1>3. Typed
  <2>1. \A p \in Procs : proc[p] \in Process
    BY <1>1, <1>2 DEF Process, Numbers, Parents, Unborn
  <2>. QED  BY <2>1 DEF Typed, Init
<1>4. \A p \in Procs : \/ p = First /\ Exists(p) /\ proc[p].pid = Min(Pids) /\ proc[p].par = Host /\ proc[p].born = Host
                       \/ p # First /\ ~Exists(p) /\ proc[p].born = None
  BY <1>2 DEF Exists, Unborn
<1>5. Tree
  BY <1>1, <1>4, Names DEF Tree
<1>6. Followed = {} /\ TableInv
  <2>1. DOMAIN <<>> = {}
    OBVIOUS
  <2>. QED  BY <2>1 DEF Init, TableInv, Followed
<1>7. ScanInv
  <2>1. PICK u \in Setups : ops = <<Listing(u.root, u.descend)>>
    BY DEF Init
  <2>2. u.root \in Numbers /\ u.descend \in BOOLEAN
    BY SetupsAreSettings DEF Numbers
  <2>3. Listing(u.root, u.descend) \in Op
    BY <2>2 DEF Listing, Op
  <2>4. ops \in Seq(Op)
    BY <2>1, <2>3
  <2>5. Idle \in Locals /\ Idle.pc = "none" /\ Idle.kids = {}
    BY WaitsClean
  <2>. QED  BY <1>6, <2>4, <2>5 DEF Init, ScanInv
<1>8. NoticeInv
  BY DEF Init, NoticeInv
<1>. QED  BY <1>3, <1>5, <1>6, <1>7, <1>8 DEF Inv

\* A step that leaves the processes, the notices and what the probes know alone.
LEMMA QuietStep ==
  ASSUME Inv, UNCHANGED <<proc, notices, noted, misreaped>>
  PROVE  Typed' /\ Tree' /\ LivesOn /\ NoticeInv'
<1>1. Typed' /\ Tree' /\ LivesOn
  BY StillTree DEF Inv
<1>. QED  BY <1>1, NoticesKept DEF Inv, NoticeInv

\* A step of the kernel.
LEMMA KernelStep ==
  ASSUME Inv, Kernel
  PROVE  Inv'
<1>1. Typed' /\ Tree' /\ LivesOn
  <2>1. ASSUME NEW p \in Procs \cup {Host, Outside}, NEW c \in Procs, NEW n \in Pids, Fork(p, c, n)
        PROVE  Typed' /\ Tree' /\ LivesOn
    BY <2>1, ForkTree DEF Inv
  <2>2. ASSUME NEW p \in Procs, Exit(p)
        PROVE  Typed' /\ Tree' /\ LivesOn
    BY <2>2, ExitTree DEF Inv
  <2>3. ASSUME NEW p \in Procs, Wait(p)
        PROVE  Typed' /\ Tree' /\ LivesOn
    BY <2>3, ReapTreeStep DEF Inv, Wait
  <2>. QED  BY <2>1, <2>2, <2>3 DEF Kernel
<1>2. UNCHANGED <<subreaper, api, table, scan, notices, noted, misreaped>>
  BY DEF Kernel, Fork, Exit, Wait
<1>3. TableInv'
  BY <1>1, <1>2, TableStays, TableKept DEF Inv
<1>4. ScanInv'
  BY <1>1, <1>2, ScanKept DEF Inv, ScanInv, api
<1>5. NoticeInv'
  BY <1>1, <1>2, NoticesKept DEF Inv, NoticeInv
<1>. QED  BY <1>1, <1>3, <1>4, <1>5 DEF Inv

\* The host reads a notice.
LEMMA NoticeStep ==
  ASSUME Inv, NEW note \in notices, ReadNotice(note)
  PROVE  Inv'
<1>1. Typed' /\ Tree' /\ LivesOn /\ NoticeInv'
  <2>1. notices' \subseteq notices
    BY DEF ReadNotice
  <2>2. CASE UNCHANGED <<proc, noted, misreaped>>
    <3>1. Typed' /\ Tree' /\ LivesOn
      BY <2>2, StillTree DEF Inv
    <3>. QED  BY <2>1, <2>2, <3>1, NoticesKept DEF Inv, NoticeInv
  <2>3. CASE ~UNCHANGED <<proc, noted, misreaped>>
    <3>1. ReapAdoptedChild(Owner(note.pid), note.start, noted)
      BY <2>3 DEF ReadNotice
    <3>2. Foreign(note.start) /\ misreaped = FALSE /\ noted \subseteq Procs
      BY DEF Inv, NoticeInv
    <3>3. CASE note.start \in noted
      <4>1. /\ Typed' /\ Tree' /\ LivesOn
            /\ misreaped' = FALSE /\ noted' \subseteq noted
            /\ \A p \in noted : p \in noted' \/ (p \in Procs /\ proc'[p].st = "gone")
        BY <3>1, <3>2, <3>3, ReapAdopted DEF Inv
      <4>. QED  BY <2>1, <3>2, <4>1, NoticesKept DEF Inv
    <3>4. CASE note.start \notin noted
      <4>1. proc[note.start].st = "gone"
        BY <3>4 DEF Inv, NoticeInv
      <4>2. ~Ours(Owner(note.pid), note.start)
        BY <4>1 DEF Ours
      <4>. QED  BY <2>3, <3>1, <4>2 DEF ReapAdoptedChild
    <3>. QED  BY <3>3, <3>4
  <2>. QED  BY <2>2, <2>3
<1>2. UNCHANGED <<subreaper, api, table, scan>>
  BY DEF ReadNotice
<1>3. TableInv'
  BY <1>1, <1>2, TableStays, TableKept DEF Inv
<1>4. ScanInv'
  BY <1>1, <1>2, ScanKept DEF Inv, ScanInv, api
<1>. QED  BY <1>1, <1>3, <1>4 DEF Inv

\* The calls of the application, and the join.
LEMMA CallStep ==
  ASSUME Inv, Application \/ Joined
  PROVE  Inv'
<1>1. UNCHANGED <<proc, table, notices, noted, misreaped>>
  BY DEF Application, RemoveRoot, AddRoot, Start, Stop, Joined, kernel
<1>2. Typed' /\ Tree' /\ LivesOn /\ NoticeInv'
  BY <1>1, QuietStep
<1>3. TableInv'
  BY <1>1, <1>2, TableStays, TableKept DEF Inv
<1>4. ops' \in Seq(Op)
  <2>1. ASSUME NEW n \in RootPids, NEW descend \in BOOLEAN
        PROVE  Append(ops, Listing(n, descend)) \in Seq(Op) /\ Append(ops, Removal(n)) \in Seq(Op)
    <3>1. n \in Numbers
      BY PidsAreNumbers DEF Numbers
    <3>2. Listing(n, descend) \in Op /\ Removal(n) \in Op
      BY <3>1 DEF Listing, Removal, Op
    <3>. QED  BY <3>2, AppendProperties DEF Inv, ScanInv
  <2>2. ASSUME NEW n \in RootPids, RemoveRoot(n)
        PROVE  ops' \in Seq(Op)
    <3>1. Append(ops, Removal(n)) \in Seq(Op)
      BY <2>1
    <3>. QED  BY <2>2, <3>1 DEF RemoveRoot
  <2>3. ASSUME NEW n \in RootPids, NEW descend \in BOOLEAN, AddRoot(n, descend)
        PROVE  ops' \in Seq(Op)
    BY <2>1, <2>3 DEF AddRoot
  <2>4. CASE ops' = ops
    BY <2>4 DEF Inv, ScanInv
  <2>. QED  BY <2>2, <2>3, <2>4 DEF Application, Start, Stop, Joined
<1>5. scan' = scan \/ (scan.pc = "none" /\ scan' = [Idle EXCEPT !.pc = "wait"])
  BY DEF Application, RemoveRoot, AddRoot, Start, Stop, Joined, StartThread, Scanning
<1>6. ScanInv'
  <2>1. CASE scan' = scan
    BY <1>1, <1>2, <1>4, <2>1, ScanKept DEF Inv
  <2>2. CASE scan' = [Idle EXCEPT !.pc = "wait"]
    <3>1. scan' \in Locals /\ scan'.pc = "wait" /\ scan'.kids = {}
      BY <2>2, WaitsClean
    <3>. QED  BY <1>4, <3>1 DEF ScanInv
  <2>. QED  BY <1>5, <2>1, <2>2
<1>. QED  BY <1>2, <1>3, <1>6 DEF Inv

\* The steps of a scan that reap nothing: what is left to show of each is what it
\* does to the table and to the thread's locals.
LEMMA ScanStep ==
  ASSUME Inv, UNCHANGED <<proc, notices, noted, misreaped>>, TableMove,
         LivesOn => ScanInv'
  PROVE  Inv'
BY QuietStep, TableKept DEF Inv

LEMMA RunStep ==
  ASSUME Inv, RunEnds \/ TakeOps \/ EndScan
  PROVE  Inv'
<1>1. UNCHANGED <<proc, table, notices, noted, misreaped>>
  BY DEF RunEnds, TakeOps, EndScan, unscanned
<1>2. ScanInv'
  <2>1. CASE RunEnds \/ EndScan
    <3>1. ops' = ops /\ (scan' = Idle \/ scan' = [Idle EXCEPT !.pc = "wait"])
      BY <2>1 DEF RunEnds, EndScan
    <3>2. scan' \in Locals /\ scan'.pc \in {"none", "wait"} /\ scan'.kids = {}
      BY <3>1, WaitsClean
    <3>. QED  BY <3>1, <3>2 DEF Inv, ScanInv
  <2>2. CASE TakeOps
    <3>1. scan.pc = "wait" /\ ops' = <<>> /\ scan' = [scan EXCEPT !.pc = "poll", !.ops = ops]
      BY <2>2 DEF TakeOps
    <3>2. <<>> \in Seq(Op)
      OBVIOUS
    <3>3. scan' \in Locals /\ scan'.pc = "poll" /\ scan'.kids = {}
      BY <3>1 DEF Inv, ScanInv, Locals
    <3>. QED  BY <3>1, <3>2, <3>3 DEF ScanInv
  <2>. QED  BY <2>1, <2>2
<1>. QED  BY <1>1, <1>2, TableStays, ScanStep DEF Inv

LEMMA ApplyStep ==
  ASSUME Inv, ApplyOp
  PROVE  Inv'
<1>1. /\ scan.pc = "poll" /\ scan.ops # <<>> /\ table' = Applied(table, Head(scan.ops))
      /\ scan' = [scan EXCEPT !.ops = Tail(@)]
      /\ UNCHANGED <<proc, ops, notices, noted, misreaped>>
  BY DEF ApplyOp, unscanned
<1>2. scan \in Locals /\ scan.ops \in Seq(Op) /\ scan.kids = {}
  BY <1>1 DEF Inv, ScanInv, Locals
<1>3. Head(scan.ops) \in Op /\ Tail(scan.ops) \in Seq(Op)
  BY <1>1, <1>2, HeadTailProperties
<1>4. TableMove
  BY <1>1, <1>3, AppliedMoves DEF Inv
<1>5. scan' \in Locals /\ scan'.pc = "poll" /\ scan'.kids = {}
  BY <1>1, <1>2, <1>3 DEF Locals
<1>6. ScanInv'
  BY <1>1, <1>5 DEF Inv, ScanInv
<1>. QED  BY <1>1, <1>4, <1>6, ScanStep

LEMMA PollStep ==
  ASSUME Inv, Poll
  PROVE  Inv'
<1> DEFINE ended   == {n \in Followed : ~Alive(table[n].proc)}
           running == {n \in Followed : Alive(table[n].proc)}
<1>1. /\ scan.pc = "poll" /\ scan' = [scan EXCEPT !.pc = "scan", !.gone = ended, !.alive = running]
      /\ UNCHANGED <<proc, ops, table, notices, noted, misreaped>>
  BY DEF Poll, unscanned
<1>2. /\ ended \subseteq Numbers /\ running \subseteq Numbers
      /\ ended \subseteq Followed /\ Followed \subseteq running \cup ended
  BY DEF Inv, TableInv
<1> HIDE DEF ended, running
<1>3. scan' \in Locals /\ scan'.pc = "scan" /\ scan'.kids = {} /\ scan'.gone = ended /\ scan'.alive = running
  BY <1>1, <1>2 DEF Inv, ScanInv, Locals
<1>4. ScanInv'
  BY <1>1, <1>2, <1>3 DEF Inv, ScanInv, Followed
<1>. QED  BY <1>1, <1>4, TableStays, ScanStep DEF Inv

LEMMA HandleExitStep ==
  ASSUME Inv, NEW n \in Numbers, HandleExit(n)
  PROVE  Inv'
<1>1. /\ scan.pc = "scan" /\ n \in scan.gone /\ table' = Without(n, table)
      /\ scan' = [scan EXCEPT !.gone = @ \ {n}] /\ UNCHANGED api
  BY DEF HandleExit
<1>2. scan.kids = {} /\ scan \in Locals
  BY <1>1 DEF Inv, ScanInv
<1>3. Typed' /\ Tree' /\ LivesOn /\ NoticeInv'
  <2>1. CASE UNCHANGED <<proc, notices, noted, misreaped>>
    BY <2>1, QuietStep
  <2>2. CASE ~UNCHANGED <<proc, notices, noted, misreaped>>
    <3>1. MaybeReapAdopted(n, table[n])
      BY <2>2 DEF HandleExit
    <3>2. CASE n \in Followed
      <4>1. IsEntry(n, table[n])
        BY <3>2 DEF Inv, TableInv
      <4>. QED  BY <3>1, <4>1, MaybeReap DEF Inv
    <3>. QED  BY <1>1, <3>2 DEF Inv, ScanInv
  <2>. QED  BY <2>1, <2>2
<1>4. TableMove /\ Followed' = Followed \ {n}
  BY <1>1, WithoutMoves DEF Inv
<1>5. TableInv'
  BY <1>3, <1>4, TableKept DEF Inv
<1>6. scan' \in Locals /\ scan'.pc = "scan" /\ scan'.kids = {} /\ scan'.gone = scan.gone \ {n} /\ scan'.alive = scan.alive
  BY <1>1, <1>2 DEF Locals
<1>7. ScanInv'
  BY <1>1, <1>4, <1>6 DEF Inv, ScanInv, api
<1>. QED  BY <1>3, <1>5, <1>7 DEF Inv

LEMMA ReadStep ==
  ASSUME Inv, NEW n \in Numbers, ReadChildren(n)
  PROVE  Inv'
<1> DEFINE found == ChildrenOf(n) \ Followed
<1>1. /\ scan.pc = "scan" /\ scan.gone = {} /\ n \in Followed
      /\ scan' = [scan EXCEPT !.done = @ \cup {n}, !.under = n, !.kids = found]
      /\ UNCHANGED <<proc, ops, table, notices, noted, misreaped>>
  BY DEF ReadChildren, ToScan, unscanned
<1>2. found \subseteq Pids
  BY DEF ChildrenOf, Inv, Tree
<1> HIDE DEF found
<1>3. scan \in Locals
  BY DEF Inv, ScanInv
<1>4. /\ scan' \in Locals /\ scan'.pc = "scan" /\ scan'.gone = scan.gone /\ scan'.alive = scan.alive
      /\ scan'.under = n
  BY <1>1, <1>2, <1>3 DEF Locals
<1>5. ScanInv'
  BY <1>1, <1>4 DEF Inv, ScanInv, Followed
<1>. QED  BY <1>1, <1>5, TableStays, ScanStep DEF Inv

LEMMA OpenStep ==
  ASSUME Inv, NEW n \in Numbers, OpenChild(n)
  PROVE  Inv'
<1>1. /\ scan.pc = "scan" /\ n \in scan.kids
      /\ \/ Owner(n) = None /\ scan' = [scan EXCEPT !.kids = @ \ {n}]
         \/ /\ Owner(n) # None
            /\ scan' = [scan EXCEPT !.kids = @ \ {n}, !.pc = "check", !.kid = n, !.pinned = Owner(n)]
      /\ UNCHANGED <<proc, ops, table, notices, noted, misreaped>>
  BY DEF OpenChild, unscanned
<1>2. scan \in Locals /\ n \in Pids /\ scan.gone = {} /\ scan.under \in Followed
  BY <1>1 DEF Inv, ScanInv, Locals
<1>3. LivesOn => ScanInv'
  <2>1. CASE Owner(n) = None
    <3>1. /\ scan' \in Locals /\ scan'.pc = "scan" /\ scan'.gone = scan.gone /\ scan'.alive = scan.alive
          /\ scan'.under = scan.under
      BY <1>1, <1>2, <2>1 DEF Locals
    <3>. QED  BY <1>1, <1>2, <3>1 DEF Inv, ScanInv, Followed
  <2>2. CASE Owner(n) # None
    <3>1. Owner(n) \in Procs /\ Exists(Owner(n)) /\ proc[Owner(n)].pid = n
      BY <1>2, <2>2, OwnerOf, Names
    <3>2. Pins(n, Owner(n))
      BY <1>2, <3>1, Names DEF Pins, Exists
    <3>3. PICK q \in Procs : q = Owner(n)
      BY <3>1
    <3>4. scan' = [scan EXCEPT !.kids = @ \ {n}, !.pc = "check", !.kid = n, !.pinned = q]
      BY <1>1, <2>2, <3>3
    <3>5. /\ scan' \in Locals /\ scan'.pc = "check" /\ scan'.gone = scan.gone /\ scan'.alive = scan.alive
          /\ scan'.under = scan.under /\ scan'.kid = n /\ scan'.pinned = q /\ Pins(n, q)
      BY <1>2, <3>2, <3>3, <3>4 DEF Locals, Numbers
    <3>6. LivesOn => Pins(n, q)'
      BY <3>5, PinsLast DEF Inv
    <3>7. LivesOn => Pins(scan.kid, scan.pinned)'
      BY <3>5, <3>6 DEF Pins, Exists
    <3>. QED  BY <1>1, <1>2, <3>5, <3>7 DEF Inv, ScanInv, Followed
  <2>. QED  BY <2>1, <2>2
<1>. QED  BY <1>1, <1>3, TableStays, ScanStep DEF Inv

\* What is entered is the child of a followed process: the number of its parent is
\* in the table, and the process pinned there is the parent, or has ended since
\* the poll (the number is another's now).
LEMMA EnteredIsOurs ==
  ASSUME Inv, NEW q \in Procs, NEW n \in Pids, Pins(n, q), scan.pc = "check", Alive(q),
         Number(proc[q].par) \in Followed
  PROVE  IsEntry(n, Entered(q, Number(proc[q].par)))
<1> DEFINE ppid == Number(proc[q].par)
           par  == proc[q].par
           own  == par \in Pinned \/ (ppid \in scan.alive /\ ~Alive(table[ppid].proc))
           first == IF ppid \in Pids THEN ppid ELSE HostPid
           via  == table[scan.under]
<1>1. Exists(q) /\ proc[q].st = "alive" /\ q # Host
  BY Names DEF Alive, Exists
<1>2. par \in Procs \cup {Host, Outside} /\ (par \in Procs => proc[par].st = "alive")
  BY <1>1 DEF Inv, Tree
<1>3. ppid \in Numbers /\ par # Outside
  <2>1. ppid \in Numbers
    BY DEF Inv, TableInv
  <2>2. par = Outside => ppid = OutsidePid
    BY Names DEF Number
  <2>. QED  BY <2>1, <2>2, Names DEF Numbers
<1>4. IsEntry(ppid, table[ppid])
  BY DEF Inv, TableInv
<1>5. own
  <2>1. CASE par = Host
    <3>1. ppid = HostPid
      BY <2>1, Names DEF Number
    <3>2. table[ppid].proc = Host
      BY <1>4, <3>1 DEF IsEntry, Pins
    <3>. QED  BY <2>1, <3>2 DEF Pinned
  <2>2. CASE par \in Procs
    <3>1. ppid = proc[par].pid
      BY <2>2, Names DEF Number
    <3>2. Exists(par) /\ ppid \in Pids /\ ppid # HostPid
      BY <1>2, <2>2, <3>1, Names DEF Exists, Inv, Tree
    <3>3. table[ppid].proc \in Procs /\ (Exists(table[ppid].proc) => proc[table[ppid].proc].pid = ppid)
      BY <1>4, <3>2 DEF IsEntry, Pins
    <3>4. CASE Alive(table[ppid].proc)
      <4>1. Exists(table[ppid].proc)
        BY <3>3, <3>4, Names DEF Alive, Exists
      <4>2. table[ppid].proc = par
        BY <2>2, <3>1, <3>2, <3>3, <4>1 DEF Inv, Tree
      <4>. QED  BY <4>2 DEF Pinned
    <3>5. CASE ~Alive(table[ppid].proc)
      <4>1. ppid \in scan.alive
        BY DEF Inv, ScanInv
      <4>. QED  BY <3>5, <4>1
    <3>. QED  BY <3>4, <3>5
  <2>. QED  BY <1>2, <1>3, <2>1, <2>2
<1>6. first # HostPid => Foreign(q)
  <2>1. ASSUME first # HostPid  PROVE proc[q].born # Host
    <3>1. ppid # HostPid
      BY <2>1
    <3>2. par # Host
      BY <3>1, Names DEF Number
    <3>3. par # None
      BY <1>2, Names
    <3>. QED  BY <3>2, <3>3 DEF Inv, Tree
  <2>. QED  BY <1>1, <2>1 DEF Foreign
<1>7. first \in Numbers
  BY <1>3 DEF Numbers
<1>8. via.rec \in BOOLEAN
  <2>1. scan.under \in Followed
    BY DEF Inv, ScanInv
  <2>2. via \in Entry
    BY <2>1 DEF Inv, TableInv, IsEntry
  <2>. QED  BY <2>2 DEF Entry
<1>9. Entered(q, ppid) = [proc |-> q, root |-> FALSE, scan |-> via.rec, rec |-> via.rec, first |-> first, own |-> own]
  BY DEF Entered
<1> HIDE DEF own, first, via
<1>10. Entered(q, ppid) = [proc |-> q, root |-> FALSE, scan |-> via.rec, rec |-> via.rec, first |-> first, own |-> TRUE]
  BY <1>5, <1>9
<1>. QED  BY <1>6, <1>7, <1>8, <1>10 DEF IsEntry, Entry

LEMMA CheckStep ==
  ASSUME Inv, CheckChild
  PROVE  Inv'
<1> DEFINE q    == scan.pinned
           n    == scan.kid
           ppid == Number(proc[q].par)
           ok   == Alive(q) /\ Guarded(ppid)
<1>1. /\ scan.pc = "check"
      /\ table' = IF ok THEN With(n, Entered(q, ppid), table) ELSE table
      /\ scan' = [scan EXCEPT !.pc = "scan", !.kid = HostPid, !.pinned = None,
                    !.alive = IF ok THEN @ \cup {n} ELSE @,
                    !.under = IF @ # HostPid /\ scan.kids = {} THEN HostPid ELSE @]
      /\ UNCHANGED <<proc, ops, notices, noted, misreaped>>
  BY DEF CheckChild, unscanned
<1>2. scan \in Locals /\ scan.gone = {} /\ scan.under \in Followed /\ n \in Pids /\ n \in Numbers /\ q \in Procs /\ Pins(n, q)
  BY <1>1, Names DEF Inv, ScanInv, Pins, Numbers
<1>3. /\ scan' \in Locals /\ scan'.pc = "scan" /\ scan'.gone = {} /\ scan'.kids = scan.kids
      /\ scan'.alive = IF ok THEN scan.alive \cup {n} ELSE scan.alive
      /\ scan'.kids # {} => scan'.under = scan.under
  <2> DEFINE alive == IF ok THEN scan.alive \cup {n} ELSE scan.alive
             under == IF scan.under # HostPid /\ scan.kids = {} THEN HostPid ELSE scan.under
  <2>1. alive \subseteq Numbers /\ under \in Numbers /\ (scan.kids # {} => under = scan.under)
    BY <1>2 DEF Locals, Numbers
  <2>2. scan' = [scan EXCEPT !.pc = "scan", !.kid = HostPid, !.pinned = None, !.alive = alive, !.under = under]
    BY <1>1
  <2> HIDE DEF alive, under, ok
  <2>3. /\ scan' \in Locals /\ scan'.pc = "scan" /\ scan'.gone = {} /\ scan'.kids = scan.kids
        /\ scan'.alive = alive /\ scan'.under = under
    BY <1>2, <2>1, <2>2 DEF Locals, Numbers
  <2>. QED  BY <2>1, <2>3 DEF alive
<1>4. CASE ok
  <2>1. IsEntry(n, Entered(q, ppid))
    BY <1>1, <1>2, <1>4, EnteredIsOurs DEF Guarded
  <2>2. table' = With(n, Entered(q, ppid), table)
    BY <1>1, <1>4
  <2>3. TableMove /\ Followed' = Followed \cup {n}
    BY <1>2, <2>1, <2>2, WithMoves DEF Inv
  <2>4. ScanInv'
    BY <1>1, <1>2, <1>3, <1>4, <2>3 DEF Inv, ScanInv
  <2>. QED  BY <1>1, <2>3, <2>4, ScanStep
<1>5. CASE ~ok
  <2>1. table' = table
    BY <1>1, <1>5
  <2>2. ScanInv'
    BY <1>1, <1>2, <1>3, <1>5, <2>1 DEF Inv, ScanInv, Followed
  <2>. QED  BY <1>1, <2>1, <2>2, TableStays, ScanStep DEF Inv
<1>. QED  BY <1>4, <1>5

LEMMA NextInv == Inv /\ [Next]_vars => Inv'
<1>. SUFFICES ASSUME Inv, [Next]_vars PROVE Inv'
  OBVIOUS
<1>1. CASE ScanThread
  <2>1. CASE RunEnds \/ TakeOps \/ EndScan
    BY <2>1, RunStep
  <2>2. CASE ApplyOp
    BY <2>2, ApplyStep
  <2>3. CASE Poll
    BY <2>3, PollStep
  <2>4. CASE CheckChild
    BY <2>4, CheckStep
  <2>5. ASSUME NEW n \in Pids \cup {HostPid}, HandleExit(n)
        PROVE  Inv'
    BY <2>5, HandleExitStep DEF Numbers
  <2>6. ASSUME NEW n \in Pids \cup {HostPid}, ReadChildren(n)
        PROVE  Inv'
    BY <2>6, ReadStep DEF Numbers
  <2>7. ASSUME NEW n \in Pids \cup {HostPid}, OpenChild(n)
        PROVE  Inv'
    BY <2>7, OpenStep DEF Numbers
  <2>. QED  BY <1>1, <2>1, <2>2, <2>3, <2>4, <2>5, <2>6, <2>7 DEF ScanThread
<1>2. CASE NoticeReader
  BY <1>2, NoticeStep DEF NoticeReader
<1>3. CASE Joined \/ Application
  BY <1>3, CallStep
<1>4. CASE Kernel
  BY <1>4, KernelStep
<1>5. CASE UNCHANGED vars
  <2>1. UNCHANGED <<proc, ops, table, scan, notices, noted, misreaped>>
    BY <1>5 DEF vars, kernel, api
  <2>2. LivesOn => ScanInv'
    BY <2>1, ScanKept DEF Inv, ScanInv
  <2>. QED  BY <2>1, <2>2, TableStays, ScanStep DEF Inv
<1>. QED  BY <1>1, <1>2, <1>3, <1>4, <1>5 DEF Next

LEMMA SpecInv == Spec => []Inv
BY InitInv, NextInv, PTL DEF Spec

---------------------------------------------------------------------------
(* What follows.                                                           *)

\* Every variable keeps its type: the table's numbers are numbers, each with a
\* whole entry, and no call is counted below zero.
THEOREM TypeCorrect == Spec => []TypeOK
<1> DEFINE Rest == life \in {"new", "started", "stopping", "stopped"} /\ calls \in Nat
<1>1. Init => Rest
  BY SetupsAreSettings DEF Init
<1>2. Rest /\ [Next]_vars => Rest'
  <2>. SUFFICES ASSUME Rest, [Next]_vars PROVE Rest'
    OBVIOUS
  <2>1. CASE UNCHANGED <<life, calls>>
    BY <2>1
  <2>2. CASE UNCHANGED vars
    BY <2>2 DEF vars, api
  <2>3. CASE ScanThread
    BY <2>3 DEF ScanThread, RunEnds, TakeOps, ApplyOp, Poll, CheckChild, EndScan, HandleExit, ReadChildren,
                OpenChild, unscanned, api
  <2>4. CASE NoticeReader \/ Kernel
    BY <2>4 DEF NoticeReader, ReadNotice, Kernel, Fork, Exit, Wait, api
  <2>5. CASE Application \/ Joined
    BY <2>5 DEF Application, RemoveRoot, AddRoot, Start, Stop, Joined
  <2>. QED  BY <2>2, <2>3, <2>4, <2>5 DEF Next
<1>3. Inv /\ Rest => TypeOK
  <2>. SUFFICES ASSUME Inv, Rest PROVE TypeOK
    OBVIOUS
  <2>1. proc \in [Procs -> Process] /\ Followed \subseteq Numbers /\ \A n \in Followed : table[n] \in Entry
    BY DEF Inv, Typed, TableInv, IsEntry
  <2>2. scan.pc \in {"none", "wait", "poll", "scan", "check"}
    BY DEF Inv, ScanInv, Locals
  <2>3. noted \subseteq Procs /\ misreaped \in BOOLEAN
    BY DEF Inv, NoticeInv
  <2>. QED  BY <2>1, <2>2, <2>3 DEF TypeOK, Process, Parents, Numbers, Entry
<1>. QED  BY <1>1, <1>2, <1>3, SpecInv, PTL DEF Spec

\* ProcessDiscovery::TryRegister compares numbers, which processes hand on; still
\* a process is entered only as the child of a followed one, or of one that took
\* the number of a followed one since this scan's poll.
THEOREM OnlyOursCorrect == Spec => []OnlyOurs
<1>1. Inv => OnlyOurs
  BY DEF Inv, TableInv, IsEntry, Entry, OnlyOurs
<1>. QED  BY <1>1, SpecInv, PTL

\* ReapAdoptedChild, by the scan thread or by the host's notice reader, never waits
\* for a process the host started, nor for one whose exit the probes do not know of,
\* whatever became of the numbers in between.
THEOREM ReapsAdoptedOnlyCorrect == Spec => []ReapsAdoptedOnly
<1>1. Inv => ReapsAdoptedOnly
  BY DEF Inv, NoticeInv, ReapsAdoptedOnly
<1>. QED  BY <1>1, SpecInv, PTL
=============================================================================
